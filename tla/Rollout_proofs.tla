--------------------------- MODULE Rollout_proofs ---------------------------
(* The theorems about Rollout, for any releases, declarations, processes and *)
(* lanes, and any number of events, deployments and reopenings.              *)
EXTENDS Rollout, Extremes, SequenceTheorems

(* What a registry is after some of its declarations.                      *)

\* The functions FoldLeft may choose of, over the places T of s.
Folds(s, g, T) ==
  g = [S \in SUBSET T |-> IF S = {} THEN Nothing
         ELSE LET x == Max(S) IN Declare(g[S \ {x}], s[x])]
Folded(s, T) == CHOOSE g : Folds(s, g, T)

LEMMA FoldIsFolded ==
  ASSUME NEW s PROVE FoldLeft(Declare, Nothing, s) = Folded(s, DOMAIN s)[DOMAIN s]
BY DEF FoldLeft, MapThenFoldSet, Folded, Folds

LEMMA FoldsIs ==
  ASSUME NEW s, NEW g, NEW T, Folds(s, g, T), NEW S \in SUBSET T
  PROVE  g[S] = IF S = {} THEN Nothing ELSE Declare(g[S \ {Max(S)}], s[Max(S)])
<1>1. g[S] = [R \in SUBSET T |-> IF R = {} THEN Nothing
                ELSE LET x == Max(R) IN Declare(g[R \ {x}], s[x])][S]
  BY DEF Folds
<1> QED
  BY <1>1

\* Places of a sequence.
Places(T) == IsFiniteSet(T) /\ Numbers(T)

LEMMA MaxIsIn == ASSUME NEW T, Places(T), NEW S \in SUBSET T, S # {} PROVE Max(S) \in S
<1>1. IsFiniteSet(S) /\ Numbers(S)
  BY FS_Subset DEF Places, Numbers
<1> QED
  BY <1>1, MaxIsGreatest

\* Two of them agree.
LEMMA FoldsAgree ==
  ASSUME NEW s, NEW T, Places(T), NEW A \in SUBSET T, NEW B \in SUBSET T,
         NEW g, NEW h, Folds(s, g, A), Folds(s, h, B), NEW S \in SUBSET A, S \in SUBSET B
  PROVE  g[S] = h[S]
<1> DEFINE U == {R \in SUBSET T : R \subseteq A /\ R \subseteq B /\ g[R] # h[R]}
<1> SUFFICES ASSUME U # {} PROVE FALSE
  OBVIOUS
<1>1. PICK R \in U : \A Q \in U : Q \subseteq R => Q = R
  <2> HIDE DEF U
  <2>1. U \in SUBSET (SUBSET T) /\ IsFiniteSet(T)
    BY DEF U, Places
  <2> QED
    BY <2>1, SmallestSubset
<1>2. R \in SUBSET A /\ R \in SUBSET B /\ R \in SUBSET T /\ g[R] # h[R]
  BY <1>1
<1>3. \A Q \in SUBSET T : Q \subseteq A /\ Q \subseteq B /\ Q \subseteq R /\ Q # R => g[Q] = h[Q]
  BY <1>1
<1> HIDE DEF U
<1>4. /\ g[R] = IF R = {} THEN Nothing ELSE Declare(g[R \ {Max(R)}], s[Max(R)])
      /\ h[R] = IF R = {} THEN Nothing ELSE Declare(h[R \ {Max(R)}], s[Max(R)])
  BY <1>2, FoldsIs
<1>5. R # {}
  BY <1>2, <1>4
<1>6. g[R \ {Max(R)}] = h[R \ {Max(R)}]
  BY <1>2, <1>3, <1>5, MaxIsIn
<1> QED
  BY <1>2, <1>4, <1>5, <1>6

LEMMA FoldsExists ==
  ASSUME NEW s, NEW P, Places(P), NEW T \in SUBSET P PROVE Folds(s, Folded(s, T), T)
<1> DEFINE U == {t \in SUBSET P : ~Folds(s, Folded(s, t), t)}
<1> SUFFICES ASSUME U # {} PROVE FALSE
  OBVIOUS
<1>1. PICK t \in U : \A r \in U : r \subseteq t => r = t
  <2> HIDE DEF U
  <2>1. U \in SUBSET (SUBSET P) /\ IsFiniteSet(P)
    BY DEF U, Places
  <2> QED
    BY <2>1, SmallestSubset
<1>2. t \in SUBSET P /\ ~Folds(s, Folded(s, t), t)
  BY <1>1
<1>3. \A r \in SUBSET P : r \subseteq t /\ r # t => Folds(s, Folded(s, r), r)
  BY <1>1
<1> HIDE DEF U
<1> DEFINE Less(S) == S \ {Max(S)}
           g == [S \in SUBSET t |-> IF S = {} THEN Nothing
                   ELSE Declare(Folded(s, Less(S))[Less(S)], s[Max(S)])]
<1>4. ASSUME NEW S \in SUBSET t, S # {} PROVE g[Less(S)] = Folded(s, Less(S))[Less(S)]
  <2> DEFINE r == Less(S)
  <2>1. r \in SUBSET P /\ r \subseteq t /\ r # t /\ r \in SUBSET r
    BY <1>2, <1>4, MaxIsIn
  <2>2. Folds(s, Folded(s, r), r)
    BY <1>3, <2>1
  <2>3. Folded(s, r)[r] = IF r = {} THEN Nothing ELSE Declare(Folded(s, r)[Less(r)], s[Max(r)])
    <3> HIDE DEF r
    <3> QED
      BY <2>1, <2>2, FoldsIs
  <2>4. g[r] = IF r = {} THEN Nothing ELSE Declare(Folded(s, Less(r))[Less(r)], s[Max(r)])
    BY <2>1
  <2>5. CASE r = {}
    BY <2>3, <2>4, <2>5
  <2>6. CASE r # {}
    <3> DEFINE q == Less(r)
    <3>1. q \in SUBSET P /\ q \subseteq t /\ q # t /\ q \in SUBSET r /\ q \in SUBSET q
      BY <2>1, <2>6, MaxIsIn
    <3>2. Folds(s, Folded(s, q), q)
      BY <1>3, <3>1
    <3>3. Folded(s, r)[q] = Folded(s, q)[q]
      <4> HIDE DEF q, r
      <4> QED
        BY <2>1, <2>2, <3>1, <3>2, FoldsAgree
    <3> QED
      BY <2>3, <2>4, <2>6, <3>3
  <2> QED
    BY <2>5, <2>6
<1>5. Folds(s, g, t)
  <2> DEFINE h == [S \in SUBSET t |-> IF S = {} THEN Nothing
                     ELSE LET x == Max(S) IN Declare(g[S \ {x}], s[x])]
  <2>1. \A S \in SUBSET t : g[S] = h[S]
    <3> SUFFICES ASSUME NEW S \in SUBSET t PROVE g[S] = h[S]
      OBVIOUS
    <3>1. CASE S = {}
      BY <3>1
    <3>2. CASE S # {}
      BY <1>4, <3>2
    <3> QED
      BY <3>1, <3>2
  <2>2. g = h
    BY <2>1
  <2> QED
    BY <2>2 DEF Folds
<1>6. Folds(s, Folded(s, t), t)
  <2> HIDE DEF g
  <2> QED
    BY <1>5 DEF Folded
<1> QED
  BY <1>2, <1>6

LEMMA FoldsNest ==
  ASSUME NEW s, NEW T, Places(T), NEW R \in SUBSET T PROVE Folded(s, T)[R] = Folded(s, R)[R]
<1>1. T \in SUBSET T /\ R \in SUBSET R
  OBVIOUS
<1>2. Folds(s, Folded(s, T), T) /\ Folds(s, Folded(s, R), R)
  BY <1>1, FoldsExists
<1> QED
  BY <1>1, <1>2, FoldsAgree

\* A registry after the first n declarations of s.
Upto(s, n) == Folded(s, 1..n)[1..n]

LEMMA PlacesAre == ASSUME NEW n \in Nat PROVE Places(1..n)
BY FS_Interval DEF Places, Numbers

LEMMA UptoNone == ASSUME NEW s PROVE Upto(s, 0) = Nothing
<1>1. 1..0 = {} /\ Places(1..0)
  BY PlacesAre
<1>2. Folds(s, Folded(s, 1..0), 1..0)
  BY <1>1, FoldsExists
<1>3. 1..0 \in SUBSET (1..0)
  OBVIOUS
<1>4. Folded(s, 1..0)[1..0] = Nothing
  BY <1>1, <1>2, <1>3, FoldsIs
<1> QED
  BY <1>4 DEF Upto

LEMMA UptoNext ==
  ASSUME NEW s, NEW n \in Nat PROVE Upto(s, n + 1) = Declare(Upto(s, n), s[n + 1])
<1> DEFINE T == 1..(n + 1)
           R == 1..n
<1>1. Places(T) /\ R \in SUBSET T /\ R = T \ {n + 1} /\ T # {} /\ n + 1 \in T
  <2>1. n + 1 \in T /\ n + 1 \in Nat
    OBVIOUS
  <2>2. \A i : i \in R <=> i \in T /\ i # n + 1
    OBVIOUS
  <2>3. Places(T)
    BY <2>1, PlacesAre
  <2> HIDE DEF T, R
  <2> QED
    BY <2>1, <2>2, <2>3
<1>2. Folds(s, Folded(s, T), T) /\ Folds(s, Folded(s, R), R)
  <2> HIDE DEF T, R
  <2> QED
    BY <1>1, FoldsExists
<1>3. Max(T) = n + 1
  <2>1. Max(T) \in T /\ \A i \in T : i <= Max(T)
    <3> HIDE DEF T
    <3> QED
      BY <1>1, MaxIsGreatest DEF Places
  <2> QED
    BY <2>1
<1> HIDE DEF T, R
<1>4. Folded(s, T)[T] = Declare(Folded(s, T)[R], s[n + 1])
  <2>1. T \in SUBSET T
    OBVIOUS
  <2>2. Folded(s, T)[T] = IF T = {} THEN Nothing ELSE Declare(Folded(s, T)[T \ {Max(T)}], s[Max(T)])
    BY <1>2, <2>1, FoldsIs
  <2> QED
    BY <1>1, <1>3, <2>2
<1>5. Folded(s, T)[R] = Folded(s, R)[R]
  BY <1>1, FoldsNest
<1> QED
  BY <1>4, <1>5 DEF Upto, T, R

-----------------------------------------------------------------------------
(* What a registry that refused nothing holds.                             *)

EventsIn(s) == {d \in Range(s) : d.kind = "event"}

\* Of the first n declarations of s none was lost, and a name means the class
\* that goes by it.
Whole(g, s, n) ==
  /\ \A i \in 1..n : s[i].kind = "receiver" =>
       s[i].key \in DOMAIN g.receivers /\ g.receivers[s[i].key] = s[i]
  /\ \A i \in 1..n : s[i].kind = "event" =>
       /\ s[i].class \in DOMAIN g.classes /\ s[i].name \in DOMAIN g.names
       /\ g.names[s[i].name].class = s[i].class
  /\ \A c \in DOMAIN g.classes :
       /\ g.classes[c] \in EventsIn(s) /\ g.classes[c].class = c
       /\ g.classes[c].name \in DOMAIN g.names /\ g.names[g.classes[c].name] = g.classes[c]

Shaped(g) ==
  \E c, m, k, b : b \in BOOLEAN /\ g = [classes |-> c, names |-> m, receivers |-> k, refused |-> b]

Faithful(g, s, n) == Shaped(g) /\ (~g.refused => Whole(g, s, n))

LEMMA DeclaredIs ==
  ASSUME NEW s \in Seq(Declarations), NEW i \in DOMAIN s
  PROVE  /\ s[i] \in Declarations /\ s[i].kind \in {"event", "receiver"} /\ s[i] \in Range(s)
         /\ s[i].kind = "event" => s[i] \in EventsIn(s)
<1>1. s[i] \in Declarations
  BY ElementOfSeq, LenProperties
<1> QED
  BY <1>1 DEF Declarations, EventsIn, Range

LEMMA EventJoins ==
  ASSUME NEW s \in Seq(Declarations), NEW n \in Nat, n + 1 \in DOMAIN s, NEW g, Shaped(g),
         ~g.refused, Whole(g, s, n), s[n + 1].kind = "event", ~Clashes(g, s[n + 1])
  PROVE  Faithful(Registered(g, s[n + 1]), s, n + 1)
<1> DEFINE d == s[n + 1]
           h == Registered(g, d)
<1>1. d \in EventsIn(s) /\ d.kind = "event"
  BY DeclaredIs
<1>2. /\ Shaped(h) /\ ~h.refused /\ h.receivers = g.receivers
      /\ h.classes = Put(g.classes, d.class, d) /\ h.names = Put(g.names, d.name, d)
  <2> HIDE DEF d
  <2>1. PICK c, m, k, b : b \in BOOLEAN /\ g = [classes |-> c, names |-> m, receivers |-> k, refused |-> b]
    BY DEF Shaped
  <2>2. h = [classes |-> Put(c, d.class, d), names |-> Put(m, d.name, d), receivers |-> k, refused |-> b]
    BY <1>1, <2>1 DEF Registered
  <2>3. b \in BOOLEAN /\ ~b
    BY <2>1
  <2> HIDE DEF h
  <2>4. Shaped(h)
    BY <2>2, <2>3 DEF Shaped
  <2> QED
    BY <2>1, <2>2, <2>3, <2>4
<1>3. d.name \in DOMAIN g.names => g.names[d.name].class = d.class
  BY DEF Clashes
<1>4. /\ DOMAIN h.classes = {d.class} \cup DOMAIN g.classes /\ h.classes[d.class] = d
      /\ \A c \in DOMAIN g.classes : c # d.class => h.classes[c] = g.classes[c]
      /\ DOMAIN h.names = {d.name} \cup DOMAIN g.names /\ h.names[d.name] = d
      /\ \A m \in DOMAIN g.names : m # d.name => h.names[m] = g.names[m]
  <2> HIDE DEF d, h
  <2>1. /\ DOMAIN Put(g.classes, d.class, d) = {d.class} \cup DOMAIN g.classes
        /\ Put(g.classes, d.class, d)[d.class] = d
        /\ \A c \in DOMAIN g.classes : c # d.class => Put(g.classes, d.class, d)[c] = g.classes[c]
    BY DEF Put
  <2>2. /\ DOMAIN Put(g.names, d.name, d) = {d.name} \cup DOMAIN g.names
        /\ Put(g.names, d.name, d)[d.name] = d
        /\ \A m \in DOMAIN g.names : m # d.name => Put(g.names, d.name, d)[m] = g.names[m]
    BY DEF Put
  <2> QED
    BY <1>2, <2>1, <2>2
<1> HIDE DEF h
<1>5. \A i \in 1..(n + 1) : i \in 1..n \/ s[i] = d
  OBVIOUS
<1> HIDE DEF d
<1>6. \A i \in 1..(n + 1) : s[i].kind = "receiver" =>
        s[i].key \in DOMAIN h.receivers /\ h.receivers[s[i].key] = s[i]
  BY <1>1, <1>2, <1>5 DEF Whole
<1>7. ASSUME NEW i \in 1..(n + 1), s[i].kind = "event"
      PROVE  /\ s[i].class \in DOMAIN h.classes /\ s[i].name \in DOMAIN h.names
             /\ h.names[s[i].name].class = s[i].class
  <2>1. CASE s[i] = d
    BY <1>4, <2>1
  <2>2. CASE i \in 1..n
    <3>1. /\ s[i].class \in DOMAIN g.classes /\ s[i].name \in DOMAIN g.names
          /\ g.names[s[i].name].class = s[i].class
      BY <1>7, <2>2 DEF Whole
    <3> QED
      BY <1>3, <1>4, <3>1
  <2> QED
    BY <1>5, <2>1, <2>2
<1>8. ASSUME NEW c \in DOMAIN h.classes
      PROVE  /\ h.classes[c] \in EventsIn(s) /\ h.classes[c].class = c
             /\ h.classes[c].name \in DOMAIN h.names /\ h.names[h.classes[c].name] = h.classes[c]
  <2>1. CASE c = d.class
    BY <1>1, <1>4, <2>1
  <2>2. CASE c # d.class
    <3>1. /\ c \in DOMAIN g.classes /\ h.classes[c] = g.classes[c]
          /\ g.classes[c] \in EventsIn(s) /\ g.classes[c].class = c
          /\ g.classes[c].name \in DOMAIN g.names /\ g.names[g.classes[c].name] = g.classes[c]
      BY <1>4, <2>2 DEF Whole
    <3>2. g.classes[c].name # d.name
      BY <1>3, <2>2, <3>1
    <3> QED
      BY <1>4, <3>1, <3>2
  <2> QED
    BY <2>1, <2>2
<1>9. Whole(h, s, n + 1)
  BY <1>6, <1>7, <1>8 DEF Whole
<1> QED
  BY <1>2, <1>9 DEF Faithful, h, d

LEMMA ReceiverJoins ==
  ASSUME NEW s \in Seq(Declarations), NEW n \in Nat, n + 1 \in DOMAIN s, NEW g, Shaped(g),
         ~g.refused, Whole(g, s, n), s[n + 1].kind = "receiver", ~Clashes(g, s[n + 1])
  PROVE  Faithful(Registered(g, s[n + 1]), s, n + 1)
<1> DEFINE d == s[n + 1]
           h == Registered(g, d)
<1>1. /\ Shaped(h) /\ ~h.refused /\ h.classes = g.classes /\ h.names = g.names
      /\ h.receivers = Put(g.receivers, d.key, d)
  <2> d.kind = "receiver"
    OBVIOUS
  <2> HIDE DEF d
  <2>1. PICK c, m, k, b : b \in BOOLEAN /\ g = [classes |-> c, names |-> m, receivers |-> k, refused |-> b]
    BY DEF Shaped
  <2>2. h = [classes |-> c, names |-> m, receivers |-> Put(k, d.key, d), refused |-> b]
    BY <2>1 DEF Registered
  <2>3. b \in BOOLEAN /\ ~b
    BY <2>1
  <2> HIDE DEF h
  <2>4. Shaped(h)
    BY <2>2, <2>3 DEF Shaped
  <2> QED
    BY <2>1, <2>2, <2>3, <2>4
<1>2. d.kind = "receiver" /\ (d.key \in DOMAIN g.receivers => g.receivers[d.key] = d)
  BY DEF Clashes
<1>3. /\ DOMAIN h.receivers = {d.key} \cup DOMAIN g.receivers /\ h.receivers[d.key] = d
      /\ \A k \in DOMAIN g.receivers : k # d.key => h.receivers[k] = g.receivers[k]
  <2> HIDE DEF d, h
  <2>1. /\ DOMAIN Put(g.receivers, d.key, d) = {d.key} \cup DOMAIN g.receivers
        /\ Put(g.receivers, d.key, d)[d.key] = d
        /\ \A k \in DOMAIN g.receivers : k # d.key => Put(g.receivers, d.key, d)[k] = g.receivers[k]
    BY DEF Put
  <2> QED
    BY <1>1, <2>1
<1> HIDE DEF h
<1>4. \A i \in 1..(n + 1) : i \in 1..n \/ s[i] = d
  OBVIOUS
<1> HIDE DEF d
<1>5. ASSUME NEW i \in 1..(n + 1), s[i].kind = "receiver"
      PROVE  s[i].key \in DOMAIN h.receivers /\ h.receivers[s[i].key] = s[i]
  <2>1. CASE s[i] = d
    BY <1>3, <2>1
  <2>2. CASE i \in 1..n
    <3>1. s[i].key \in DOMAIN g.receivers /\ g.receivers[s[i].key] = s[i]
      BY <1>5, <2>2 DEF Whole
    <3> QED
      BY <1>2, <1>3, <3>1
  <2> QED
    BY <1>4, <2>1, <2>2
<1>6. \A i \in 1..(n + 1) : s[i].kind = "event" =>
        /\ s[i].class \in DOMAIN h.classes /\ s[i].name \in DOMAIN h.names
        /\ h.names[s[i].name].class = s[i].class
  BY <1>1, <1>2, <1>4 DEF Whole
<1>7. Whole(h, s, n + 1)
  BY <1>1, <1>5, <1>6 DEF Whole
<1> QED
  BY <1>1, <1>7 DEF Faithful, h, d

\* One declaration more.
LEMMA DeclareKeeps ==
  ASSUME NEW s \in Seq(Declarations), NEW n \in Nat, n + 1 \in DOMAIN s, NEW g, Faithful(g, s, n)
  PROVE  Faithful(Declare(g, s[n + 1]), s, n + 1)
<1>1. CASE g.refused \/ Clashes(g, s[n + 1])
  <2>1. PICK c, m, k, b : b \in BOOLEAN /\ g = [classes |-> c, names |-> m, receivers |-> k, refused |-> b]
    BY DEF Faithful, Shaped
  <2>2. Declare(g, s[n + 1]) = [classes |-> c, names |-> m, receivers |-> k, refused |-> TRUE]
    <3> HIDE DEF Clashes
    <3>1. Declare(g, s[n + 1]) = [g EXCEPT !.refused = TRUE]
      BY <1>1 DEF Declare
    <3> QED
      BY <2>1, <3>1
  <2> DEFINE h == Declare(g, s[n + 1])
  <2>3. h = [classes |-> c, names |-> m, receivers |-> k, refused |-> TRUE]
    BY <2>2
  <2> HIDE DEF h
  <2>4. Shaped(h) /\ h.refused
    BY <2>3 DEF Shaped
  <2>5. Faithful(h, s, n + 1)
    BY <2>4 DEF Faithful
  <2> QED
    BY <2>5 DEF h
<1>2. CASE ~g.refused /\ ~Clashes(g, s[n + 1])
  <2>1. Declare(g, s[n + 1]) = Registered(g, s[n + 1])
    BY <1>2 DEF Declare
  <2>2. Shaped(g) /\ Whole(g, s, n)
    BY <1>2 DEF Faithful
  <2>3. CASE s[n + 1].kind = "event"
    BY <1>2, <2>1, <2>2, <2>3, EventJoins
  <2>4. CASE s[n + 1].kind = "receiver"
    BY <1>2, <2>1, <2>2, <2>4, ReceiverJoins
  <2> QED
    BY <2>3, <2>4, DeclaredIs
<1> QED
  BY <1>1, <1>2

LEMMA NothingFaithful == ASSUME NEW s PROVE Faithful(Nothing, s, 0)
<1>1. Shaped(Nothing)
  BY DEF Shaped, Nothing
<1>2. DOMAIN Nothing.classes = {} /\ ~Nothing.refused
  BY DEF Nothing
<1>3. Whole(Nothing, s, 0)
  BY <1>2 DEF Whole
<1> QED
  BY <1>1, <1>3 DEF Faithful

LEMMA UptoFaithful ==
  ASSUME NEW s \in Seq(Declarations), NEW n \in 0..Len(s) PROVE Faithful(Upto(s, n), s, n)
<1> DEFINE U == {i \in 0..Len(s) : ~Faithful(Upto(s, i), s, i)}
<1> SUFFICES ASSUME U # {} PROVE FALSE
  OBVIOUS
<1>0. Len(s) \in Nat /\ DOMAIN s = 1..Len(s)
  BY LenProperties
<1>1. PICK i \in U : \A j \in U : i <= j
  <2>1. Numbers(U)
    BY <1>0 DEF Numbers
  <2> HIDE DEF U
  <2> QED
    BY <2>1, LeastOfNumbers
<1>2. i \in 0..Len(s) /\ ~Faithful(Upto(s, i), s, i)
  OBVIOUS
<1>3. i # 0
  BY <1>2, UptoNone, NothingFaithful
<1> DEFINE j == i - 1
<1>4. j \in Nat /\ j \in 0..Len(s) /\ j + 1 = i /\ i \in DOMAIN s /\ j < i
  BY <1>0, <1>2, <1>3
<1>5. Faithful(Upto(s, j), s, j)
  <2> HIDE DEF j
  <2>1. j \notin U
    <3> HIDE DEF U
    <3> QED
      BY <1>0, <1>1, <1>2, <1>4
  <2> QED
    BY <1>4, <2>1
<1> HIDE DEF U, j
<1>6. Faithful(Upto(s, j + 1), s, j + 1)
  BY <1>4, <1>5, UptoNext, DeclareKeeps
<1> QED
  BY <1>2, <1>4, <1>6

LEMMA RegistryIs ==
  ASSUME NEW r \in Releases, ~Registries[r].refused
  PROVE  /\ Imports[r] \in Seq(Declarations)
         /\ Whole(Registries[r], Imports[r], Len(Imports[r]))
<1>1. Imports[r] \in Seq(Declarations)
  BY ConstantsAssumption
<1>2. DOMAIN Imports[r] = 1..Len(Imports[r]) /\ Len(Imports[r]) \in Nat
  BY <1>1, LenProperties
<1>3. Registries[r] = FoldLeft(Declare, Nothing, Imports[r])
  BY DEF Registries
<1>4. Registries[r] = Upto(Imports[r], Len(Imports[r]))
  BY <1>2, <1>3, FoldIsFolded DEF Upto
<1>5. Faithful(Registries[r], Imports[r], Len(Imports[r]))
  BY <1>1, <1>2, <1>4, UptoFaithful
<1> QED
  BY <1>1, <1>5 DEF Faithful

\* What a release declares, as its processes find it.
DeclarationsStand(r) ==
  LET registry == Registries[r]
  IN  /\ \A d \in Receivers(r) :
           \A class \in DOMAIN registry.classes :
             d.listens \in {class, AnyEvent} => d.key \in Owes(registry, class)
      /\ \A d \in Receivers(r) : d.listens = AnyEvent \/ d.listens \in DOMAIN registry.classes
      /\ \A d \in Events(r) :
           /\ registry.names[d.name].class = d.class
           /\ registry.names[registry.classes[d.class].name] = registry.classes[d.class]

LEMMA DeployableStands ==
  ASSUME NEW r \in Releases, Deployable(r) PROVE DeclarationsStand(r)
<1> DEFINE g == Registries[r]
           s == Imports[r]
<1>1. s \in Seq(Declarations) /\ Whole(g, s, Len(s)) /\ ReceiversHaveEvents(g)
  BY RegistryIs DEF Deployable
<1>2. \A d \in Range(s) : \E i \in 1..Len(s) : d = s[i]
  BY <1>1, LenProperties DEF Range
<1> HIDE DEF g, s
<1>3. ASSUME NEW d \in Receivers(r) PROVE d.key \in DOMAIN g.receivers /\ g.receivers[d.key] = d
  BY <1>1, <1>2, <1>3 DEF Receivers, Whole, s
<1>4. ASSUME NEW d \in Events(r)
      PROVE  /\ g.names[d.name].class = d.class /\ d.class \in DOMAIN g.classes
  BY <1>1, <1>2, <1>4 DEF Events, Whole, s
<1>5. ASSUME NEW d \in Receivers(r), NEW class \in DOMAIN g.classes, d.listens \in {class, AnyEvent}
      PROVE  d.key \in Owes(g, class)
  BY <1>3, <1>5 DEF Owes
<1>6. ASSUME NEW d \in Receivers(r) PROVE d.listens = AnyEvent \/ d.listens \in DOMAIN g.classes
  BY <1>1, <1>3 DEF ReceiversHaveEvents
<1>7. \A c \in DOMAIN g.classes : g.names[g.classes[c].name] = g.classes[c]
  BY <1>1 DEF Whole
<1> QED
  BY <1>4, <1>5, <1>6, <1>7 DEF DeclarationsStand, g

LEMMA StandsIs ==
  EveryDeclarationStands <=> \A p \in Processes : running[p] # 0 => DeclarationsStand(running[p])
BY DEF EveryDeclarationStands, DeclarationsStand

LEMMA EverythingStands ==
  ASSUME TypeOK, Checked PROVE EveryDeclarationStands
<1>1. ASSUME NEW p \in Processes, running[p] # 0 PROVE DeclarationsStand(running[p])
  <2>1. running[p] \in Releases /\ Deployable(running[p])
    BY <1>1 DEF TypeOK, Checked
  <2> QED
    BY <2>1, DeployableStands
<1> QED
  BY <1>1, StandsIs

-----------------------------------------------------------------------------
(* The invariant.                                                          *)

RowType == [status: Statuses, attempts: 0..MaxAttempts, by: Relays \cup {Nobody}]
EventType == [name: Names \cup {""}, version: Nat, payload: SUBSET STRING]

RowsKept == \A e \in Ids, k \in Keys : RowKept(e, k)
AllNamed == \A e \in Ids, k \in Keys, r \in Releases : Named(r, e, k)

LEMMA InvariantIs == IInv <=> TypeOK /\ EveryDeclarationStands /\ Checked /\ RowsKept /\ AllNamed
BY DEF IInv, RowsKept, AllNamed

LEMMA Numbered ==
  /\ MaxEvents \in Nat /\ MaxAttempts \in Nat /\ MaxAttempts # 0
  /\ MaxDeploys \in Nat /\ MaxReopens \in Nat
BY ConstantsAssumption

LEMMA NoRowIs == NoRow \in RowType /\ [NoRow EXCEPT !.status = "pending"] \in RowType
BY Numbered DEF NoRow, RowType, Statuses

LEMMA InitKeeps == Init => IInv
<1> SUFFICES ASSUME Init PROVE IInv
  OBVIOUS
<1>1. TypeOK
  <2>1. target \in Releases /\ deploys \in 0..MaxDeploys /\ reopens \in 0..MaxReopens
    <3>1. 0 \in 0..MaxDeploys /\ 0 \in 0..MaxReopens
      BY Numbered
    <3> QED
      BY <3>1, ConstantsAssumption DEF Init
  <2>2. running \in [Processes -> Releases \cup {0}]
    BY ConstantsAssumption DEF Init
  <2>3. event \in [Ids -> EventType]
    BY DEF Init, EventType
  <2>4. row \in [Ids -> [Keys -> RowType]]
    BY NoRowIs DEF Init
  <2>5. stranded \in [Releases -> SUBSET (Ids \X Keys)]
    BY DEF Init
  <2>6. warned \in [Releases -> [keys: SUBSET Keys, names: SUBSET Names]]
    BY DEF Init
  <2> QED
    BY <2>1, <2>2, <2>3, <2>4, <2>5, <2>6 DEF TypeOK, RowType, EventType
<1>2. Checked
  BY ConstantsAssumption DEF Init, Checked
<1>3. RowsKept
  BY DEF Init, RowsKept, RowKept, IsOwed, NoRow
<1>4. AllNamed
  BY DEF Init, AllNamed, Named
<1> QED
  BY <1>1, <1>2, <1>3, <1>4, EverythingStands, InvariantIs

\* A row is replaced.
LEMMA SetMakes ==
  ASSUME TypeOK, NEW e \in Ids, NEW k \in Keys, NEW new \in RowType, Set(e, k, new)
  PROVE  /\ row' \in [Ids -> [Keys -> RowType]]
         /\ \A i \in Ids, j \in Keys : row'[i][j] = IF i = e /\ j = k THEN new ELSE row[i][j]
BY DEF TypeOK, Set, RowType

\* What a step that replaces a row has to show.
Tried(e, k, new) ==
  /\ new \in RowType /\ new.status # "none" /\ row[e][k].status # "none"
  /\ new.status \notin Terminal => new.attempts < MaxAttempts

LEMMA SetKeeps ==
  ASSUME IInv, NEW e \in Ids, NEW k \in Keys, NEW new, Tried(e, k, new), Set(e, k, new),
         reopens' \in 0..MaxReopens,
         UNCHANGED <<target, deploys, running, event, stranded, warned>>
  PROVE  IInv'
<1>1. TypeOK /\ EveryDeclarationStands /\ Checked /\ RowsKept /\ AllNamed
  BY InvariantIs
<1>2. /\ row' \in [Ids -> [Keys -> RowType]]
      /\ \A i \in Ids, j \in Keys : row'[i][j] = IF i = e /\ j = k THEN new ELSE row[i][j]
  BY <1>1, SetMakes DEF Tried
<1>3. TypeOK'
  BY <1>1, <1>2 DEF TypeOK, RowType
<1>4. Checked'
  BY <1>1 DEF Checked
<1>5. RowsKept'
  <2> SUFFICES ASSUME NEW i \in Ids, NEW j \in Keys PROVE RowKept(i, j)'
    BY DEF RowsKept, Ids
  <2>1. RowKept(i, j) /\ RowKept(e, k)
    BY <1>1 DEF RowsKept
  <2>2. CASE i = e /\ j = k
    BY <1>2, <2>1, <2>2 DEF RowKept, IsOwed, Tried
  <2>3. CASE ~(i = e /\ j = k)
    BY <1>2, <2>1, <2>3 DEF RowKept, IsOwed
  <2> QED
    BY <2>2, <2>3
<1>6. AllNamed'
  BY <1>1 DEF AllNamed, Named, Ids
<1>7. EveryDeclarationStands'
  BY <1>1 DEF EveryDeclarationStands
<1> QED
  BY <1>3, <1>4, <1>5, <1>6, <1>7 DEF IInv, RowsKept, AllNamed

LEMMA RowIs ==
  ASSUME TypeOK, RowsKept, NEW e \in Ids, NEW k \in Keys
  PROVE  row[e][k] \in RowType /\ RowKept(e, k)
<1>1. row \in [Ids -> [Keys -> RowType]]
  BY DEF TypeOK, RowType
<1> QED
  BY <1>1 DEF RowsKept

LEMMA ClaimKeeps ==
  ASSUME IInv, NEW p \in Relays, NEW e \in Ids, NEW k \in Keys, Claim(p, e, k)
  PROVE  IInv'
<1> DEFINE new == [row[e][k] EXCEPT !.status = "claimed", !.by = p]
<1>1. TypeOK /\ RowsKept
  BY InvariantIs
<1>2. row[e][k] \in RowType /\ RowKept(e, k)
  BY <1>1, RowIs
<1>3. row[e][k].status \in {"pending", "failed", "claimed"}
  BY DEF Claim, Claimable
<1>4. Tried(e, k, new)
  BY <1>2, <1>3 DEF Tried, RowType, Statuses, RowKept, IsOwed, Terminal
<1>5. /\ Set(e, k, new) /\ reopens' \in 0..MaxReopens
      /\ UNCHANGED <<target, deploys, running, event, stranded, warned>>
  BY <1>1 DEF Claim, TypeOK
<1> HIDE DEF new
<1> QED
  BY <1>4, <1>5, SetKeeps

LEMMA FailedIs ==
  ASSUME NEW e, NEW k, row[e][k] \in RowType, row[e][k].attempts < MaxAttempts,
         row[e][k].status # "none"
  PROVE  Tried(e, k, Failed(e, k)) /\ Tried(e, k, [Failed(e, k) EXCEPT !.status = "dead"])
<1>1. row[e][k].attempts \in 0..MaxAttempts
  BY DEF RowType
<1>2. row[e][k].attempts + 1 \in 0..MaxAttempts
  BY <1>1, Numbered
<1> DEFINE n == row[e][k].attempts + 1
<1>3. Failed(e, k) = [status |-> IF n >= MaxAttempts THEN "dead" ELSE "failed", attempts |-> n, by |-> Nobody]
  BY DEF Failed
<1> HIDE DEF n
<1>4. n \in 0..MaxAttempts
  BY <1>2 DEF n
<1> QED
  BY <1>3, <1>4, Numbered DEF Tried, RowType, Statuses, Terminal

LEMMA AttemptKeeps ==
  ASSUME IInv, NEW p \in Relays, NEW e \in Ids, NEW k \in Keys, Attempt(p, e, k)
  PROVE  IInv'
<1>1. TypeOK /\ RowsKept
  BY InvariantIs
<1>2. row[e][k] \in RowType /\ RowKept(e, k)
  BY <1>1, RowIs
<1>3. row[e][k].status = "claimed" /\ row[e][k].attempts < MaxAttempts
  BY <1>2 DEF Attempt, RowKept, IsOwed, Terminal
<1> DEFINE Ends(status) == [row[e][k] EXCEPT !.status = status, !.by = Nobody]
<1>4. \E new \in {Ends("orphaned"), Ends("succeeded"), Failed(e, k),
                  [Failed(e, k) EXCEPT !.status = "dead"]} : Set(e, k, new)
  BY DEF Attempt
<1>5. Tried(e, k, Ends("orphaned")) /\ Tried(e, k, Ends("succeeded"))
  BY <1>2, <1>3 DEF Tried, RowType, Statuses, Terminal
<1>6. Tried(e, k, Failed(e, k)) /\ Tried(e, k, [Failed(e, k) EXCEPT !.status = "dead"])
  BY <1>2, <1>3, FailedIs
<1> HIDE DEF Ends
<1>7. PICK new : Set(e, k, new) /\ Tried(e, k, new)
  BY <1>4, <1>5, <1>6
<1>8. reopens' \in 0..MaxReopens /\ UNCHANGED <<target, deploys, running, event, stranded, warned>>
  BY <1>1 DEF Attempt, TypeOK
<1> QED
  BY <1>7, <1>8, SetKeeps

LEMMA RequeueKeeps ==
  ASSUME IInv, NEW e \in Ids, NEW k \in Keys, Requeue(e, k)
  PROVE  IInv'
<1> DEFINE new == [NoRow EXCEPT !.status = "pending"]
<1>1. TypeOK
  BY InvariantIs
<1>2. Tried(e, k, new)
  BY NoRowIs, Numbered DEF Tried, Requeue, NoRow
<1>3. reopens' \in 0..MaxReopens
  <2>1. reopens \in 0..MaxReopens
    BY <1>1 DEF TypeOK
  <2> QED
    BY <2>1, Numbered DEF Requeue
<1>4. Set(e, k, new) /\ UNCHANGED <<target, deploys, running, event, stranded, warned>>
  BY DEF Requeue
<1> HIDE DEF new
<1> QED
  BY <1>2, <1>3, <1>4, SetKeeps

LEMMA CancelKeeps ==
  ASSUME IInv, NEW e \in Ids, NEW k \in Keys, Cancel(e, k)
  PROVE  IInv'
<1> DEFINE new == [row[e][k] EXCEPT !.status = "cancelled"]
<1>1. TypeOK /\ row[e][k] \in RowType /\ RowKept(e, k)
  BY InvariantIs, RowIs DEF RowsKept
<1>2. Tried(e, k, new)
  BY <1>1 DEF Tried, Cancel, RowType, Statuses, Terminal, RowKept
<1>3. Set(e, k, new) /\ UNCHANGED <<target, deploys, running, event, reopens, stranded, warned>>
  BY DEF Cancel
<1>4. reopens' \in 0..MaxReopens
  BY <1>1, <1>3 DEF TypeOK
<1> HIDE DEF new
<1> QED
  BY <1>2, <1>3, <1>4, SetKeeps

LEMMA StartKeeps ==
  ASSUME IInv, NEW p \in Processes, Start(p) PROVE IInv'
<1>1. TypeOK /\ Checked /\ RowsKept /\ AllNamed
  BY InvariantIs
<1>2. UNCHANGED <<target, deploys, event, reopens, stranded, warned>>
  BY DEF Start
<1>3. /\ running' \in [Processes -> Releases \cup {0}]
      /\ \A q \in Processes : running'[q] \in {running[q], target, 0}
  <2>1. running \in [Processes -> Releases \cup {0}] /\ target \in Releases
    BY <1>1 DEF TypeOK
  <2>2. PICK r \in {target, 0} : running' = [running EXCEPT ![p] = r]
    BY DEF Start
  <2> QED
    BY <2>1, <2>2
<1>4. /\ row' \in [Ids -> [Keys -> RowType]]
      /\ \A e \in Ids, k \in Keys : /\ row'[e][k].status = row[e][k].status
                                  /\ row'[e][k].attempts = row[e][k].attempts
  <2>1. \A e \in Ids, k \in Keys :
          /\ row[e][k] \in RowType
          /\ row'[e][k] = IF row[e][k].by = p THEN [row[e][k] EXCEPT !.by = Nobody] ELSE row[e][k]
    BY <1>1, RowIs DEF Start
  <2>2. \A e \in Ids, k \in Keys : row'[e][k] \in RowType
    BY <2>1 DEF RowType
  <2>3. row' = [e \in Ids |-> [k \in Keys |-> row'[e][k]]]
    BY DEF Start
  <2>4. row' \in [Ids -> [Keys -> RowType]]
    BY <2>2, <2>3
  <2>5. \A e \in Ids, k \in Keys : /\ row'[e][k].status = row[e][k].status
                                /\ row'[e][k].attempts = row[e][k].attempts
    BY <2>1 DEF RowType
  <2> QED
    BY <2>4, <2>5
<1>5. TypeOK'
  BY <1>1, <1>2, <1>3, <1>4 DEF TypeOK, RowType
<1>6. Checked'
  BY <1>1, <1>2, <1>3 DEF Checked
<1>7. RowsKept'
  <2> SUFFICES ASSUME NEW i \in Ids, NEW j \in Keys PROVE RowKept(i, j)'
    BY DEF RowsKept, Ids
  <2>1. RowKept(i, j)
    BY <1>1 DEF RowsKept
  <2> QED
    BY <1>2, <1>4, <2>1 DEF RowKept, IsOwed
<1>8. AllNamed'
  BY <1>1, <1>2 DEF AllNamed, Named, Ids
<1>9. EveryDeclarationStands'
  <2>1. ASSUME NEW q \in Processes, running'[q] # 0 PROVE DeclarationsStand(running'[q])
    <3>1. running'[q] \in Releases /\ Deployable(running'[q])
      BY <1>3, <1>6, <2>1 DEF Checked
    <3> QED
      BY <3>1, DeployableStands
  <2> QED
    BY <2>1 DEF EveryDeclarationStands, DeclarationsStand
<1> QED
  BY <1>5, <1>6, <1>7, <1>8, <1>9 DEF IInv, RowsKept, AllNamed

LEMMA DeployKeeps ==
  ASSUME IInv, NEW r \in Releases, Deploy(r) PROVE IInv'
<1>1. TypeOK /\ EveryDeclarationStands /\ Checked /\ RowsKept /\ AllNamed
  BY InvariantIs
<1>2. UNCHANGED <<running, event, row, reopens>> /\ target' = r /\ Deployable(r)
  BY DEF Deploy
<1>3. \A e \in Ids, k \in Keys : IsOwed(e, k) <=> row[e][k].status \in Owed
  <2> SUFFICES ASSUME NEW e \in Ids, NEW k \in Keys PROVE IsOwed(e, k) <=> row[e][k].status \in Owed
    OBVIOUS
  <2>1. row[e][k].status \in Statuses
    BY <1>1, RowIs DEF RowType
  <2> QED
    BY <2>1 DEF IsOwed, Owed, Statuses, Terminal
<1> DEFINE lost == {d \in Ids \X Keys :
                      /\ IsOwed(d[1], d[2])
                      /\ \/ d[2] \notin DOMAIN Registries[r].receivers
                         \/ event[d[1]].name \notin DOMAIN Registries[r].names}
           told == [keys |-> OrphanedDeliveries(Registries[r]), names |-> UndeclaredEvents(Registries[r])]
<1>4. stranded' = [stranded EXCEPT ![r] = lost] /\ warned' = [warned EXCEPT ![r] = told]
  BY DEF Deploy
<1>5. told.keys \in SUBSET Keys /\ told.names \in SUBSET Names
  <2>1. told.keys \in SUBSET Keys
    BY DEF OrphanedDeliveries
  <2>2. ASSUME NEW e \in Ids, NEW k \in Keys, row[e][k].status \in Owed PROVE event[e].name \in Names
    <3>1. event[e].name \in Names \cup {""}
      BY <1>1 DEF TypeOK
    <3>2. event[e].name # ""
      BY <1>1, <2>2, RowIs DEF RowKept, Owed
    <3> QED
      BY <3>1, <3>2
  <2> QED
    BY <2>1, <2>2 DEF UndeclaredEvents
<1>6. ASSUME NEW e \in Ids, NEW k \in Keys, <<e, k>> \in lost
      PROVE  /\ event[e].name # ""
             /\ k \notin DOMAIN Registries[r].receivers => k \in told.keys
             /\ event[e].name \notin DOMAIN Registries[r].names => event[e].name \in told.names
  <2>1. IsOwed(e, k) /\ row[e][k].status \in Owed
    BY <1>3, <1>6
  <2>2. event[e].name # ""
    BY <1>1, <2>1, RowIs DEF RowKept, Owed
  <2> QED
    BY <2>1, <2>2 DEF OrphanedDeliveries, UndeclaredEvents
<1> HIDE DEF told
<1>7. TypeOK'
  <2>1. lost \in SUBSET (Ids \X Keys) /\ told \in [keys: SUBSET Keys, names: SUBSET Names]
    BY <1>5 DEF told
  <2> HIDE DEF lost
  <2>2. deploys' \in 0..MaxDeploys
    <3>1. deploys \in 0..MaxDeploys
      BY <1>1 DEF TypeOK
    <3> QED
      BY <3>1, Numbered DEF Deploy
  <2> QED
    BY <1>1, <1>2, <1>4, <2>1, <2>2 DEF TypeOK
<1> HIDE DEF lost
<1>8. Checked'
  BY <1>1, <1>2 DEF Checked
<1>9. RowsKept'
  BY <1>1, <1>2 DEF RowsKept, RowKept, IsOwed, Ids
<1>10. AllNamed'
  <2> SUFFICES ASSUME NEW e \in Ids, NEW k \in Keys, NEW q \in Releases PROVE Named(q, e, k)'
    BY DEF AllNamed, Ids
  <2>1. stranded' = [stranded EXCEPT ![r] = lost] /\ stranded \in [Releases -> SUBSET (Ids \X Keys)]
    BY <1>1, <1>4 DEF TypeOK
  <2>2. warned' = [warned EXCEPT ![r] = told] /\ warned \in [Releases -> [keys: SUBSET Keys, names: SUBSET Names]]
    BY <1>1, <1>4 DEF TypeOK
  <2>3. CASE q = r
    <3>1. stranded'[q] = lost /\ warned'[q] = told
      BY <2>1, <2>2, <2>3
    <3> QED
      BY <1>2, <1>6, <2>3, <3>1 DEF Named
  <2>4. CASE q # r
    <3>1. stranded'[q] = stranded[q] /\ warned'[q] = warned[q] /\ Named(q, e, k)
      BY <1>1, <2>1, <2>2, <2>4 DEF AllNamed
    <3> QED
      BY <1>2, <3>1 DEF Named
  <2> QED
    BY <2>3, <2>4
<1>11. EveryDeclarationStands'
  BY <1>1, <1>2 DEF EveryDeclarationStands
<1> QED
  BY <1>7, <1>8, <1>9, <1>10, <1>11 DEF IInv, RowsKept, AllNamed

\* What a fire writes down is of the release's declarations.
LEMMA EventIs ==
  ASSUME NEW r \in Releases, Deployable(r), NEW class \in DOMAIN Registries[r].classes
  PROVE  LET d == Registries[r].classes[class]
         IN  /\ d.name \in Names /\ d.name # "" /\ d.version \in Nat /\ d.fields \in SUBSET STRING
<1> DEFINE d == Registries[r].classes[class]
<1>1. Imports[r] \in Seq(Declarations) /\ d \in EventsIn(Imports[r])
  BY RegistryIs DEF Deployable, Whole
<1>2. d.kind = "event" /\ d \in Events(r)
  BY <1>1 DEF EventsIn, Events
<1>3. d \in Declarations
  <2>1. PICK i \in DOMAIN Imports[r] : d = Imports[r][i]
    BY <1>1 DEF EventsIn, Range
  <2> QED
    BY <1>1, <2>1, DeclaredIs
<1>4. d.name \in STRING \ {""} /\ d.version \in Nat /\ d.fields \in SUBSET STRING
  <2> HIDE DEF d
  <2> QED
    BY <1>2, <1>3 DEF Declarations
<1>5. d.name \in Names
  <2> HIDE DEF d
  <2> QED
    BY <1>2 DEF Names
<1> QED
  BY <1>4, <1>5

LEMMA FireKeeps ==
  ASSUME IInv, NEW w \in Webs, NEW class \in Classes, Fire(w, class) PROVE IInv'
<1>1. TypeOK /\ EveryDeclarationStands /\ Checked /\ RowsKept /\ AllNamed
  BY InvariantIs
<1> DEFINE g == Registries[running[w]]
           d == g.classes[class]
           owed == Owes(g, class)
<1>2. running[w] \in Releases /\ Deployable(running[w]) /\ class \in DOMAIN g.classes
  BY <1>1 DEF TypeOK, Checked, Fire, Processes
<1>3. d.name \in Names /\ d.name # "" /\ d.version \in Nat /\ d.fields \in SUBSET STRING
  BY <1>2, EventIs
<1>4. PICK e \in Ids :
        /\ event[e].name = ""
        /\ event' = [event EXCEPT ![e] = [name |-> d.name, version |-> d.version, payload |-> d.fields]]
        /\ row' = [row EXCEPT ![e] = [k \in Keys |->
                     IF k \in owed THEN [NoRow EXCEPT !.status = "pending"] ELSE NoRow]]
  BY DEF Fire
<1>5. UNCHANGED <<target, deploys, running, reopens, stranded, warned>>
  BY DEF Fire
<1> HIDE DEF g, d, owed
<1>6. /\ event' \in [Ids -> EventType] /\ event'[e].name # ""
      /\ \A i \in Ids : i # e => event'[i] = event[i]
  <2>1. event \in [Ids -> EventType]
    BY <1>1 DEF TypeOK, EventType
  <2>2. [name |-> d.name, version |-> d.version, payload |-> d.fields] \in EventType
    BY <1>3 DEF EventType
  <2> QED
    BY <1>3, <1>4, <2>1, <2>2
<1>7. /\ row' \in [Ids -> [Keys -> RowType]]
      /\ \A k \in Keys : row'[e][k] \in {NoRow, [NoRow EXCEPT !.status = "pending"]}
      /\ \A i \in Ids : i # e => row'[i] = row[i]
  <2>1. row \in [Ids -> [Keys -> RowType]]
    BY <1>1 DEF TypeOK, RowType
  <2> DEFINE new == [k \in Keys |-> IF k \in owed THEN [NoRow EXCEPT !.status = "pending"] ELSE NoRow]
  <2>2. new \in [Keys -> RowType]
    BY NoRowIs
  <2>3. \A k \in Keys : new[k] \in {NoRow, [NoRow EXCEPT !.status = "pending"]}
    OBVIOUS
  <2>4. row' = [row EXCEPT ![e] = new]
    BY <1>4
  <2> HIDE DEF new
  <2> QED
    BY <2>1, <2>2, <2>3, <2>4
<1>8. TypeOK'
  BY <1>1, <1>5, <1>6, <1>7 DEF TypeOK, RowType, EventType
<1>9. Checked'
  BY <1>1, <1>5 DEF Checked
<1>10. RowsKept'
  <2> SUFFICES ASSUME NEW i \in Ids, NEW j \in Keys PROVE RowKept(i, j)'
    BY DEF RowsKept, Ids
  <2>1. CASE i = e
    <3>1. row'[e][j].attempts = 0
      BY <1>7 DEF NoRow
    <3>2. event'[i].name # ""
      BY <1>6, <2>1
    <3>3. row'[i][j].attempts = 0
      BY <2>1, <3>1
    <3>4. row'[i][j].attempts < MaxAttempts
      BY <3>3, Numbered
    <3> QED
      BY <3>2, <3>4 DEF RowKept
  <2>2. CASE i # e
    BY <1>1, <1>6, <1>7, <2>2, RowIs DEF RowKept, IsOwed
  <2> QED
    BY <2>1, <2>2
<1>11. AllNamed'
  <2> SUFFICES ASSUME NEW i \in Ids, NEW j \in Keys, NEW r \in Releases PROVE Named(r, i, j)'
    BY DEF AllNamed, Ids
  <2>1. Named(r, i, j)
    BY <1>1 DEF AllNamed
  <2>2. CASE i = e
    BY <1>4, <1>5, <2>1, <2>2 DEF Named
  <2>3. CASE i # e
    BY <1>5, <1>6, <2>1, <2>3 DEF Named
  <2> QED
    BY <2>2, <2>3
<1>12. EveryDeclarationStands'
  BY <1>1, <1>5 DEF EveryDeclarationStands
<1> QED
  BY <1>8, <1>9, <1>10, <1>11, <1>12 DEF IInv, RowsKept, AllNamed

LEMMA StepKeeps == IInv /\ [Next]_vars => IInv'
<1> SUFFICES ASSUME IInv, [Next]_vars PROVE IInv'
  OBVIOUS
<1>1. CASE UNCHANGED vars
  <2>1. TypeOK' /\ EveryDeclarationStands'
    BY <1>1 DEF vars, IInv, TypeOK, EveryDeclarationStands
  <2>2. Checked'
    BY <1>1 DEF vars, IInv, Checked
  <2>3. RowsKept' /\ AllNamed'
    BY <1>1 DEF vars, IInv, RowsKept, AllNamed, RowKept, Named, IsOwed, Ids
  <2> QED
    BY <2>1, <2>2, <2>3 DEF IInv, RowsKept, AllNamed
<1>2. CASE Next
  BY <1>2, DeployKeeps, StartKeeps, FireKeeps, ClaimKeeps, AttemptKeeps, RequeueKeeps, CancelKeeps DEF Next
<1> QED
  BY <1>1, <1>2

\* No declaration is lost to another in any process, whatever releases are
\* deployed and restarted, and every check named what it found.
THEOREM InvariantHolds == Spec => []IInv
BY InitKeeps, StepKeeps, PTL DEF Spec

\* A row that was owed when a release was checked is orphaned by it, or fails for
\* want of its event, only if the check named its receiver or its event.
THEOREM AnnouncedWhenDeployed == Spec => AnnouncedAtDeploy
<1> DEFINE Told(e, k) ==
      LET p == row[e][k].by
          r == running[p]
      IN  p # Nobody /\ row[e][k].status = "claimed" /\ row'[e][k].by = Nobody
          /\ row'[e][k].status # "claimed" /\ <<e, k>> \in stranded[r] =>
            /\ row'[e][k].status = "orphaned" => k \in warned[r].keys
            /\ k \in DOMAIN Registries[r].receivers
               /\ event[e].name \notin DOMAIN Registries[r].names =>
                 event[e].name \in warned[r].names
<1>1. ASSUME IInv, [Next]_vars, NEW e \in Ids, NEW k \in Keys PROVE Told(e, k)
  <2>1. TypeOK /\ RowsKept /\ AllNamed /\ row[e][k] \in RowType /\ row \in [Ids -> [Keys -> RowType]]
    BY <1>1, InvariantIs, RowIs DEF TypeOK, RowType
  <2> SUFFICES ASSUME row[e][k].status = "claimed", row'[e][k].status # "claimed" PROVE Told(e, k)
    OBVIOUS
  <2>2. CASE UNCHANGED vars
    BY <2>2 DEF vars
  <2>3. ASSUME NEW p \in Relays, NEW i \in Ids, NEW j \in Keys, Attempt(p, i, j) PROVE Told(e, k)
    <3>1. i = e /\ j = k
      BY <2>1, <2>3 DEF Attempt, Set
    <3>2. row[e][k].by = p /\ running[p] \in Releases
      BY <2>1, <2>3, <3>1 DEF Attempt, TypeOK, Processes
    <3>3. Named(running[p], e, k)
      BY <2>1, <3>2 DEF AllNamed
    <3>4. row'[e][k].status = "orphaned" => k \notin DOMAIN Registries[running[p]].receivers
      <4> SUFFICES ASSUME k \in DOMAIN Registries[running[p]].receivers
                   PROVE  row'[e][k].status # "orphaned"
        OBVIOUS
      <4> DEFINE succeeded == [row[e][k] EXCEPT !.status = "succeeded", !.by = Nobody]
                 dead == [Failed(e, k) EXCEPT !.status = "dead"]
      <4>1. \E new \in {succeeded, Failed(e, k), dead} : Set(e, k, new)
        BY <2>3, <3>1 DEF Attempt
      <4>2. succeeded.status = "succeeded"
        BY <2>1 DEF RowType
      <4>3. Failed(e, k).status \in {"dead", "failed"} /\ dead.status = "dead"
        BY DEF Failed
      <4> HIDE DEF succeeded, dead
      <4>4. PICK new \in {succeeded, Failed(e, k), dead} : row'[e][k] = new
        BY <2>1, <4>1 DEF Set
      <4> QED
        BY <4>2, <4>3, <4>4
    <3> QED
      BY <3>2, <3>3, <3>4 DEF Named
  <2>4. ASSUME NEW r \in Releases, Deploy(r) PROVE FALSE
    BY <2>4 DEF Deploy
  <2>5. ASSUME NEW p \in Processes, Start(p) PROVE FALSE
    BY <2>1, <2>5 DEF Start, RowType
  <2>6. ASSUME NEW w \in Webs, NEW class \in Classes, Fire(w, class) PROVE FALSE
    <3>1. RowKept(e, k)
      BY <2>1 DEF RowsKept
    <3>2. event[e].name # ""
      BY <3>1 DEF RowKept
    <3>3. row'[e] = row[e]
      BY <2>1, <2>6, <3>2 DEF Fire
    <3> QED
      BY <3>3
  <2>7. ASSUME NEW p \in Relays, NEW i \in Ids, NEW j \in Keys, Claim(p, i, j) PROVE FALSE
    BY <2>1, <2>7 DEF Claim, Set, RowType
  <2>8. ASSUME NEW i \in Ids, NEW j \in Keys, Requeue(i, j) PROVE FALSE
    BY <2>1, <2>8 DEF Requeue, Set
  <2>9. ASSUME NEW i \in Ids, NEW j \in Keys, Cancel(i, j) PROVE FALSE
    BY <2>1, <2>9 DEF Cancel, Set
  <2> HIDE DEF Told
  <2> QED
    BY <1>1, <2>2, <2>3, <2>4, <2>5, <2>6, <2>7, <2>8, <2>9 DEF Next
<1>2. ASSUME IInv, [Next]_vars PROVE [\A e \in Ids, k \in Keys : Told(e, k)]_vars
  BY <1>1, <1>2
<1> QED
  BY <1>2, InvariantHolds, PTL DEF Spec, AnnouncedAtDeploy
=============================================================================
