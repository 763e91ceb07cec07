------------------------------ MODULE Extremes -------------------------------
(***************************************************************************)
(* What the proofs need of finite sets of numbers: that they have a        *)
(* greatest and a least member, as Max and Min choose them, and how        *)
(* SumFunctionOnSet adds up.  There is no induction here.  What fails      *)
(* somewhere fails somewhere least, because the order of the subsets of a  *)
(* finite set is well founded; and there nothing less can be to blame.     *)
(***************************************************************************)
EXTENDS Naturals, FiniteSetsExt, Functions, FiniteSetTheorems, WellFoundedInduction, TLAPS

\* Of the sets a function gives the members of a finite set, one has no smaller.
LEMMA SmallestImage ==
  ASSUME NEW S, IsFiniteSet(S), S # {}, NEW f \in [S -> SUBSET S]
  PROVE  \E x \in S : \A y \in S : f[y] \subseteq f[x] => f[y] = f[x]
<1> DEFINE U == {f[x] : x \in S}
<1>1. U \subseteq FiniteSubsetsOf(S) /\ U # {}
  BY FS_FiniteSubsetsOfFinite
<1>2. IsWellFoundedOn(StrictSubsetOrdering(S), FiniteSubsetsOf(S))
  BY FS_StrictSubsetOrderingWellFounded
<1>3. PICK A \in U : \A B \in U : <<B, A>> \notin StrictSubsetOrdering(S)
  <2> HIDE DEF U
  <2> QED
    BY <1>1, <1>2, WFMin
<1>4. PICK x \in S : A = f[x]
  OBVIOUS
<1>5. ASSUME NEW y \in S, f[y] \subseteq f[x], f[y] # f[x] PROVE FALSE
  <2>1. f[y] \in U /\ <<f[y], f[x]>> \in (SUBSET S) \X (SUBSET S)
    OBVIOUS
  <2>2. <<f[y], f[x]>> \in StrictSubsetOrdering(S)
    BY <1>5, <2>1 DEF StrictSubsetOrdering
  <2> QED
    BY <1>3, <1>4, <2>1, <2>2
<1> QED
  BY <1>5

\* Left folded where the reasoning is not about order.
Numbers(S) == S \subseteq Nat

\* A finite set of numbers that is not empty has a greatest member: the one
\* with the fewest above it.
LEMMA MaxIsGreatest ==
  ASSUME NEW S, Numbers(S), IsFiniteSet(S), S # {}
  PROVE  Max(S) \in S /\ \A y \in S : Max(S) >= y
<1> DEFINE Above == [x \in S |-> {y \in S : y > x}]
<1>1. PICK x \in S : \A y \in S : Above[y] \subseteq Above[x] => Above[y] = Above[x]
  <2>1. Above \in [S -> SUBSET S]
    OBVIOUS
  <2> HIDE DEF Above
  <2> QED
    BY <2>1, SmallestImage
<1>2. ASSUME NEW y \in S, y > x PROVE FALSE
  <2>1. Above[y] \subseteq Above[x]
    <3> SUFFICES ASSUME NEW z \in S, z > y PROVE z > x
      OBVIOUS
    <3> QED
      BY <1>2, z \in Nat, y \in Nat, x \in Nat DEF Numbers
  <2>2. y \in Above[x] /\ y \notin Above[y]
    BY <1>2, y \in Nat DEF Numbers
  <2> QED
    BY <1>1, <2>1, <2>2
<1>3. \A y \in S : x >= y
  BY <1>2 DEF Numbers
<1> QED
  BY <1>3 DEF Max

LEMMA MinIsLeast ==
  ASSUME NEW S, Numbers(S), IsFiniteSet(S), S # {}
  PROVE  Min(S) \in S /\ \A y \in S : Min(S) <= y
<1> DEFINE Below == [x \in S |-> {y \in S : y < x}]
<1>1. PICK x \in S : \A y \in S : Below[y] \subseteq Below[x] => Below[y] = Below[x]
  <2>1. Below \in [S -> SUBSET S]
    OBVIOUS
  <2> HIDE DEF Below
  <2> QED
    BY <2>1, SmallestImage
<1>2. ASSUME NEW y \in S, y < x PROVE FALSE
  <2>1. Below[y] \subseteq Below[x]
    <3> SUFFICES ASSUME NEW z \in S, z < y PROVE z < x
      OBVIOUS
    <3> QED
      BY <1>2, z \in Nat, y \in Nat, x \in Nat DEF Numbers
  <2>2. y \in Below[x] /\ y \notin Below[y]
    BY <1>2, y \in Nat DEF Numbers
  <2> QED
    BY <1>1, <2>1, <2>2
<1>3. \A y \in S : x <= y
  BY <1>2 DEF Numbers
<1> QED
  BY <1>3 DEF Min

\* Any set of numbers that is not empty has a least member, finite or not.
LEMMA LeastOfNumbers ==
  ASSUME NEW S, Numbers(S), S # {}
  PROVE  Min(S) \in S /\ \A y \in S : Min(S) <= y
<1>1. PICK n \in S : n \in Nat
  BY DEF Numbers
<1> DEFINE T == S \cap 0..n
<1>2. Numbers(T) /\ IsFiniteSet(T) /\ n \in T
  <2>1. IsFiniteSet(0..n)
    BY <1>1, FS_Interval
  <2>2. IsFiniteSet(T)
    BY <2>1, FS_Subset
  <2> QED
    BY <1>1, <2>2 DEF Numbers
<1> HIDE DEF T
<1>3. Min(T) \in T /\ \A y \in T : Min(T) <= y
  BY <1>2, MinIsLeast
<1>4. Min(T) \in S /\ \A y \in S : Min(T) <= y
  <2> SUFFICES ASSUME NEW y \in S PROVE Min(T) \in S /\ Min(T) <= y
    BY <1>3 DEF T
  <2>1. Min(T) \in S /\ Min(T) \in Nat /\ y \in Nat
    BY <1>3 DEF T, Numbers
  <2>2. CASE y <= n
    BY <1>1, <1>3, <2>1, <2>2 DEF T
  <2>3. CASE y > n
    <3>1. Min(T) <= n
      BY <1>2, <1>3
    <3> QED
      BY <1>1, <2>1, <2>3, <3>1
  <2> QED
    BY <1>1, <2>1, <2>2, <2>3
<1> HIDE DEF T
<1> QED
  BY <1>4 DEF Min

LEMMA MaxOfTwo ==
  ASSUME NEW a \in Nat, NEW b \in Nat
  PROVE  Max({a, b}) = IF a >= b THEN a ELSE b
<1>1. Numbers({a, b}) /\ IsFiniteSet({a, b}) /\ {a, b} # {}
  <2>1. IsFiniteSet({a} \cup {b})
    BY FS_Singleton, FS_AddElement
  <2>2. {a} \cup {b} = {a, b}
    OBVIOUS
  <2> QED
    BY <2>1, <2>2 DEF Numbers
<1>2. Max({a, b}) \in {a, b} /\ \A y \in {a, b} : Max({a, b}) >= y
  BY <1>1, MaxIsGreatest
<1> QED
  BY <1>2

LEMMA MinOfTwo ==
  ASSUME NEW a \in Nat, NEW b \in Nat
  PROVE  Min({a, b}) = IF a <= b THEN a ELSE b
<1>1. Numbers({a, b}) /\ IsFiniteSet({a, b}) /\ {a, b} # {}
  <2>1. IsFiniteSet({a} \cup {b})
    BY FS_Singleton, FS_AddElement
  <2>2. {a} \cup {b} = {a, b}
    OBVIOUS
  <2> QED
    BY <2>1, <2>2 DEF Numbers
<1>2. Min({a, b}) \in {a, b} /\ \A y \in {a, b} : Min({a, b}) <= y
  BY <1>1, MinIsLeast
<1> QED
  BY <1>2

\* There is no climbing for ever in a finite set.
LEMMA NoClimbing ==
  ASSUME NEW U, Numbers(U), IsFiniteSet(U), \A k \in U : \E l \in U : k < l
  PROVE  U = {}
<1> SUFFICES ASSUME U # {} PROVE FALSE
  OBVIOUS
<1>1. PICK m \in U : \A l \in U : m >= l
  BY MaxIsGreatest
<1>2. PICK l \in U : m < l
  BY <1>1
<1> QED
  BY <1>1, <1>2, m \in Nat, l \in Nat DEF Numbers

\* What \div gives.
LEMMA Divides ==
  ASSUME NEW a \in Nat, NEW n \in Nat \ {0}
  PROVE  a \div n \in Nat /\ n * (a \div n) <= a /\ a < n * (a \div n) + n
OBVIOUS

LEMMA NoLess ==
  ASSUME NEW a \in Nat, NEW b \in Nat, NEW n \in Nat, a <= b PROVE n * a <= n * b
OBVIOUS

-----------------------------------------------------------------------------
(* What SumFunctionOnSet adds up, whichever member it takes first.         *)

\* Of the subsets of a finite set that are not as claimed, one has none below it.
LEMMA SmallestSubset ==
  ASSUME NEW S, IsFiniteSet(S), NEW U \in SUBSET (SUBSET S), U # {}
  PROVE  \E A \in U : \A B \in U : B \subseteq A => B = A
<1>1. U \subseteq FiniteSubsetsOf(S)
  BY FS_FiniteSubsetsOfFinite
<1>2. IsWellFoundedOn(StrictSubsetOrdering(S), FiniteSubsetsOf(S))
  BY FS_StrictSubsetOrderingWellFounded
<1>3. PICK A \in U : \A B \in U : <<B, A>> \notin StrictSubsetOrdering(S)
  BY <1>1, <1>2, WFMin
<1>4. ASSUME NEW B \in U, B \subseteq A, B # A PROVE FALSE
  <2>1. <<B, A>> \in StrictSubsetOrdering(S)
    BY <1>4 DEF StrictSubsetOrdering
  <2> QED
    BY <1>3, <2>1
<1> QED
  BY <1>4

\* How SumFunctionOnSet adds up: the functions it may choose of.
Some(s) == CHOOSE x \in s : TRUE
Adds(f, g, T) ==
  g = [s \in SUBSET T |-> IF s = {} THEN 0 ELSE LET x == Some(s) IN f[x] + g[s \ {x}]]
Added(f, T) == CHOOSE g : Adds(f, g, T)

LEMMA SumIsAdded == ASSUME NEW f, NEW S PROVE SumFunctionOnSet(f, S) = Added(f, S)[S]
BY DEF SumFunctionOnSet, FoldFunctionOnSet, MapThenFoldSet, Added, Adds, Some

LEMMA SomeIsIn == ASSUME NEW s, s # {} PROVE Some(s) \in s
BY DEF Some

LEMMA AddsIs ==
  ASSUME NEW f, NEW g, NEW T, Adds(f, g, T), NEW s \in SUBSET T
  PROVE  g[s] = IF s = {} THEN 0 ELSE f[Some(s)] + g[s \ {Some(s)}]
<1>1. g[s] = [r \in SUBSET T |-> IF r = {} THEN 0 ELSE LET x == Some(r) IN f[x] + g[r \ {x}]][s]
  BY DEF Adds
<1> QED
  BY <1>1

\* Two of them agree.
LEMMA AddsAgree ==
  ASSUME NEW f, NEW S, IsFiniteSet(S), NEW A \in SUBSET S, NEW B \in SUBSET S,
         NEW g, NEW h, Adds(f, g, A), Adds(f, h, B), NEW s \in SUBSET A, s \in SUBSET B
  PROVE  g[s] = h[s]
<1> DEFINE U == {t \in SUBSET S : t \subseteq A /\ t \subseteq B /\ g[t] # h[t]}
<1> SUFFICES ASSUME U # {} PROVE FALSE
  OBVIOUS
<1>1. PICK t \in U : \A r \in U : r \subseteq t => r = t
  <2> HIDE DEF U
  <2>1. U \in SUBSET (SUBSET S)
    BY DEF U
  <2> QED
    BY <2>1, SmallestSubset
<1>0. t \in SUBSET A /\ t \in SUBSET B /\ t \in SUBSET S /\ g[t] # h[t]
  BY <1>1
<1>1a. \A r \in SUBSET S : r \subseteq A /\ r \subseteq B /\ r \subseteq t /\ r # t => g[r] = h[r]
  BY <1>1
<1> HIDE DEF U
<1>2. g[t] = IF t = {} THEN 0 ELSE f[Some(t)] + g[t \ {Some(t)}]
  BY <1>0, AddsIs
<1>3. h[t] = IF t = {} THEN 0 ELSE f[Some(t)] + h[t \ {Some(t)}]
  BY <1>0, AddsIs
<1>4. t # {}
  BY <1>0, <1>2, <1>3
<1>5. Some(t) \in t
  BY <1>4, SomeIsIn
<1>6. g[t \ {Some(t)}] = h[t \ {Some(t)}]
  BY <1>0, <1>1a, <1>5
<1> QED
  BY <1>0, <1>2, <1>3, <1>4, <1>6

LEMMA AddsExists ==
  ASSUME NEW f, NEW S, IsFiniteSet(S), NEW T \in SUBSET S
  PROVE  Adds(f, Added(f, T), T)
<1> DEFINE U == {t \in SUBSET S : ~Adds(f, Added(f, t), t)}
<1> SUFFICES ASSUME U # {} PROVE FALSE
  OBVIOUS
<1>1. PICK t \in U : \A r \in U : r \subseteq t => r = t
  <2> HIDE DEF U
  <2>1. U \in SUBSET (SUBSET S)
    BY DEF U
  <2> QED
    BY <2>1, SmallestSubset
<1>2. t \in SUBSET S /\ ~Adds(f, Added(f, t), t)
  BY <1>1
<1>3. \A r \in SUBSET S : r \subseteq t /\ r # t => Adds(f, Added(f, r), r)
  BY <1>1
<1> HIDE DEF U
<1> DEFINE g == [s \in SUBSET t |-> IF s = {} THEN 0
                   ELSE f[Some(s)] + Added(f, s \ {Some(s)})[s \ {Some(s)}]]
<1>4. ASSUME NEW s \in SUBSET t, s # {} PROVE g[s \ {Some(s)}] = Added(f, s \ {Some(s)})[s \ {Some(s)}]
  <2> DEFINE r == s \ {Some(s)}
  <2>1. r \in SUBSET S /\ r \subseteq t /\ r # t
    BY <1>2, <1>4, SomeIsIn
  <2>2. Adds(f, Added(f, r), r)
    BY <1>3, <2>1
  <2>3. Added(f, r)[r] = IF r = {} THEN 0 ELSE f[Some(r)] + Added(f, r)[r \ {Some(r)}]
    <3> HIDE DEF r
    <3>1. r \in SUBSET r
      OBVIOUS
    <3> QED
      BY <2>2, <3>1, AddsIs
  <2>4. g[r] = IF r = {} THEN 0 ELSE f[Some(r)] + Added(f, r \ {Some(r)})[r \ {Some(r)}]
    BY <2>1
  <2>5. CASE r = {}
    BY <2>3, <2>4, <2>5
  <2>6. CASE r # {}
    <3> DEFINE q == r \ {Some(r)}
    <3>1. q \in SUBSET S /\ q \subseteq t /\ q # t /\ q \in SUBSET r /\ q \in SUBSET q
      BY <2>1, <2>6, SomeIsIn
    <3>2. Adds(f, Added(f, q), q)
      BY <1>3, <3>1
    <3>3. Added(f, r)[q] = Added(f, q)[q]
      <4> HIDE DEF q, r
      <4> QED
        BY <2>1, <2>2, <3>1, <3>2, AddsAgree
    <3> QED
      BY <2>3, <2>4, <2>6, <3>3
  <2> QED
    BY <2>5, <2>6
<1>5. Adds(f, g, t)
  <2> DEFINE h == [s \in SUBSET t |-> IF s = {} THEN 0 ELSE LET x == Some(s) IN f[x] + g[s \ {x}]]
  <2>1. \A s \in SUBSET t : g[s] = h[s]
    <3> SUFFICES ASSUME NEW s \in SUBSET t PROVE g[s] = h[s]
      OBVIOUS
    <3>1. CASE s = {}
      BY <3>1
    <3>2. CASE s # {}
      BY <1>4, <3>2
    <3> QED
      BY <3>1, <3>2
  <2>2. g = h
    BY <2>1
  <2> QED
    BY <2>2 DEF Adds
<1>6. Adds(f, Added(f, t), t)
  <2> HIDE DEF g
  <2> QED
    BY <1>5 DEF Added
<1> QED
  BY <1>2, <1>6

\* The sum over no members, and over one member more.
LEMMA SumOfNone == ASSUME NEW f PROVE SumFunctionOnSet(f, {}) = 0
<1>1. Adds(f, Added(f, {}), {})
  BY AddsExists, FS_EmptySet
<1> QED
  BY <1>1, AddsIs, SumIsAdded

LEMMA SumOfSome ==
  ASSUME NEW f, NEW S, IsFiniteSet(S), S # {}
  PROVE  SumFunctionOnSet(f, S) = f[Some(S)] + SumFunctionOnSet(f, S \ {Some(S)})
<1> DEFINE T == S \ {Some(S)}
<1>1. Adds(f, Added(f, S), S) /\ Adds(f, Added(f, T), T)
  BY AddsExists
<1>2. Added(f, S)[S] = f[Some(S)] + Added(f, S)[T]
  BY <1>1, AddsIs
<1>3. Added(f, S)[T] = Added(f, T)[T]
  <2>1. T \in SUBSET S /\ S \in SUBSET S /\ T \in SUBSET T
    OBVIOUS
  <2> HIDE DEF T
  <2> QED
    BY <1>1, <2>1, AddsAgree
<1> QED
  BY <1>2, <1>3, SumIsAdded

\* What is added up are numbers.
Counts(f, S) == \A x \in S : f[x] \in Nat

LEMMA SumIsNumber ==
  ASSUME NEW f, NEW S, IsFiniteSet(S), Counts(f, S)
  PROVE  SumFunctionOnSet(f, S) \in Nat
<1> DEFINE U == {T \in SUBSET S : SumFunctionOnSet(f, T) \notin Nat}
<1> SUFFICES ASSUME U # {} PROVE FALSE
  OBVIOUS
<1>1. PICK T \in U : \A R \in U : R \subseteq T => R = T
  <2> HIDE DEF U
  <2>1. U \in SUBSET (SUBSET S)
    BY DEF U
  <2> QED
    BY <2>1, SmallestSubset
<1>2. T \in SUBSET S /\ SumFunctionOnSet(f, T) \notin Nat /\ IsFiniteSet(T)
  BY <1>1, FS_Subset
<1>3. T # {}
  BY <1>2, SumOfNone
<1>4. Some(T) \in T
  BY <1>3, SomeIsIn
<1>5. SumFunctionOnSet(f, T \ {Some(T)}) \in Nat
  BY <1>1, <1>2, <1>4
<1>6. SumFunctionOnSet(f, T) = f[Some(T)] + SumFunctionOnSet(f, T \ {Some(T)})
  BY <1>2, <1>3, SumOfSome
<1> QED
  BY <1>2, <1>4, <1>5, <1>6 DEF Counts

\* It does not matter which member is taken out.
LEMMA SumWith ==
  ASSUME NEW f, NEW S, IsFiniteSet(S), Counts(f, S), NEW x \in S
  PROVE  SumFunctionOnSet(f, S) = f[x] + SumFunctionOnSet(f, S \ {x})
<1> DEFINE Fails(T, y) == SumFunctionOnSet(f, T) # f[y] + SumFunctionOnSet(f, T \ {y})
           U == {T \in SUBSET S : \E y \in T : Fails(T, y)}
<1> SUFFICES ASSUME U # {} PROVE FALSE
  OBVIOUS
<1>1. PICK T \in U : \A R \in U : R \subseteq T => R = T
  <2> HIDE DEF U
  <2>1. U \in SUBSET (SUBSET S)
    BY DEF U
  <2> QED
    BY <2>1, SmallestSubset
<1>2. T \in SUBSET S /\ IsFiniteSet(T)
  BY <1>1, FS_Subset
<1>3. PICK y \in T : Fails(T, y)
  BY <1>1
<1>4. \A R \in SUBSET S : R \subseteq T /\ R # T => \A z \in R : ~Fails(R, z)
  BY <1>1
<1> HIDE DEF U
<1> DEFINE p == Some(T)
<1>5. p \in T /\ SumFunctionOnSet(f, T) = f[p] + SumFunctionOnSet(f, T \ {p})
  BY <1>2, <1>3, SomeIsIn, SumOfSome
<1> HIDE DEF p
<1>6. p # y
  BY <1>3, <1>5
<1>7. SumFunctionOnSet(f, T \ {p}) = f[y] + SumFunctionOnSet(f, (T \ {p}) \ {y})
  BY <1>2, <1>3, <1>4, <1>5, <1>6
<1>8. SumFunctionOnSet(f, T \ {y}) = f[p] + SumFunctionOnSet(f, (T \ {y}) \ {p})
  BY <1>2, <1>3, <1>4, <1>5, <1>6
<1>9. (T \ {y}) \ {p} = (T \ {p}) \ {y}
  OBVIOUS
<1>10. SumFunctionOnSet(f, (T \ {p}) \ {y}) \in Nat /\ f[p] \in Nat /\ f[y] \in Nat
  <2>1. IsFiniteSet((T \ {p}) \ {y}) /\ Counts(f, (T \ {p}) \ {y})
    BY <1>2, FS_Subset DEF Counts
  <2> QED
    BY <1>2, <1>3, <1>5, <2>1, SumIsNumber DEF Counts
<1> QED
  <2> DEFINE rest == SumFunctionOnSet(f, (T \ {p}) \ {y})
  <2>1. SumFunctionOnSet(f, T) = f[p] + (f[y] + rest) /\ SumFunctionOnSet(f, T \ {y}) = f[p] + rest
    BY <1>5, <1>7, <1>8, <1>9
  <2> HIDE DEF rest
  <2>2. rest \in Nat
    BY <1>10 DEF rest
  <2> QED
    BY <1>3, <1>10, <2>1, <2>2

\* The sum looks at nothing but what it adds.
LEMMA SumAgrees ==
  ASSUME NEW f, NEW g, NEW S, IsFiniteSet(S), \A x \in S : f[x] = g[x]
  PROVE  SumFunctionOnSet(f, S) = SumFunctionOnSet(g, S)
<1> DEFINE U == {T \in SUBSET S : SumFunctionOnSet(f, T) # SumFunctionOnSet(g, T)}
<1> SUFFICES ASSUME U # {} PROVE FALSE
  OBVIOUS
<1>1. PICK T \in U : \A R \in U : R \subseteq T => R = T
  <2> HIDE DEF U
  <2>1. U \in SUBSET (SUBSET S)
    BY DEF U
  <2> QED
    BY <2>1, SmallestSubset
<1>2. T \in SUBSET S /\ SumFunctionOnSet(f, T) # SumFunctionOnSet(g, T) /\ IsFiniteSet(T)
  BY <1>1, FS_Subset
<1>3. T # {}
  BY <1>2, SumOfNone
<1>4. Some(T) \in T
  BY <1>3, SomeIsIn
<1>5. SumFunctionOnSet(f, T \ {Some(T)}) = SumFunctionOnSet(g, T \ {Some(T)})
  BY <1>1, <1>2, <1>4
<1>6. /\ SumFunctionOnSet(f, T) = f[Some(T)] + SumFunctionOnSet(f, T \ {Some(T)})
      /\ SumFunctionOnSet(g, T) = g[Some(T)] + SumFunctionOnSet(g, T \ {Some(T)})
  BY <1>2, <1>3, SumOfSome
<1> QED
  BY <1>2, <1>4, <1>5, <1>6

\* One more for each.
LEMMA SumOfOneMore ==
  ASSUME NEW f, NEW g, NEW S, IsFiniteSet(S), Counts(f, S), Counts(g, S), \A x \in S : g[x] = 1 + f[x]
  PROVE  SumFunctionOnSet(g, S) = Cardinality(S) + SumFunctionOnSet(f, S)
<1> DEFINE U == {T \in SUBSET S : SumFunctionOnSet(g, T) # Cardinality(T) + SumFunctionOnSet(f, T)}
<1> SUFFICES ASSUME U # {} PROVE FALSE
  OBVIOUS
<1>1. PICK T \in U : \A R \in U : R \subseteq T => R = T
  <2> HIDE DEF U
  <2>1. U \in SUBSET (SUBSET S)
    BY DEF U
  <2> QED
    BY <2>1, SmallestSubset
<1>2. T \in SUBSET S /\ IsFiniteSet(T) /\ Counts(f, T) /\ Counts(g, T)
  BY <1>1, FS_Subset DEF Counts
<1>3. T # {}
  <2> SUFFICES ASSUME T = {} PROVE FALSE
    OBVIOUS
  <2>1. SumFunctionOnSet(g, {}) = 0 /\ SumFunctionOnSet(f, {}) = 0 /\ Cardinality({}) = 0
    BY SumOfNone, FS_EmptySet
  <2>2. SumFunctionOnSet(g, {}) # Cardinality({}) + SumFunctionOnSet(f, {})
    BY <1>1
  <2> QED
    BY <2>1, <2>2
<1>4. PICK x \in T : TRUE
  BY <1>3
<1> DEFINE R == T \ {x}
<1>5. SumFunctionOnSet(g, R) = Cardinality(R) + SumFunctionOnSet(f, R)
  BY <1>1, <1>2
<1>6. /\ SumFunctionOnSet(f, T) = f[x] + SumFunctionOnSet(f, R)
      /\ SumFunctionOnSet(g, T) = g[x] + SumFunctionOnSet(g, R)
  BY <1>2, SumWith
<1>7. Cardinality(R) = Cardinality(T) - 1 /\ Cardinality(T) \in Nat
  BY <1>2, FS_RemoveElement, FS_CardinalityType
<1>8. SumFunctionOnSet(f, R) \in Nat /\ f[x] \in Nat /\ g[x] = 1 + f[x]
  <2>1. IsFiniteSet(R) /\ Counts(f, R)
    BY <1>2, FS_Subset DEF Counts
  <2> QED
    BY <1>2, <2>1, SumIsNumber DEF Counts
<1>9. SumFunctionOnSet(g, T) # Cardinality(T) + SumFunctionOnSet(f, T)
  BY <1>1
<1> HIDE DEF R
<1> QED
  BY <1>5, <1>6, <1>7, <1>8, <1>9

\* Nothing is added.
LEMMA SumOfNothing ==
  ASSUME NEW f, NEW S, IsFiniteSet(S), \A x \in S : f[x] = 0
  PROVE  SumFunctionOnSet(f, S) = 0
<1> DEFINE U == {T \in SUBSET S : SumFunctionOnSet(f, T) # 0}
<1> SUFFICES ASSUME U # {} PROVE FALSE
  OBVIOUS
<1>1. PICK T \in U : \A R \in U : R \subseteq T => R = T
  <2> HIDE DEF U
  <2>1. U \in SUBSET (SUBSET S)
    BY DEF U
  <2> QED
    BY <2>1, SmallestSubset
<1>2. T \in SUBSET S /\ SumFunctionOnSet(f, T) # 0 /\ IsFiniteSet(T)
  BY <1>1, FS_Subset
<1>3. T # {}
  BY <1>2, SumOfNone
<1>4. Some(T) \in T
  BY <1>3, SomeIsIn
<1>5. SumFunctionOnSet(f, T \ {Some(T)}) = 0
  BY <1>1, <1>2, <1>4
<1>6. SumFunctionOnSet(f, T) = f[Some(T)] + SumFunctionOnSet(f, T \ {Some(T)})
  BY <1>2, <1>3, SumOfSome
<1> QED
  BY <1>2, <1>4, <1>5, <1>6

\* One number is another.
LEMMA SumChanged ==
  ASSUME NEW D, NEW f \in [D -> Nat], NEW g \in [D -> Nat], NEW S \in SUBSET D, IsFiniteSet(S),
         NEW x \in D, \A y \in D \ {x} : g[y] = f[y]
  PROVE  /\ x \notin S => SumFunctionOnSet(g, S) = SumFunctionOnSet(f, S)
         /\ x \in S => SumFunctionOnSet(g, S) + f[x] = SumFunctionOnSet(f, S) + g[x]
<1>1. CASE x \notin S
  BY <1>1, SumAgrees
<1>2. CASE x \in S
  <2>1. IsFiniteSet(S \ {x}) /\ Counts(f, S \ {x}) /\ Counts(f, S) /\ Counts(g, S)
    BY FS_Subset DEF Counts
  <2>2. SumFunctionOnSet(g, S \ {x}) = SumFunctionOnSet(f, S \ {x})
    BY <2>1, SumAgrees
  <2>3. SumFunctionOnSet(g, S) = g[x] + SumFunctionOnSet(g, S \ {x})
    BY <1>2, <2>1, SumWith
  <2>4. SumFunctionOnSet(f, S) = f[x] + SumFunctionOnSet(f, S \ {x})
    BY <1>2, <2>1, SumWith
  <2>5. SumFunctionOnSet(f, S \ {x}) \in Nat /\ f[x] \in Nat /\ g[x] \in Nat
    BY <2>1, SumIsNumber
  <2> QED
    BY <1>2, <2>2, <2>3, <2>4, <2>5
<1> QED
  BY <1>1, <1>2

\* Fewer add up to no more.
LEMMA SumOfFewer ==
  ASSUME NEW f, NEW S, IsFiniteSet(S), Counts(f, S), NEW T \in SUBSET S
  PROVE  SumFunctionOnSet(f, T) <= SumFunctionOnSet(f, S)
<1> DEFINE U == {R \in SUBSET S : T \subseteq R /\ ~(SumFunctionOnSet(f, T) <= SumFunctionOnSet(f, R))}
<1> SUFFICES ASSUME U # {} PROVE FALSE
  OBVIOUS
<1>1. PICK R \in U : \A Q \in U : Q \subseteq R => Q = R
  <2> HIDE DEF U
  <2>1. U \in SUBSET (SUBSET S)
    BY DEF U
  <2> QED
    BY <2>1, SmallestSubset
<1>2. /\ R \in SUBSET S /\ T \subseteq R /\ ~(SumFunctionOnSet(f, T) <= SumFunctionOnSet(f, R))
      /\ IsFiniteSet(R) /\ IsFiniteSet(T) /\ Counts(f, R) /\ Counts(f, T)
  BY <1>1, FS_Subset DEF Counts
<1>3. SumFunctionOnSet(f, T) \in Nat
  BY <1>2, SumIsNumber
<1>4. PICK x \in R : x \notin T
  BY <1>2, <1>3
<1>5. SumFunctionOnSet(f, T) <= SumFunctionOnSet(f, R \ {x})
  BY <1>1, <1>2, <1>4
<1>6. SumFunctionOnSet(f, R) = f[x] + SumFunctionOnSet(f, R \ {x})
  BY <1>2, SumWith
<1>7. SumFunctionOnSet(f, R \ {x}) \in Nat /\ f[x] \in Nat
  <2>1. IsFiniteSet(R \ {x}) /\ Counts(f, R \ {x})
    BY <1>2, FS_Subset DEF Counts
  <2> QED
    BY <1>2, <2>1, SumIsNumber DEF Counts
<1> QED
  BY <1>2, <1>3, <1>5, <1>6, <1>7

\* One number goes up by one.
LEMMA SumRaised ==
  ASSUME NEW D, NEW f \in [D -> Nat], NEW g \in [D -> Nat], NEW S \in SUBSET D, IsFiniteSet(S),
         NEW x \in D, g[x] = f[x] + 1, \A y \in D \ {x} : g[y] = f[y]
  PROVE  SumFunctionOnSet(g, S) = SumFunctionOnSet(f, S) + (IF x \in S THEN 1 ELSE 0)
<1>1. /\ x \notin S => SumFunctionOnSet(g, S) = SumFunctionOnSet(f, S)
      /\ x \in S => SumFunctionOnSet(g, S) + f[x] = SumFunctionOnSet(f, S) + g[x]
  BY SumChanged
<1>2. SumFunctionOnSet(f, S) \in Nat /\ SumFunctionOnSet(g, S) \in Nat /\ f[x] \in Nat
  <2>1. Counts(f, S) /\ Counts(g, S)
    BY DEF Counts
  <2> QED
    BY <2>1, SumIsNumber
<1> QED
  BY <1>1, <1>2
=============================================================================
