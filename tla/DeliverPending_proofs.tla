------------------------ MODULE DeliverPending_proofs ------------------------
(* The theorems about DeliverPending.                                      *)
EXTENDS DeliverPending, Extremes

LEMMA Bounds ==
  /\ MaxAttempts \in Nat \ {0} /\ Lanes \subseteq Nat /\ IsFiniteSet(Lanes) /\ Lanes # {}
  /\ IsFiniteSet(Rows) /\ LaneOf \in [Rows -> Lanes] /\ TaskRows \subseteq Rows
  /\ SizeOf \in [Lanes -> Nat \ {0}] /\ NoLimit \notin Nat
  /\ \A c \in Calls : c.limit \in Nat \cup {NoLimit} /\ c.told \in BOOLEAN
BY ConstantsAssumption

-----------------------------------------------------------------------------
(* Counting rows and lanes.                                                *)

LEMMA FiniteRows ==
  ASSUME NEW S \in SUBSET Rows
  PROVE  IsFiniteSet(S) /\ Cardinality(S) \in Nat /\ (Cardinality(S) = 0 <=> S = {})
<1>1. IsFiniteSet(S)
  BY Bounds, FS_Subset
<1> QED
  BY <1>1, FS_CardinalityType, FS_EmptySet

LEMMA FiniteLanes ==
  ASSUME NEW S \in SUBSET Lanes
  PROVE  IsFiniteSet(S) /\ Cardinality(S) \in Nat /\ (Cardinality(S) = 0 <=> S = {})
<1>1. IsFiniteSet(S)
  BY Bounds, FS_Subset
<1> QED
  BY <1>1, FS_CardinalityType, FS_EmptySet

LEMMA NextLane ==
  ASSUME NEW S \in SUBSET Lanes, S # {}
  PROVE  /\ Min(S) \in S
         /\ Cardinality(S) \in Nat \ {0} /\ Cardinality(S \ {Min(S)}) = Cardinality(S) - 1
<1>1. IsFiniteSet(S) /\ Numbers(S) /\ Cardinality(S) \in Nat \ {0}
  BY Bounds, FiniteLanes DEF Numbers
<1>2. Min(S) \in S
  BY <1>1, MinIsLeast
<1>3. Cardinality(S \ {Min(S)}) = Cardinality(S) - 1
  BY <1>1, <1>2, FS_RemoveElement
<1> QED
  BY <1>1, <1>2, <1>3

LEMMA OneRowLess ==
  ASSUME NEW S \in SUBSET Rows, NEW r \in S
  PROVE  Cardinality(S) \in Nat \ {0} /\ Cardinality(S \ {r}) = Cardinality(S) - 1
<1>1. IsFiniteSet(S) /\ Cardinality(S) \in Nat \ {0}
  BY FiniteRows
<1> QED
  BY <1>1, FS_RemoveElement

-----------------------------------------------------------------------------
(* The share of a lane.                                                    *)

LEMMA ShareIs ==
  ASSUME NEW n \in Nat, NEW m \in Nat \ {0}
  PROVE  /\ Share(n, m) \in Nat /\ Share(n, m) <= n
         /\ n > 0 => Share(n, m) > 0
         /\ m * Share(n, m) >= n /\ n > m * Share(n, m) - m
<1> DEFINE c == Share(n, m)
<1>1. c \in Nat /\ m * c <= n + m - 1 /\ n + m - 1 < m * c + m
  <2>1. n + m - 1 \in Nat
    OBVIOUS
  <2> QED
    BY <2>1, Divides DEF Share
<1> HIDE DEF c
<1>2. ASSUME c > n PROVE FALSE
  <2>1. m * (n + 1) <= m * c
    BY <1>1, <1>2
  <2>2. m * (n + 1) = m * n + m /\ m * n \in Nat /\ m * n >= n
    OBVIOUS
  <2> QED
    BY <1>1, <2>1, <2>2
<1>3. ASSUME n > 0, c = 0 PROVE FALSE
  BY <1>1, <1>3
<1> QED
  BY <1>1, <1>2, <1>3 DEF c

\* A share is the least that a lane may have, and leaves as much to each other.
LEMMA ShareLeaves ==
  ASSUME NEW n \in Nat, NEW m \in Nat \ {0}, NEW q \in Nat, n >= m * q
  PROVE  Share(n, m) >= q /\ n >= Share(n, m) + (m - 1) * q
<1> DEFINE c == Share(n, m)
<1>1. c \in Nat /\ m * c >= n /\ n > m * c - m /\ c <= n
  BY ShareIs
<1> HIDE DEF c
<1>2. (m - 1) * q = m * q - q /\ m * q \in Nat
  OBVIOUS
<1>3. CASE c < q
  <2>1. m * (c + 1) <= m * q /\ m * (c + 1) = m * c + m /\ m * c \in Nat
    BY <1>1, <1>3
  <2> QED
    BY <1>1, <2>1
<1>4. CASE c = q
  BY <1>1, <1>2, <1>4 DEF c
<1>5. CASE c > q
  <2>1. /\ (m - 1) * q <= (m - 1) * (c - 1)
        /\ (m - 1) * (c - 1) = m * c - m - c + 1 /\ m * c \in Nat
    <3>1. q <= c - 1 /\ m - 1 \in Nat /\ c - 1 \in Nat
      BY <1>1, <1>5
    <3> QED
      BY <3>1, <1>1
  <2> QED
    BY <1>1, <1>5, <2>1 DEF c
<1> QED
  BY <1>1, <1>3, <1>4, <1>5

-----------------------------------------------------------------------------
(* The steps.                                                              *)

\* Row r of the batch is run, and the batch goes on.
RunsOne(r) ==
  /\ at = "starting" /\ r \in batch
  /\ \E new \in Row :
       /\ row' = [row EXCEPT ![r] = new] /\ new.status # "absent"
       /\ new.status # "settled" => new.attempts < MaxAttempts
  /\ started' = [started EXCEPT ![r] = @ + 1]
  /\ put_off' \in {put_off, [put_off EXCEPT ![r] = @ + 1]}
  /\ set_aside' \in {set_aside, set_aside \cup {r}}
  /\ batch' = batch \ {r}
  /\ UNCHANGED <<at, call, lane, todo, claimed, size, took, remaining, closed, fired>>

\* What is not put off is not kept from the claims that follow, but what is, is.
RunsAside(r) ==
  put_off' # put_off => r \in Deferring \cap TaskRows \/ ~Open(r)'

\* A row of a batch has attempts left.
Has(r) == row[r] \in Row /\ row[r].status = "claimed" /\ row[r].attempts < MaxAttempts

\* What the outcomes make of the record.
LEMMA JudgedIs ==
  ASSUME NEW r \in Rows, Has(r), NEW new \in Judged(r)
  PROVE  /\ new \in Row /\ new.status \in {"settled", "failed"}
         /\ new.status # "settled" => new.attempts < MaxAttempts
         /\ new.attempts # row[r].attempts
<1>1. /\ row[r] \in Row /\ row[r].attempts \in Nat
      /\ row[r].attempts + 1 \in 0..MaxAttempts
  BY Bounds DEF Has, Row
<1>2. PICK counted \in Row : 
        counted = [row[r] EXCEPT !.attempts = @ + 1] /\ counted.attempts = row[r].attempts + 1
  <2>1. PICK x \in Row : x = row[r]
    BY <1>1
  <2>2. [x EXCEPT !.attempts = x.attempts + 1] \in Row
    BY <1>1, <2>1 DEF Row
  <2>3. [x EXCEPT !.attempts = x.attempts + 1].attempts = x.attempts + 1
    BY <2>1 DEF Row
  <2> QED
    BY <2>1, <2>2, <2>3
<1>3. \/ new = [counted EXCEPT !.status = "settled"]
      \/ counted.attempts # MaxAttempts
         /\ \E t \in {1, 2} : new = [counted EXCEPT !.status = "failed", !.available = t]
  BY <1>2 DEF Judged
<1>4. CASE new = [counted EXCEPT !.status = "settled"]
  <2>1. new \in Row /\ new.attempts = counted.attempts /\ new.status = "settled"
    BY <1>4 DEF Row
  <2> QED
    BY <1>1, <1>2, <2>1
<1>5. ASSUME counted.attempts # MaxAttempts, NEW t \in {1, 2},
             new = [counted EXCEPT !.status = "failed", !.available = t]
      PROVE  /\ new \in Row /\ new.status \in {"settled", "failed"}
             /\ new.status # "settled" => new.attempts < MaxAttempts
             /\ new.attempts # row[r].attempts
  <2>1. new \in Row /\ new.attempts = counted.attempts /\ new.status = "failed"
    BY <1>5, t \in 0..2 DEF Row
  <2> QED
    BY <1>1, <1>2, <1>5, <2>1, Bounds
<1> QED
  BY <1>3, <1>4, <1>5

LEMMA RescheduledIs ==
  ASSUME NEW r \in Rows, Has(r), NEW new \in Rescheduled(r)
  PROVE  /\ new \in Row /\ new.status = "pending" /\ new.attempts < MaxAttempts
         /\ new.due \in {1, 2} /\ new.available \in {1, 2}
<1>1. PICK t \in {1, 2} :
        new = [row[r] EXCEPT !.status = "pending", !.available = t, !.due = t]
  BY DEF Rescheduled
<1>2. row[r] \in Row /\ row[r].attempts < MaxAttempts /\ row[r].attempts \in 0..MaxAttempts
  BY DEF Has, Row
<1>3. PICK x \in Row : x = row[r]
  BY <1>2
<1>4. new = [x EXCEPT !.status = "pending", !.available = t, !.due = t]
  BY <1>1, <1>3
<1>5. /\ new \in Row /\ new.attempts = x.attempts /\ new.status = "pending"
      /\ new.due = t /\ new.available = t
  BY <1>3, <1>4, t \in 0..2 DEF Row
<1> QED
  BY <1>2, <1>3, <1>5

LEMMA DeferredIs ==
  ASSUME NEW r \in Rows, Has(r), NEW new \in Deferred(r)
  PROVE  new \in Row /\ new.status = "failed" /\ new.attempts < MaxAttempts
<1>1. PICK t \in {1, 2} : new = [row[r] EXCEPT !.status = "failed", !.available = t]
  BY DEF Deferred
<1>2. row[r] \in Row /\ row[r].attempts < MaxAttempts /\ row[r].attempts \in 0..MaxAttempts
  BY DEF Has, Row
<1>3. PICK x \in Row : x = row[r]
  BY <1>2
<1>4. new = [x EXCEPT !.status = "failed", !.available = t]
  BY <1>1, <1>3
<1>5. new \in Row /\ new.attempts = x.attempts /\ new.status = "failed"
  BY <1>3, <1>4, t \in 0..2 DEF Row
<1> QED
  BY <1>2, <1>3, <1>5

LEMMA QueuedIs ==
  ASSUME NEW r \in Rows, Has(r), NEW t \in {1, 2}, NEW new, new = [row[r] EXCEPT !.lease = t]
  PROVE  /\ new \in Row /\ new.status = "claimed" /\ new.attempts < MaxAttempts
         /\ new.lease = t
<1>1. /\ row[r] \in Row /\ row[r].status = "claimed" /\ row[r].attempts < MaxAttempts
      /\ row[r].attempts \in 0..MaxAttempts
  BY DEF Has, Row
<1>2. PICK x \in Row : x = row[r]
  BY <1>1
<1>3. new = [x EXCEPT !.lease = t]
  BY <1>2
<1>4. /\ new \in Row /\ new.attempts = x.attempts /\ new.status = x.status
      /\ new.lease = t
  BY <1>2, <1>3, t \in 0..2 DEF Row
<1> QED
  BY <1>1, <1>2, <1>4

LEMMA JudgeRuns ==
  ASSUME TypeOK, NEW r \in Rows, Has(r), Judge(r)
  PROVE  RunsOne(r) /\ RunsAside(r)
<1>1. PICK new \in Judged(r) : Starts(r, new)
  BY DEF Judge
<1>2. new \in Row /\ new.status # "absent" /\ (new.status # "settled" => new.attempts < MaxAttempts)
  BY JudgedIs
<1>3. put_off' = put_off /\ set_aside' = set_aside /\ GoesOn(r)
  BY DEF Judge
<1> QED
  BY <1>1, <1>2, <1>3 DEF RunsOne, RunsAside, Starts, GoesOn

LEMMA NotYetRuns ==
  ASSUME TypeOK, NEW r \in Rows, Has(r), NotYet(r)
  PROVE  RunsOne(r) /\ RunsAside(r)
<1>1. PICK new \in Rescheduled(r) : Starts(r, new)
  BY DEF NotYet
<1>2. /\ new \in Row /\ new.status = "pending" /\ new.attempts < MaxAttempts
      /\ new.due \in {1, 2} /\ new.available \in {1, 2}
  BY RescheduledIs
<1>3. /\ put_off' = [put_off EXCEPT ![r] = @ + 1] /\ set_aside' = Aside(r) /\ GoesOn(r)
  BY DEF NotYet
<1>4. RunsOne(r)
  BY <1>1, <1>2, <1>3 DEF RunsOne, Starts, GoesOn, Aside
<1>5. row'[r] = new /\ call' = call
  BY <1>1 DEF Starts, TypeOK
<1>6. ~Open(r)'
  BY <1>2, <1>3, <1>5 DEF Open, Due, Moment, Aside
<1> QED
  BY <1>4, <1>6 DEF RunsAside

LEMMA HandOffRuns ==
  ASSUME TypeOK, NEW r \in Rows, Has(r), HandOff(r)
  PROVE  RunsOne(r) /\ RunsAside(r)
<1>1. PICK new : 
        /\ \/ \E t \in {1, 2} : new = [row[r] EXCEPT !.lease = t]
           \/ new \in Judged(r) \/ new \in Rescheduled(r)
           \/ r \in Deferring /\ new \in Deferred(r)
        /\ Starts(r, new)
        /\ set_aside' = IF LeftUnfinished(new) THEN Aside(r) ELSE set_aside
        /\ put_off' = [put_off EXCEPT
             ![r] = IF new.status # "settled" /\ new.attempts = row[r].attempts THEN @ + 1 ELSE @]
  BY DEF HandOff
<1>2. GoesOn(r) /\ r \in TaskRows /\ put_off \in [Rows -> Nat]
  BY DEF HandOff, TypeOK
<1>3. put_off' \in {put_off, [put_off EXCEPT ![r] = @ + 1]}
  BY <1>1, <1>2
<1>4. new \in Row /\ new.status # "absent" /\ (new.status # "settled" => new.attempts < MaxAttempts)
  BY <1>1, QueuedIs, JudgedIs, RescheduledIs, DeferredIs
<1>5. RunsOne(r)
  BY <1>1, <1>2, <1>3, <1>4 DEF RunsOne, Starts, GoesOn, Aside
<1>6. row'[r] = new /\ call' = call
  BY <1>1 DEF Starts, TypeOK
<1>7. CASE \E t \in {1, 2} : new = [row[r] EXCEPT !.lease = t]
  <2>1. PICK t \in {1, 2} : new = [row[r] EXCEPT !.lease = t]
    BY <1>7
  <2>2. new.status = "claimed" /\ new.lease = t
    BY <2>1, QueuedIs
  <2>3. set_aside' = Aside(r)
    BY <1>1, <2>2 DEF LeftUnfinished
  <2>4. ~Open(r)'
    BY <1>6, <2>1, <2>2, <2>3 DEF Open, Moment, Aside
  <2> QED
    BY <1>5, <2>4 DEF RunsAside
<1>8. CASE new \in Judged(r)
  <2>1. new.attempts # row[r].attempts
    BY <1>8, JudgedIs
  <2>2. put_off' = put_off
    BY <1>1, <1>2, <2>1
  <2> QED
    BY <1>5, <2>2 DEF RunsAside
<1>9. CASE new \in Rescheduled(r)
  <2>1. new.status = "pending" /\ new.due \in {1, 2} /\ new.available \in {1, 2}
    BY <1>9, RescheduledIs
  <2>2. set_aside' = Aside(r)
    BY <1>1, <2>1 DEF LeftUnfinished
  <2>3. ~Open(r)'
    BY <1>6, <2>1, <2>2 DEF Open, Due, Moment, Aside
  <2> QED
    BY <1>5, <2>3 DEF RunsAside
<1>10. CASE r \in Deferring /\ new \in Deferred(r)
  BY <1>2, <1>5, <1>10 DEF RunsAside
<1> QED
  BY <1>1, <1>7, <1>8, <1>9, <1>10

\* Row r defers, its lane is closed and the rest of the batch given back.
LEMMA DeferEnds ==
  ASSUME TypeOK, NEW r \in Rows, Has(r), Defer(r)
  PROVE  /\ at = "starting" /\ r \in batch
         /\ \E new \in Row :
              /\ new.status = "failed" /\ new.attempts < MaxAttempts
              /\ row' = [q \in Rows |-> IF q = r THEN new
                                         ELSE IF q \in batch THEN [row[q] EXCEPT !.lease = 0]
                                         ELSE row[q]]
         /\ started' = [started EXCEPT ![r] = @ + 1]
         /\ put_off' = [put_off EXCEPT ![r] = @ + 1]
         /\ EndBatch(batch \ {r}, closed \cup {lane})
         /\ UNCHANGED <<call, lane, todo, claimed, set_aside, fired>>
<1>1. PICK new \in Deferred(r) :
        /\ at = "starting" /\ r \in batch
        /\ row' = [q \in Rows |-> IF q = r THEN new
                                   ELSE IF q \in batch THEN [row[q] EXCEPT !.lease = 0]
                                   ELSE row[q]]
  BY DEF Defer
<1>2. new \in Row /\ new.status = "failed" /\ new.attempts < MaxAttempts
  BY DeferredIs
<1>3. LaneOf[r] = lane
  BY <1>1 DEF TypeOK
<1> QED
  BY <1>1, <1>2, <1>3 DEF Defer

\* A claim of lane l takes S: at most what it asked for, and nothing only where
\* there is nothing.
ClaimsOf(l, S) ==
  /\ at = "turn" /\ todo # {} /\ l \in todo /\ l = Min(todo) /\ S \subseteq Claimable(l)
  /\ Cardinality(S) <= Asked(l) /\ (S = {} => Claimable(l) = {})
  /\ Asked(l) \in Nat /\ Asked(l) > 0
  /\ Limited => Asked(l) = Share(remaining, Cardinality(todo)) /\ Asked(l) <= remaining
  /\ row' = [r \in Rows |-> IF r \in S THEN Held(r) ELSE row[r]]
  /\ batch' = S /\ took' = Cardinality(S) /\ claimed' = (claimed \/ S # {})
  /\ size' = Asked(l) /\ lane' = l /\ todo' = todo \ {l} /\ at' = "starting"
  /\ UNCHANGED <<call, remaining, closed, set_aside, started, put_off, fired>>

LEMMA ClaimTakes ==
  ASSUME IInv, Claim
  PROVE  \E l \in Lanes : \E S \in SUBSET Rows : ClaimsOf(l, S)
<1> DEFINE l == Min(todo)
<1>1. TypeOK /\ LimitKept /\ todo \in SUBSET Lanes /\ todo # {} /\ at = "turn" /\ remaining # 0
  BY DEF IInv, TypeOK, Claim
<1>2. l \in todo /\ l \in Lanes /\ Cardinality(todo) \in Nat \ {0}
  BY <1>1, NextLane
<1>3. PICK S \in SUBSET Claimable(l) :
        /\ Cardinality(S) = Min({Asked(l), Cardinality(Claimable(l))})
        /\ row' = [r \in Rows |-> IF r \in S THEN Held(r) ELSE row[r]]
        /\ batch' = S /\ took' = Cardinality(S) /\ claimed' = AnyClaimed(S)
  BY DEF Claim
<1>4. S \in SUBSET Rows /\ Claimable(l) \in SUBSET Rows
  BY DEF Claimable
<1>5. Asked(l) \in Nat /\ Asked(l) > 0
      /\ (Limited => Asked(l) = Share(remaining, Cardinality(todo)) /\ Asked(l) <= remaining)
  <2>1. CASE remaining = NoLimit
    <3>1. ~Limited
      BY <1>1, <2>1, Bounds DEF LimitKept
    <3>2. Asked(l) = SizeOf[l]
      BY <2>1 DEF Asked
    <3>3. SizeOf[l] \in Nat \ {0}
      BY <1>2, Bounds
    <3> QED
      BY <3>1, <3>2, <3>3
  <2>2. CASE remaining # NoLimit
    <3>1. remaining \in Nat /\ Asked(l) = Share(remaining, Cardinality(todo))
      BY <1>1, <2>2 DEF Asked, TypeOK
    <3>2. Share(remaining, Cardinality(todo)) \in Nat /\ Share(remaining, Cardinality(todo)) > 0
          /\ Share(remaining, Cardinality(todo)) <= remaining
      BY <1>1, <1>2, <3>1, ShareIs
    <3> QED
      BY <3>1, <3>2
  <2> QED
    BY <2>1, <2>2
<1>6. Cardinality(S) \in Nat /\ Cardinality(Claimable(l)) \in Nat
      /\ (Cardinality(S) = 0 <=> S = {}) /\ (Cardinality(Claimable(l)) = 0 <=> Claimable(l) = {})
  BY <1>4, FiniteRows
<1>7. Cardinality(S) <= Asked(l) /\ (S = {} => Claimable(l) = {})
  <2>1. Cardinality(S) = IF Asked(l) <= Cardinality(Claimable(l)) THEN Asked(l)
                         ELSE Cardinality(Claimable(l))
    <3> HIDE DEF l
    <3> QED
      BY <1>3, <1>5, <1>6, MinOfTwo
  <2> HIDE DEF l
  <2> QED
    BY <1>5, <1>6, <2>1
<1>8. /\ size' = Asked(l) /\ lane' = l /\ todo' = todo \ {l} /\ at' = "starting"
      /\ UNCHANGED <<call, remaining, closed, set_aside, started, put_off, fired>>
  BY DEF Claim
<1>9. claimed' = (claimed \/ S # {})
  BY <1>3 DEF AnyClaimed
<1>10. l = Min(todo)
  OBVIOUS
<1> HIDE DEF l
<1>11. ClaimsOf(l, S)
  BY <1>1, <1>2, <1>3, <1>5, <1>7, <1>8, <1>9, <1>10 DEF ClaimsOf
<1> QED
  BY <1>2, <1>4, <1>11

\* Row r defers: its lane is closed, and the rest of the batch given back.
Defers(r) ==
  /\ at = "starting" /\ r \in batch
  /\ \E new \in Row :
       /\ new.status = "failed" /\ new.attempts < MaxAttempts
       /\ row' = [q \in Rows |-> IF q = r THEN new
                                  ELSE IF q \in batch THEN [row[q] EXCEPT !.lease = 0]
                                  ELSE row[q]]
  /\ started' = [started EXCEPT ![r] = @ + 1]
  /\ put_off' = [put_off EXCEPT ![r] = @ + 1]
  /\ EndBatch(batch \ {r}, closed \cup {lane})
  /\ UNCHANGED <<call, lane, todo, claimed, set_aside, fired>>

Steps(r) == (RunsOne(r) /\ RunsAside(r)) \/ Defers(r) \/ Fire(r)

LEMMA StepIs ==
  ASSUME IInv, Next
  PROVE  Spent \/ Claim \/ Rotate \/ BatchRun \/ \E r \in Rows : Steps(r)
<1>1. ASSUME NEW r \in Rows, Judge(r) \/ NotYet(r) \/ Defer(r) \/ HandOff(r) PROVE Steps(r)
  <2>1. TypeOK /\ RowKept(r)
    BY DEF IInv
  <2>2. r \in batch
    BY <1>1 DEF Judge, NotYet, Defer, HandOff, Starts
  <2>3. Has(r)
    BY <2>1, <2>2 DEF TypeOK, RowKept, Has
  <2> QED
    BY <1>1, <2>1, <2>3, JudgeRuns, NotYetRuns, HandOffRuns, DeferEnds DEF Steps, Defers
<1> QED
  BY <1>1 DEF Next, Step, Steps

-----------------------------------------------------------------------------
(* The counts.                                                             *)

\* The state as the lemmas about counts need it.
Counted ==
  /\ started \in [Rows -> Nat] /\ batch \in SUBSET Rows
  /\ remaining \in Nat \cup {NoLimit} /\ call \in Calls
  /\ size \in Nat /\ took \in Nat

LEMMA StartsIsNumber ==
  ASSUME started \in [Rows -> Nat], NEW S \in SUBSET Rows
  PROVE  StartsOf(S) \in Nat
<1>1. IsFiniteSet(S) /\ Counts(started, S)
  BY FiniteRows DEF Counts
<1> QED
  BY <1>1, SumIsNumber DEF StartsOf

Starting(r) == started' = [started EXCEPT ![r] = @ + 1]

LEMMA StartsRise ==
  ASSUME started \in [Rows -> Nat], NEW S \in SUBSET Rows, NEW r \in Rows, Starting(r)
  PROVE  StartsOf(S)' = StartsOf(S) + (IF r \in S THEN 1 ELSE 0)
<1>1. IsFiniteSet(S)
  BY FiniteRows
<1>2. /\ started' \in [Rows -> Nat] /\ started'[r] = started[r] + 1
      /\ \A q \in Rows \ {r} : started'[q] = started[q]
  BY DEF Starting
<1>3. SumFunctionOnSet(started', S) = SumFunctionOnSet(started, S) + (IF r \in S THEN 1 ELSE 0)
  BY <1>1, <1>2, SumRaised
<1> QED
  BY <1>3 DEF StartsOf

\* A batch that ends with `left` unstarted: what it attempted was there to spend.
LEMMA BatchEnds ==
  ASSUME Counted, LimitKept, Limited,
         NEW left \in SUBSET batch, NEW shut, EndBatch(left, shut)
  PROVE  /\ took - Cardinality(left) \in Int /\ remaining' = remaining - (took - Cardinality(left))
         /\ closed' = IF took < size THEN shut \cup {lane} ELSE shut
<1>1. remaining # NoLimit /\ Cardinality(left) \in Nat
  BY FiniteRows, Bounds DEF LimitKept, Counted
<1> QED
  BY <1>1 DEF EndBatch, Attempted, Counted

-----------------------------------------------------------------------------
(* The invariant.                                                          *)

LEMMA RecordsAre ==
  /\ Absent \in Row
  /\ \A x \in Row : [x EXCEPT !.status = "claimed", !.lease = 2] \in Row /\ [x EXCEPT !.lease = 0] \in Row
<1>1. 2 \in 0..2 /\ 0 \in 0..2 /\ 0 \in 0..MaxAttempts
  BY Bounds
<1> QED
  BY <1>1 DEF Row, Absent

LEMMA OwedIs ==
  ASSUME NEW s \in {"pending", "claimed"}, NEW t \in 0..2
  PROVE  /\ Owed(s, t, t) \in Row /\ Owed(s, t, t).status = s /\ Owed(s, t, t).attempts = 0
         /\ 0 < MaxAttempts
<1>1. Absent.attempts = 0
  BY DEF Absent
<1>2. 0 \in 0..MaxAttempts /\ 0 < MaxAttempts
  BY Bounds
<1>3. PICK x \in Row : x = Absent
  BY RecordsAre
<1>4. /\ [x EXCEPT !.status = s, !.due = t, !.available = t] \in Row
      /\ [x EXCEPT !.status = s, !.due = t, !.available = t].status = s
      /\ [x EXCEPT !.status = s, !.due = t, !.available = t].attempts = x.attempts
  BY DEF Row
<1> QED
  BY <1>1, <1>2, <1>3, <1>4 DEF Owed

LEMMA HeldIs ==
  ASSUME NEW r \in Rows, row[r] \in Row
  PROVE  /\ Held(r) \in Row /\ Held(r).status = "claimed" /\ Held(r).attempts = row[r].attempts
         /\ Held(r).lease = 2
<1>1. PICK x \in Row : x = row[r]
  OBVIOUS
<1>2. /\ [x EXCEPT !.status = "claimed", !.lease = 2] \in Row
      /\ [x EXCEPT !.status = "claimed", !.lease = 2].status = "claimed"
      /\ [x EXCEPT !.status = "claimed", !.lease = 2].attempts = x.attempts
      /\ [x EXCEPT !.status = "claimed", !.lease = 2].lease = 2
  <2>1. 2 \in 0..2
    OBVIOUS
  <2> QED
    BY <2>1 DEF Row
<1> QED
  BY <1>1, <1>2 DEF Held

LEMMA GivenBackIs ==
  ASSUME NEW q \in Rows, row[q] \in Row
  PROVE  /\ [row[q] EXCEPT !.lease = 0] \in Row
         /\ [row[q] EXCEPT !.lease = 0].status = row[q].status
         /\ [row[q] EXCEPT !.lease = 0].attempts = row[q].attempts
<1>1. PICK x \in Row : x = row[q]
  OBVIOUS
<1>2. /\ [x EXCEPT !.lease = 0] \in Row /\ [x EXCEPT !.lease = 0].status = x.status
      /\ [x EXCEPT !.lease = 0].attempts = x.attempts
  <2>1. 0 \in 0..2
    OBVIOUS
  <2> QED
    BY <2>1 DEF Row
<1> QED
  BY <1>1, <1>2

\* The parts of the state that are not rows.
Typed ==
  /\ call \in Calls /\ at \in {"turn", "starting", "done"}
  /\ lane \in Lanes /\ todo \subseteq Lanes /\ claimed \in BOOLEAN
  /\ size \in Nat /\ took \in Nat
  /\ remaining \in Nat \cup {NoLimit}
  /\ closed \subseteq Lanes /\ set_aside \subseteq Rows
  /\ started \in [Rows -> Nat] /\ put_off \in [Rows -> Nat] /\ fired \subseteq Rows

\* A batch is of the rows claimed in its lane.
Batched ==
  /\ batch \subseteq Rows
  /\ \A r \in batch : LaneOf[r] = lane /\ row[r].status = "claimed"

LEMMA TypeIs == TypeOK <=> row \in [Rows -> Row] /\ Typed /\ Batched
BY DEF TypeOK, Typed, Batched

LEMMA RemainingIs ==
  ASSUME Counted, LimitKept, NEW left \in SUBSET batch, NEW shut, EndBatch(left, shut)
  PROVE  remaining' \in Nat \cup {NoLimit}
<1>1. CASE Limited
  <2>1. remaining' = remaining - (took - Cardinality(left))
    BY <1>1, BatchEnds
  <2>2. Cardinality(left) \in Nat /\ remaining \in Nat /\ took \in Nat /\ size \in Nat
    BY <1>1, FiniteRows DEF LimitKept, Counted
  <2>3. took <= size /\ size <= remaining
    BY <1>1 DEF LimitKept
  <2> QED
    BY <2>1, <2>2, <2>3
<1>2. CASE ~Limited
  <2>1. remaining = NoLimit
    BY <1>2 DEF LimitKept
  <2> QED
    BY <2>1 DEF EndBatch
<1> QED
  BY <1>1, <1>2

LEMMA TypedInductive ==
  ASSUME IInv, Next PROVE Typed'
<1>1. TypeOK /\ Typed /\ LimitKept /\ batch \in SUBSET Rows
  BY TypeIs DEF IInv, Batched
<1>2. Counted
  BY <1>1 DEF Counted, Typed
<1>3. CASE Spent
  BY <1>1, <1>3 DEF Spent, Typed
<1>4. CASE Claim
  <2>1. PICK l \in Lanes : \E S \in SUBSET Rows : ClaimsOf(l, S)
    BY <1>4, ClaimTakes
  <2>2. PICK S \in SUBSET Rows : ClaimsOf(l, S)
    BY <2>1
  <2>3. Cardinality(S) \in Nat
    BY FiniteRows
  <2> QED
    BY <1>1, <2>2, <2>3 DEF ClaimsOf, Typed
<1>5. CASE Rotate
  BY <1>1, <1>5 DEF Rotate, Typed
<1>6. CASE BatchRun
  <2>1. EndBatch({}, closed) /\ {} \in SUBSET batch
    BY <1>6 DEF BatchRun
  <2>2. remaining' \in Nat \cup {NoLimit}
    BY <1>1, <1>2, <2>1, RemainingIs
  <2>3. closed' \subseteq Lanes
    BY <1>1, <2>1 DEF EndBatch, Typed
  <2> QED
    BY <1>1, <1>6, <2>2, <2>3 DEF BatchRun, EndBatch, Typed
<1>7. ASSUME NEW r \in Rows, RunsOne(r) PROVE Typed'
  BY <1>1, <1>7 DEF RunsOne, Typed
<1>8. ASSUME NEW r \in Rows, Defers(r) PROVE Typed'
  <2>1. EndBatch(batch \ {r}, closed \cup {lane}) /\ batch \ {r} \in SUBSET batch
    BY <1>8 DEF Defers
  <2>2. remaining' \in Nat \cup {NoLimit}
    BY <1>1, <1>2, <2>1, RemainingIs
  <2>3. closed' \subseteq Lanes
    BY <1>1, <2>1 DEF EndBatch, Typed
  <2>4. started' \in [Rows -> Nat] /\ put_off' \in [Rows -> Nat]
    BY <1>1, <1>8 DEF Defers, Typed
  <2> QED
    BY <1>1, <1>8, <2>2, <2>3, <2>4 DEF Defers, EndBatch, Typed
<1>9. ASSUME NEW r \in Rows, Fire(r) PROVE Typed'
  BY <1>1, <1>9 DEF Fire, Typed
<1> QED
  BY <1>3, <1>4, <1>5, <1>6, <1>7, <1>8, <1>9, StepIs DEF Steps

\* The rows a step leaves alone.
LEMMA RowsUntouched ==
  ASSUME row \in [Rows -> Row], \A q \in Rows : RowKept(q),
         row' = row, started' = started, put_off' = put_off
  PROVE  row' \in [Rows -> Row] /\ \A q \in Rows : RowKept(q)'
BY DEF RowKept

LEMMA RowsInductive ==
  ASSUME IInv, Next PROVE row' \in [Rows -> Row] /\ \A q \in Rows : RowKept(q)'
<1> DEFINE Goal == row' \in [Rows -> Row] /\ \A q \in Rows : RowKept(q)'
<1>1. /\ row \in [Rows -> Row] /\ Typed /\ Batched /\ \A q \in Rows : RowKept(q)
      /\ started \in [Rows -> Nat] /\ put_off \in [Rows -> Nat]
  BY TypeIs DEF IInv, Typed
<1>2. CASE Spent
  BY <1>1, <1>2, RowsUntouched DEF Spent
<1>3. CASE Claim
  <2>1. PICK l \in Lanes, S \in SUBSET Rows : ClaimsOf(l, S)
    BY <1>3, ClaimTakes
  <2>2. /\ row' = [r \in Rows |-> IF r \in S THEN Held(r) ELSE row[r]]
        /\ started' = started /\ put_off' = put_off /\ S \subseteq Claimable(l)
    BY <2>1 DEF ClaimsOf
  <2>3. \A q \in Rows : row[q] \in Row /\ Held(q) \in Row
    BY <1>1, HeldIs
  <2>4. row' \in [Rows -> Row]
    BY <2>2, <2>3
  <2>5. ASSUME NEW q \in Rows PROVE RowKept(q)'
    <3>1. CASE q \in S
      <4>1. row'[q] = Held(q) /\ row[q].status \in {"pending", "failed", "claimed"}
        BY <2>2, <3>1 DEF Claimable, Open
      <4>2. row'[q].status = "claimed" /\ row'[q].attempts = row[q].attempts
        BY <1>1, <4>1, HeldIs
      <4> QED
        BY <1>1, <4>1, <4>2 DEF RowKept
    <3>2. CASE q \notin S
      <4>1. row'[q] = row[q]
        BY <2>2, <3>2
      <4> QED
        BY <1>1, <2>2, <4>1 DEF RowKept
    <3> QED
      BY <3>1, <3>2
  <2> QED
    BY <2>4, <2>5
<1>4. CASE Rotate
  BY <1>1, <1>4, RowsUntouched DEF Rotate
<1>5. CASE BatchRun
  BY <1>1, <1>5, RowsUntouched DEF BatchRun
<1>6. ASSUME NEW r \in Rows, RunsOne(r) PROVE Goal
  <2>1. PICK new \in Row :
          /\ row' = [row EXCEPT ![r] = new] /\ new.status # "absent"
          /\ new.status # "settled" => new.attempts < MaxAttempts
    BY <1>6 DEF RunsOne
  <2>2. /\ started' = [started EXCEPT ![r] = @ + 1]
        /\ put_off' \in {put_off, [put_off EXCEPT ![r] = @ + 1]}
    BY <1>6 DEF RunsOne
  <2>3. \A q \in Rows : q # r =>
          row'[q] = row[q] /\ started'[q] = started[q] /\ put_off'[q] = put_off[q]
    BY <1>1, <2>1, <2>2
  <2> QED
    BY <1>1, <2>1, <2>3 DEF RowKept
<1>7. ASSUME NEW r \in Rows, Defers(r) PROVE Goal
  <2>1. PICK new \in Row :
          /\ new.status = "failed" /\ new.attempts < MaxAttempts
          /\ row' = [q \in Rows |-> IF q = r THEN new
                                     ELSE IF q \in batch THEN [row[q] EXCEPT !.lease = 0]
                                     ELSE row[q]]
    BY <1>7 DEF Defers
  <2>2. /\ started' = [started EXCEPT ![r] = @ + 1]
        /\ put_off' = [put_off EXCEPT ![r] = @ + 1]
    BY <1>7 DEF Defers
  <2>3. ASSUME NEW q \in Rows
        PROVE  /\ row'[q] \in Row
               /\ q # r => /\ row'[q].status = row[q].status /\ row'[q].attempts = row[q].attempts
                           /\ started'[q] = started[q] /\ put_off'[q] = put_off[q]
    <3>1. CASE q \in batch /\ q # r
      <4>1. row'[q] = [row[q] EXCEPT !.lease = 0]
        BY <2>1, <3>1
      <4> QED
        BY <1>1, <2>2, <3>1, <4>1, GivenBackIs
    <3>2. CASE q \notin batch \/ q = r
      BY <1>1, <2>1, <2>2, <3>2
    <3> QED
      BY <3>1, <3>2
  <2>4. row' \in [Rows -> Row]
    BY <2>1, <2>3
  <2>5. row'[r] = new
    BY <2>1
  <2> QED
    BY <1>1, <2>1, <2>3, <2>4, <2>5 DEF RowKept
<1>8. ASSUME NEW r \in Rows, Fire(r) PROVE Goal
  <2>1. PICK t \in 0..2 : row' = [row EXCEPT ![r] = Owed("pending", t, t)]
    BY <1>8 DEF Fire
  <2>2. started' = started /\ put_off' = put_off
    BY <1>8 DEF Fire
  <2>3. PICK new \in Row : new = Owed("pending", t, t)
    BY OwedIs
  <2>4. new.status = "pending" /\ new.attempts = 0 /\ 0 < MaxAttempts
    BY <2>3, OwedIs
  <2> QED
    BY <1>1, <2>1, <2>2, <2>3, <2>4 DEF RowKept
<1> HIDE DEF Goal
<1>9. Goal
  <2>1. ASSUME NEW r \in Rows, Steps(r) PROVE Goal
    BY <1>6, <1>7, <1>8, <2>1 DEF Steps
  <2>2. Spent \/ Claim \/ Rotate \/ BatchRun => Goal
    BY <1>2, <1>3, <1>4, <1>5 DEF Goal
  <2> QED
    BY <2>1, <2>2, StepIs
<1> QED
  BY <1>9 DEF Goal

LEMMA BatchInductive ==
  ASSUME IInv, Next PROVE Batched'
<1>1. /\ row \in [Rows -> Row] /\ Batched /\ (\A q \in Rows : RowKept(q)) /\ TurnKept
  BY TypeIs DEF IInv
<1>2. CASE Spent \/ Rotate
  BY <1>1, <1>2 DEF Spent, Rotate, Batched
<1>3. CASE Claim
  <2>1. PICK l \in Lanes, S \in SUBSET Rows : ClaimsOf(l, S)
    BY <1>3, ClaimTakes
  <2>2. ASSUME NEW q \in S PROVE LaneOf[q] = l /\ row'[q].status = "claimed"
    <3>1. row'[q] = Held(q) /\ q \in Claimable(l)
      BY <2>1 DEF ClaimsOf
    <3> QED
      BY <1>1, <3>1, HeldIs DEF Claimable
  <2> QED
    BY <2>1, <2>2 DEF ClaimsOf, Batched
<1>4. CASE BatchRun
  BY <1>4 DEF BatchRun, EndBatch, Batched
<1>5. ASSUME NEW r \in Rows, RunsOne(r) PROVE Batched'
  <2>1. PICK new \in Row : row' = [row EXCEPT ![r] = new]
    BY <1>5 DEF RunsOne
  <2>2. batch' = batch \ {r} /\ lane' = lane
    BY <1>5 DEF RunsOne
  <2> QED
    BY <1>1, <2>1, <2>2 DEF Batched
<1>6. ASSUME NEW r \in Rows, Defers(r) PROVE Batched'
  BY <1>6 DEF Defers, EndBatch, Batched
<1>7. ASSUME NEW r \in Rows, Fire(r) PROVE Batched'
  <2>1. PICK t \in 0..2 : row' = [row EXCEPT ![r] = Owed("pending", t, t)]
    BY <1>7 DEF Fire
  <2>2. batch' = batch /\ lane' = lane /\ row[r].status = "absent"
    BY <1>7 DEF Fire
  <2> QED
    BY <1>1, <2>1, <2>2 DEF Batched
<1> QED
  BY <1>2, <1>3, <1>4, <1>5, <1>6, <1>7, StepIs DEF Steps

LEMMA TurnInductive ==
  ASSUME IInv, Next PROVE TurnKept'
<1>1. TurnKept /\ Typed
  BY TypeIs DEF IInv
<1>2. CASE Spent
  BY <1>1, <1>2 DEF Spent, TurnKept
<1>3. CASE Claim
  <2>1. PICK l \in Lanes, S \in SUBSET Rows : ClaimsOf(l, S)
    BY <1>3, ClaimTakes
  <2> QED
    BY <1>1, <2>1 DEF ClaimsOf, TurnKept
<1>4. CASE Rotate
  BY <1>1, <1>4 DEF Rotate, TurnKept
<1>5. CASE BatchRun
  BY <1>1, <1>5 DEF BatchRun, EndBatch, TurnKept
<1>6. ASSUME NEW r \in Rows, RunsOne(r) PROVE TurnKept'
  BY <1>1, <1>6 DEF RunsOne, TurnKept
<1>7. ASSUME NEW r \in Rows, Defers(r) PROVE TurnKept'
  BY <1>1, <1>7 DEF Defers, EndBatch, TurnKept
<1>8. ASSUME NEW r \in Rows, Fire(r) PROVE TurnKept'
  BY <1>1, <1>8 DEF Fire, TurnKept
<1> QED
  BY <1>2, <1>3, <1>4, <1>5, <1>6, <1>7, <1>8, StepIs DEF Steps

\* The limit.
LEMMA LimitInductive ==
  ASSUME IInv, Next PROVE LimitKept'
<1>1. TurnKept /\ Typed /\ LimitKept /\ batch \in SUBSET Rows
  BY TypeIs DEF IInv, Batched
<1>2. /\ Counted /\ started \in [Rows -> Nat] /\ StartsOf(Rows) \in Nat
      /\ Cardinality(batch) \in Nat /\ Rows \in SUBSET Rows
  BY <1>1, StartsIsNumber, FiniteRows DEF Counted, Typed
<1>3. Limited' = Limited /\ call' = call
  BY StepIs DEF Limited, Spent, Claim, Rotate, BatchRun, Steps, RunsOne, Defers, Fire
<1>4. CASE ~Limited
  <2>1. remaining = NoLimit
    BY <1>1, <1>4 DEF LimitKept
  <2>2. remaining' = NoLimit
    BY <2>1, StepIs
       DEF Spent, Claim, Rotate, BatchRun, Steps, RunsOne, Defers, Fire, EndBatch
  <2> QED
    BY <1>3, <1>4, <2>2 DEF LimitKept
<1>5. CASE Limited
  <2> DEFINE Goal ==
        /\ remaining' \in Nat /\ took' <= size' /\ size' <= remaining'
        /\ remaining' + StartsOf(Rows)' + Cardinality(batch)' = call.limit + took'
  <2>1. /\ remaining \in Nat /\ took <= size /\ size <= remaining /\ took \in Nat /\ size \in Nat
        /\ remaining + StartsOf(Rows) + Cardinality(batch) = call.limit + took
        /\ call.limit \in Nat
    BY <1>1, <1>2, <1>5, Bounds DEF LimitKept, Counted, Limited
  <2>2. SUFFICES Goal
    BY <1>3, <1>5 DEF LimitKept
  <2>3. CASE Spent \/ Rotate
    BY <2>1, <2>3 DEF Spent, Rotate, StartsOf
  <2>4. CASE Claim
    <3>1. PICK l \in Lanes, S \in SUBSET Rows : ClaimsOf(l, S)
      BY <2>4, ClaimTakes
    <3>2. /\ took = 0 /\ batch = {} /\ size' = Asked(l) /\ Asked(l) <= remaining /\ Asked(l) \in Nat
          /\ batch' = S /\ took' = Cardinality(S) /\ Cardinality(S) <= Asked(l)
          /\ remaining' = remaining /\ started' = started
      BY <1>1, <1>5, <3>1 DEF ClaimsOf, TurnKept
    <3>3. Cardinality(batch) = 0 /\ Cardinality(S) \in Nat /\ Cardinality(batch)' = Cardinality(S)
      BY <3>2, FiniteRows
    <3>4. StartsOf(Rows)' = StartsOf(Rows)
      BY <3>2 DEF StartsOf
    <3> QED
      BY <1>2, <2>1, <3>2, <3>3, <3>4
  <2>5. CASE BatchRun
    <3>1. EndBatch({}, closed) /\ {} \in SUBSET batch /\ started' = started /\ batch = {}
      BY <2>5 DEF BatchRun
    <3>2. remaining' = remaining - (took - Cardinality({}))
      BY <1>1, <1>2, <1>5, <3>1, BatchEnds
    <3>3. Cardinality({}) = 0 /\ Cardinality(batch) = 0 /\ Cardinality(batch)' = 0
      BY <3>1, FS_EmptySet DEF EndBatch
    <3>4. StartsOf(Rows)' = StartsOf(Rows)
      BY <3>1 DEF StartsOf
    <3>5. size' = 0 /\ took' = 0
      BY <3>1 DEF EndBatch
    <3>6. remaining' = remaining - took
      BY <2>1, <3>2, <3>3
    <3>7. remaining' \in Nat /\ remaining + StartsOf(Rows) = call.limit + took
      BY <1>2, <2>1, <3>3, <3>6
    <3>8. remaining' + StartsOf(Rows) = call.limit
      BY <1>2, <2>1, <3>6, <3>7
    <3> QED
      BY <1>2, <2>1, <3>3, <3>4, <3>5, <3>7, <3>8
  <2>6. ASSUME NEW r \in Rows, RunsOne(r) PROVE Goal
    <3>1. Starting(r) /\ batch' = batch \ {r} /\ r \in batch
          /\ remaining' = remaining /\ size' = size /\ took' = took
      BY <2>6 DEF RunsOne, Starting
    <3>2. StartsOf(Rows)' = StartsOf(Rows) + 1
      BY <1>2, <3>1, StartsRise
    <3>3. Cardinality(batch)' = Cardinality(batch) - 1
      BY <1>1, <3>1, OneRowLess
    <3> QED
      BY <1>2, <2>1, <3>1, <3>2, <3>3
  <2>7. ASSUME NEW r \in Rows, Defers(r) PROVE Goal
    <3>1. /\ Starting(r) /\ r \in batch /\ EndBatch(batch \ {r}, closed \cup {lane})
          /\ batch \ {r} \in SUBSET batch
      BY <2>7 DEF Defers, Starting
    <3>2. StartsOf(Rows)' = StartsOf(Rows) + 1
      BY <1>2, <3>1, StartsRise
    <3>3. Cardinality(batch \ {r}) = Cardinality(batch) - 1
      BY <1>1, <3>1, OneRowLess
    <3>4. remaining' = remaining - (took - Cardinality(batch \ {r}))
      BY <1>1, <1>2, <1>5, <3>1, BatchEnds
    <3>5. size' = 0 /\ took' = 0 /\ Cardinality(batch)' = 0
      BY <3>1, FS_EmptySet DEF EndBatch
    <3>6. Cardinality(batch) \in Nat \ {0}
      BY <1>1, <3>1, OneRowLess
    <3>7. remaining' = remaining + Cardinality(batch) - (1 + took)
      BY <1>2, <2>1, <3>3, <3>4
    <3>8. remaining' \in Nat
      BY <1>2, <2>1, <3>6, <3>7
    <3>9. remaining' + (StartsOf(Rows) + 1) = call.limit
      BY <1>2, <2>1, <3>7
    <3> QED
      BY <1>2, <2>1, <3>2, <3>5, <3>8, <3>9
  <2>8. ASSUME NEW r \in Rows, Fire(r) PROVE Goal
    <3>1. UNCHANGED <<remaining, size, took, batch, started>>
      BY <2>8 DEF Fire
    <3> QED
      BY <2>1, <3>1 DEF StartsOf
  <2> HIDE DEF Goal
  <2> QED
    BY <2>3, <2>4, <2>5, <2>6, <2>7, <2>8, StepIs DEF Steps
<1> QED
  BY <1>4, <1>5

\* The shares.
LEMMA LeastIs ==
  ASSUME call \in Calls, Limited
  PROVE  /\ Least \in Nat /\ Cardinality(Lanes) \in Nat \ {0}
         /\ Cardinality(Lanes) * Least <= call.limit
<1>1. call.limit \in Nat
  BY Bounds DEF Limited
<1>2. Cardinality(Lanes) \in Nat \ {0}
  BY Bounds, FiniteLanes
<1> QED
  BY <1>1, <1>2, Divides DEF Least

LEMMA SharesInductive ==
  ASSUME IInv, Next PROVE SharesKept'
<1>1. TurnKept /\ Typed /\ LimitKept /\ Batched /\ batch \in SUBSET Rows /\ SharesKept
  BY TypeIs DEF IInv, Batched
<1>2. /\ Counted /\ started \in [Rows -> Nat] /\ Cardinality(batch) \in Nat
      /\ todo \in SUBSET Lanes /\ took \in Nat /\ size \in Nat
  BY <1>1, FiniteRows DEF Counted, Typed
<1>3. call' = call
  BY StepIs DEF Spent, Claim, Rotate, BatchRun, Steps, RunsOne, Defers, Fire
<1>4. SUFFICES ASSUME Limited, NEW l \in Lanes, l \notin closed' PROVE ShareKept(l)'
  BY <1>3 DEF SharesKept, Limited
<1>5. /\ Least \in Nat /\ Least' = Least /\ remaining \in Nat
  BY <1>1, <1>2, <1>3, <1>4, LeastIs DEF Counted, LimitKept, Least
<1>6. RowsOf(l) \in SUBSET Rows
  BY DEF RowsOf
<1>7. StartsOf(RowsOf(l)) \in Nat /\ Cardinality(todo) \in Nat
  BY <1>2, <1>6, StartsIsNumber, FiniteLanes
<1>8. Cardinality(todo) * Least \in Nat
  BY <1>5, <1>7
<1>9. ASSUME started' = started PROVE StartsOf(RowsOf(l))' = StartsOf(RowsOf(l))
  BY <1>9 DEF StartsOf, RowsOf
<1>10. l \notin closed => ShareKept(l)
  BY <1>1, <1>4 DEF SharesKept
<1>11. CASE Spent
  <2>1. UNCHANGED <<todo, remaining, took, closed, started>> /\ at = "turn"
    BY <1>11 DEF Spent
  <2> QED
    BY <1>4, <1>5, <1>9, <1>10, <2>1 DEF ShareKept
<1>12. CASE Rotate
  <2>1. started' = started /\ closed' = closed /\ at = "turn" /\ todo = {}
    BY <1>12 DEF Rotate
  <2> QED
    BY <1>4, <1>5, <1>9, <1>10, <2>1 DEF ShareKept
<1>13. CASE Claim
  <2>1. PICK k \in Lanes, S \in SUBSET Rows : ClaimsOf(k, S)
    BY <1>13, ClaimTakes
  <2>2. /\ at = "turn" /\ k \in todo /\ k = Min(todo) /\ Cardinality(S) <= Asked(k)
        /\ Asked(k) \in Nat /\ Asked(k) = Share(remaining, Cardinality(todo))
        /\ batch' = S /\ took' = Cardinality(S) /\ size' = Asked(k)
        /\ lane' = k /\ todo' = todo \ {k} /\ at' = "starting"
        /\ UNCHANGED <<remaining, closed, started>>
    BY <1>4, <2>1 DEF ClaimsOf
  <2>3. /\ Cardinality(S) \in Nat /\ Cardinality(batch)' = Cardinality(S)
        /\ Cardinality(todo) \in Nat \ {0} /\ Cardinality(todo)' = Cardinality(todo) - 1
        /\ took = 0
    BY <1>1, <1>2, <2>2, FiniteRows, NextLane DEF TurnKept
  <2>4. CASE StartsOf(RowsOf(l)) >= Least
    BY <1>5, <1>9, <2>2, <2>4 DEF ShareKept
  <2>5. CASE l \in todo /\ remaining >= took + Cardinality(todo) * Least
    <3>1. remaining >= Cardinality(todo) * Least
      BY <1>5, <1>8, <2>3, <2>5
    <3>2. Asked(k) >= Least /\ remaining >= Asked(k) + (Cardinality(todo) - 1) * Least
      BY <1>5, <2>2, <2>3, <3>1, ShareLeaves
    <3>3. CASE l = k
      <4>1. took' < size' \/ StartsOf(RowsOf(l))' + Cardinality(batch)' >= Least'
        BY <1>5, <1>7, <1>9, <2>2, <2>3, <3>2
      <4> QED
        BY <2>2, <3>3, <4>1 DEF ShareKept
    <3>4. CASE l # k
      <4>1. (Cardinality(todo) - 1) * Least \in Nat
        BY <1>5, <2>3
      <4>2. remaining' >= took' + Cardinality(todo)' * Least'
        BY <1>5, <2>2, <2>3, <3>2, <4>1
      <4> QED
        BY <2>2, <2>5, <3>4, <4>2 DEF ShareKept
    <3> QED
      BY <3>3, <3>4
  <2> QED
    BY <1>4, <1>10, <2>2, <2>4, <2>5 DEF ShareKept
<1>14. CASE BatchRun
  <2>1. /\ EndBatch({}, closed) /\ {} \in SUBSET batch /\ started' = started /\ batch = {}
        /\ todo' = todo /\ at = "starting"
    BY <1>14 DEF BatchRun
  <2>2. /\ remaining' = remaining - (took - Cardinality({}))
        /\ closed' = IF took < size THEN closed \cup {lane} ELSE closed
    BY <1>1, <1>2, <1>4, <2>1, BatchEnds
  <2>3. remaining' = remaining - took /\ Cardinality(batch) = 0 /\ took' = 0
    BY <1>2, <1>5, <2>1, <2>2, FS_EmptySet DEF EndBatch
  <2>4. CASE StartsOf(RowsOf(l)) >= Least
    BY <1>5, <1>9, <2>1, <2>4 DEF ShareKept
  <2>5. CASE l = lane /\ (took < size \/ StartsOf(RowsOf(l)) + Cardinality(batch) >= Least)
    <3>1. StartsOf(RowsOf(l)) + 0 >= Least
      BY <1>4, <2>2, <2>3, <2>5
    <3> QED
      BY <1>5, <1>7, <1>9, <2>1, <3>1 DEF ShareKept
  <2>6. CASE l \in todo /\ remaining >= took + Cardinality(todo) * Least
    <3>1. remaining' >= took' + Cardinality(todo)' * Least'
      BY <1>2, <1>5, <1>8, <2>1, <2>3, <2>6
    <3> QED
      BY <2>1, <2>6, <3>1 DEF ShareKept
  <2> QED
    BY <1>4, <1>10, <2>2, <2>4, <2>5, <2>6 DEF ShareKept
<1>15. ASSUME NEW r \in Rows, RunsOne(r) PROVE ShareKept(l)'
  <2>1. /\ Starting(r) /\ batch' = batch \ {r} /\ r \in batch /\ LaneOf[r] = lane
        /\ UNCHANGED <<at, lane, todo, remaining, size, took, closed>>
    BY <1>1, <1>15 DEF RunsOne, Starting, Batched
  <2>2. /\ StartsOf(RowsOf(l))' = StartsOf(RowsOf(l)) + (IF r \in RowsOf(l) THEN 1 ELSE 0)
        /\ Cardinality(batch)' = Cardinality(batch) - 1
    BY <1>1, <1>2, <1>6, <2>1, StartsRise, OneRowLess
  <2>3. l = lane => r \in RowsOf(l)
    BY <2>1 DEF RowsOf
  <2>4. StartsOf(RowsOf(l)) >= Least => StartsOf(RowsOf(l))' >= Least'
    BY <1>5, <1>7, <2>2
  <2>5. l = lane /\ StartsOf(RowsOf(l)) + Cardinality(batch) >= Least =>
          StartsOf(RowsOf(l))' + Cardinality(batch)' >= Least'
    BY <1>2, <1>5, <1>7, <2>2, <2>3
  <2> QED
    BY <1>4, <1>5, <1>10, <2>1, <2>4, <2>5 DEF ShareKept
<1>16. ASSUME NEW r \in Rows, Defers(r) PROVE ShareKept(l)'
  <2>1. /\ Starting(r) /\ r \in batch /\ EndBatch(batch \ {r}, closed \cup {lane})
        /\ batch \ {r} \in SUBSET batch /\ todo' = todo
    BY <1>16 DEF Defers, Starting
  <2>2. StartsOf(RowsOf(l))' = StartsOf(RowsOf(l)) + (IF r \in RowsOf(l) THEN 1 ELSE 0)
    BY <1>2, <1>6, <2>1, StartsRise
  <2>3. /\ remaining' = remaining - (took - Cardinality(batch \ {r}))
        /\ closed' = IF took < size THEN closed \cup {lane} \cup {lane} ELSE closed \cup {lane}
    BY <1>1, <1>2, <1>4, <2>1, BatchEnds
  <2>4. l # lane /\ l \notin closed
    BY <1>4, <2>3
  <2>5. Cardinality(batch \ {r}) \in Nat /\ took' = 0
    BY <1>1, <2>1, FiniteRows DEF EndBatch
  <2>6. StartsOf(RowsOf(l)) >= Least => StartsOf(RowsOf(l))' >= Least'
    BY <1>5, <1>7, <2>2
  <2>7. remaining >= took + Cardinality(todo) * Least =>
          remaining' >= took' + Cardinality(todo)' * Least'
    BY <1>2, <1>5, <1>8, <2>1, <2>3, <2>5
  <2> QED
    BY <1>10, <2>1, <2>4, <2>6, <2>7 DEF ShareKept
<1>17. ASSUME NEW r \in Rows, Fire(r) PROVE ShareKept(l)'
  <2>1. UNCHANGED <<at, lane, todo, remaining, size, took, closed, batch, started>>
    BY <1>17 DEF Fire
  <2> QED
    BY <1>4, <1>5, <1>9, <1>10, <2>1 DEF ShareKept
<1> QED
  BY <1>11, <1>12, <1>13, <1>14, <1>15, <1>16, <1>17, StepIs DEF Steps

\* What a rotation that claimed nothing has seen.
LEMMA NothingInductive ==
  ASSUME IInv, Next PROVE NothingFound'
<1>1. /\ TurnKept /\ Typed /\ NothingFound /\ row \in [Rows -> Row]
      /\ \A r \in Rows : RowKept(r)
  BY TypeIs DEF IInv
<1>2. call' = call
  BY StepIs DEF Spent, Claim, Rotate, BatchRun, Steps, RunsOne, Defers, Fire
<1>3. CASE Spent
  <2>1. UNCHANGED <<row, call, claimed, todo, closed, set_aside, started, fired>>
    BY <1>3 DEF Spent
  <2> QED
    BY <1>1, <2>1 DEF NothingFound, Claimable, Open, Due, Moment
<1>4. CASE Rotate
  <2>1. /\ UNCHANGED <<row, call, closed, set_aside, started, fired>>
        /\ claimed => todo' = Lanes \ closed
        /\ ~claimed => todo' = todo
    BY <1>4 DEF Rotate
  <2>2. CASE claimed
    BY <2>1, <2>2 DEF NothingFound
  <2>3. CASE ~claimed
    BY <1>1, <2>1, <2>3 DEF NothingFound, Claimable, Open, Due, Moment
  <2> QED
    BY <2>2, <2>3
<1>5. CASE Claim
  <2>1. PICK l \in Lanes, S \in SUBSET Rows : ClaimsOf(l, S)
    BY <1>5, ClaimTakes
  <2>2. CASE S # {}
    BY <2>1, <2>2 DEF ClaimsOf, NothingFound
  <2>3. CASE S = {}
    <3>1. /\ UNCHANGED <<call, closed, set_aside, started, fired>> /\ todo' = todo \ {l}
          /\ claimed' = claimed /\ Claimable(l) = {}
          /\ row' = [r \in Rows |-> IF r \in {} THEN Held(r) ELSE row[r]]
      BY <1>1, <2>1, <2>3 DEF ClaimsOf, Typed
    <3>2. row' = row
      BY <1>1, <3>1
    <3> QED
      BY <1>1, <3>1, <3>2 DEF NothingFound, Claimable, Open, Due, Moment
  <2> QED
    BY <2>2, <2>3
<1>6. CASE BatchRun
  <2>1. /\ UNCHANGED <<row, call, claimed, todo, set_aside, started, fired>>
        /\ closed \subseteq closed'
    BY <1>6 DEF BatchRun, EndBatch
  <2> QED
    BY <1>1, <2>1 DEF NothingFound, Claimable, Open, Due, Moment
<1>7. ASSUME NEW r \in Rows, RunsOne(r) \/ Defers(r) PROVE NothingFound'
  <2>1. claimed' = claimed /\ r \in batch
    BY <1>7 DEF RunsOne, Defers
  <2> QED
    BY <1>1, <2>1 DEF TurnKept, NothingFound
<1>8. ASSUME NEW r \in Rows, Fire(r) PROVE NothingFound'
  <2>1. /\ UNCHANGED <<call, claimed, todo, closed, set_aside, started>>
        /\ fired' = fired \cup {r} /\ row[r].status = "absent"
        /\ \E t \in 0..2 : row' = [row EXCEPT ![r] = Owed("pending", t, t)]
    BY <1>8 DEF Fire
  <2>2. started[r] = 0 /\ \A q \in Rows : q # r => row'[q] = row[q]
    BY <1>1, <2>1 DEF RowKept
  <2>3. ASSUME NEW l \in Lanes, NEW q \in Claimable(l)', q # r PROVE q \in Claimable(l)
    BY <2>1, <2>2, <2>3 DEF Claimable, Open, Due, Moment
  <2>4. ASSUME NEW l \in Lanes, NEW q \in Claimable(l)' PROVE q \in Rows
    BY DEF Claimable
  <2> QED
    BY <1>1, <2>1, <2>2, <2>3 DEF NothingFound
<1> QED
  BY <1>3, <1>4, <1>5, <1>6, <1>7, <1>8, StepIs DEF Steps

\* What was put off.
LEMMA PutOffInductive ==
  ASSUME IInv, Next PROVE PutOffKept'
<1>1. /\ TurnKept /\ Typed /\ Batched /\ PutOffKept /\ row \in [Rows -> Row]
      /\ (\A r \in Rows : RowKept(r)) /\ put_off \in [Rows -> Nat]
  BY TypeIs DEF IInv, Typed
<1>2. call' = call
  BY StepIs DEF Spent, Claim, Rotate, BatchRun, Steps, RunsOne, Defers, Fire
<1>3. SUFFICES ASSUME NEW q \in Rows, q \notin Deferring \cap TaskRows PROVE NotAgain(q)'
  BY DEF PutOffKept
<1>4. /\ put_off[q] \in Nat /\ put_off[q] <= 1
      /\ put_off[q] = 1 => q \notin batch /\ (LaneOf[q] \in closed \/ ~Open(q))
  BY <1>1, <1>3 DEF PutOffKept, NotAgain
<1>5. CASE Spent \/ Rotate \/ BatchRun
  <2>1. /\ UNCHANGED <<row, call, set_aside, put_off>>
        /\ closed \subseteq closed' /\ batch' \subseteq batch
    BY <1>5 DEF Spent, Rotate, BatchRun, EndBatch
  <2> QED
    BY <1>4, <2>1 DEF NotAgain, Open, Due, Moment
<1>6. CASE Claim
  <2>1. PICK l \in Lanes, S \in SUBSET Rows : ClaimsOf(l, S)
    BY <1>6, ClaimTakes
  <2>2. /\ UNCHANGED <<call, closed, set_aside, put_off>> /\ batch' = S
        /\ S \subseteq Claimable(l) /\ l \in todo
        /\ row' = [r \in Rows |-> IF r \in S THEN Held(r) ELSE row[r]]
    BY <2>1 DEF ClaimsOf
  <2>3. CASE q \in S
    <3>1. Open(q) /\ LaneOf[q] = l /\ l \notin closed
      BY <1>1, <2>2, <2>3 DEF Claimable, TurnKept
    <3> QED
      BY <1>4, <2>2, <3>1 DEF NotAgain
  <2>4. CASE q \notin S
    <3>1. row'[q] = row[q]
      BY <2>2, <2>4
    <3> QED
      BY <1>4, <2>2, <2>4, <3>1 DEF NotAgain, Open, Due, Moment
  <2> QED
    BY <2>3, <2>4
<1>7. ASSUME NEW r \in Rows, RunsOne(r), RunsAside(r) PROVE NotAgain(q)'
  <2>1. /\ r \in batch /\ batch' = batch \ {r} /\ closed' = closed
        /\ set_aside \subseteq set_aside' /\ set_aside' \subseteq set_aside \cup {r}
        /\ \E new \in Row : row' = [row EXCEPT ![r] = new]
        /\ put_off' \in {put_off, [put_off EXCEPT ![r] = @ + 1]}
    BY <1>7 DEF RunsOne
  <2>2. CASE q = r
    <3>1. put_off[q] = 0
      BY <1>4, <2>1, <2>2
    <3>2. CASE put_off' = put_off
      BY <3>1, <3>2 DEF NotAgain
    <3>3. CASE put_off' # put_off
      <4>1. ~Open(q)'
        BY <1>3, <1>7, <2>2, <3>3 DEF RunsAside
      <4>2. put_off'[q] = 1
        BY <1>1, <2>1, <2>2, <3>1, <3>3
      <4> QED
        BY <2>1, <2>2, <4>1, <4>2 DEF NotAgain
    <3> QED
      BY <3>2, <3>3
  <2>3. CASE q # r
    <3>1. row'[q] = row[q] /\ put_off'[q] = put_off[q] /\ (q \in set_aside' <=> q \in set_aside)
      BY <1>1, <2>1, <2>3
    <3> QED
      BY <1>2, <1>4, <2>1, <3>1 DEF NotAgain, Open, Due, Moment
  <2> QED
    BY <2>2, <2>3
<1>8. ASSUME NEW r \in Rows, Defers(r) PROVE NotAgain(q)'
  <2>1. /\ r \in batch /\ batch' = {} /\ closed \cup {lane} \subseteq closed'
        /\ set_aside' = set_aside /\ put_off' = [put_off EXCEPT ![r] = @ + 1]
        /\ \A p \in Rows : p \notin batch => row'[p] = row[p]
    BY <1>8 DEF Defers, EndBatch
  <2>2. CASE q \in batch
    <3>1. LaneOf[q] \in closed' /\ put_off[q] = 0
      BY <1>1, <1>4, <2>1, <2>2 DEF Batched
    <3>2. put_off'[q] \in {0, 1}
      BY <1>1, <2>1, <3>1
    <3> QED
      BY <2>1, <3>1, <3>2 DEF NotAgain
  <2>3. CASE q \notin batch
    <3>1. row'[q] = row[q] /\ put_off'[q] = put_off[q]
      BY <1>1, <2>1, <2>3
    <3> QED
      BY <1>2, <1>4, <2>1, <3>1 DEF NotAgain, Open, Due, Moment
  <2> QED
    BY <2>2, <2>3
<1>9. ASSUME NEW r \in Rows, Fire(r) PROVE NotAgain(q)'
  <2>1. /\ UNCHANGED <<call, closed, set_aside, put_off, batch>> /\ row[r].status = "absent"
        /\ \E t \in 0..2 : row' = [row EXCEPT ![r] = Owed("pending", t, t)]
    BY <1>9 DEF Fire
  <2>2. CASE q = r
    <3>1. put_off'[q] = 0
      BY <1>1, <2>1, <2>2 DEF RowKept
    <3> QED
      BY <3>1 DEF NotAgain
  <2>3. CASE q # r
    <3>1. row'[q] = row[q]
      BY <1>1, <2>1, <2>3
    <3> QED
      BY <1>4, <2>1, <3>1 DEF NotAgain, Open, Due, Moment
  <2> QED
    BY <2>2, <2>3
<1> QED
  BY <1>5, <1>6, <1>7, <1>8, <1>9, StepIs DEF Steps

LEMMA InitHolds ==
  ASSUME Init PROVE IInv
<1>1. /\ call \in Calls /\ at = "turn" /\ todo = Lanes /\ claimed = FALSE /\ size = 0 /\ took = 0
      /\ batch = {} /\ remaining = call.limit /\ closed = {} /\ set_aside = {} /\ fired = {}
      /\ started = [r \in Rows |-> 0] /\ put_off = [r \in Rows |-> 0] /\ lane = Min(Lanes)
      /\ row \in [Rows -> {Absent, Owed("pending", 0, 0), Owed("pending", 1, 1),
                           Owed("claimed", 0, 0)}]
  BY DEF Init
<1>2. Min(Lanes) \in Lanes /\ Cardinality(Lanes) \in Nat \ {0}
  BY Bounds, NextLane
<1>3. ASSUME NEW r \in Rows
      PROVE  /\ row[r] \in Row
             /\ row[r].status \in {"pending", "failed", "claimed"} => row[r].attempts < MaxAttempts
  <2>1. \/ row[r] = Absent
        \/ \E s \in {"pending", "claimed"}, t \in 0..2 : row[r] = Owed(s, t, t)
    <3>1. row[r] \in {Absent, Owed("pending", 0, 0), Owed("pending", 1, 1), Owed("claimed", 0, 0)}
      BY <1>1
    <3> QED
      BY <3>1
  <2>2. CASE row[r] = Absent
    <3>1. Absent \in Row
      BY RecordsAre
    <3>2. Absent.status = "absent"
      BY DEF Absent
    <3> QED
      BY <2>2, <3>1, <3>2
  <2>3. ASSUME NEW s \in {"pending", "claimed"}, NEW t \in 0..2, row[r] = Owed(s, t, t)
        PROVE  row[r] \in Row /\ row[r].attempts < MaxAttempts
    <3>1. Owed(s, t, t) \in Row /\ Owed(s, t, t).attempts = 0 /\ 0 < MaxAttempts
      BY OwedIs
    <3> QED
      BY <2>3, <3>1
  <2> QED
    BY <2>1, <2>2, <2>3
<1>4. TypeOK
  <2>1. row \in [Rows -> Row]
    BY <1>1, <1>3
  <2>2. remaining \in Nat \cup {NoLimit}
    BY <1>1, Bounds
  <2>3. Typed
    BY <1>1, <1>2, <2>2 DEF Typed
  <2> QED
    BY <1>1, <2>1, <2>3, TypeIs DEF Batched
<1>5. \A r \in Rows : RowKept(r)
  BY <1>1, <1>3 DEF RowKept
<1>6. TurnKept
  BY <1>1 DEF TurnKept
<1>7. ASSUME NEW S \in SUBSET Rows PROVE StartsOf(S) = 0
  <2>1. IsFiniteSet(S) /\ \A r \in S : started[r] = 0
    BY <1>1, FiniteRows
  <2> QED
    BY <2>1, SumOfNothing DEF StartsOf
<1>8. LimitKept
  <2>1. CASE Limited
    <3>1. call.limit \in Nat
      BY <1>1, <2>1, Bounds DEF Limited
    <3>2. StartsOf(Rows) = 0 /\ Cardinality(batch) = 0
      BY <1>1, <1>7, FS_EmptySet
    <3> QED
      BY <1>1, <2>1, <3>1, <3>2 DEF LimitKept
  <2>2. CASE ~Limited
    BY <1>1, <2>2 DEF LimitKept, Limited
  <2> QED
    BY <2>1, <2>2
<1>9. SharesKept
  <2> SUFFICES ASSUME Limited, NEW l \in Lanes PROVE ShareKept(l)
    BY DEF SharesKept
  <2>1. /\ Least \in Nat /\ Cardinality(Lanes) * Least <= call.limit /\ call.limit \in Nat
        /\ Cardinality(Lanes) * Least \in Nat
    BY <1>1, <1>2, LeastIs, Bounds DEF Limited
  <2> QED
    BY <1>1, <2>1 DEF ShareKept
<1>10. NothingFound
  BY <1>1 DEF NothingFound
<1>11. PutOffKept
  BY <1>1 DEF PutOffKept, NotAgain
<1> QED
  BY <1>4, <1>5, <1>6, <1>8, <1>9, <1>10, <1>11 DEF IInv

LEMMA Stutters ==
  ASSUME IInv, UNCHANGED vars PROVE IInv'
BY DEF IInv, vars, TypeOK, RowKept, TurnKept, LimitKept, SharesKept, ShareKept, NothingFound,
       PutOffKept, NotAgain, Limited, Least, StartsOf, RowsOf, Claimable, Open, Due, Moment

\* In a call of any size over any lanes and rows, however it is made.
THEOREM InvariantHolds == Spec => []IInv
<1>1. ASSUME IInv, [Next]_vars PROVE IInv'
  <2>1. CASE Next
    <3>1. Typed' /\ row' \in [Rows -> Row] /\ Batched' /\ \A q \in Rows : RowKept(q)'
      BY <1>1, <2>1, TypedInductive, RowsInductive, BatchInductive
    <3>2. TypeOK'
      BY <3>1 DEF TypeOK, Typed, Batched
    <3>3. TurnKept' /\ LimitKept' /\ SharesKept' /\ NothingFound' /\ PutOffKept'
      BY <1>1, <2>1, TurnInductive, LimitInductive, SharesInductive, NothingInductive,
         PutOffInductive
    <3> QED
      BY <3>1, <3>2, <3>3 DEF IInv
  <2>2. CASE UNCHANGED vars
    BY <1>1, <2>2, Stutters
  <2> QED
    BY <1>1, <2>1, <2>2
<1>2. Init => IInv
  BY InitHolds
<1> QED
  BY <1>1, <1>2, PTL DEF Spec

-----------------------------------------------------------------------------
(* What follows.                                                           *)

\* The limit caps the attempts, and is spent by nothing else.
THEOREM LimitIsSpentByAttempts == Spec => []LimitSpentByAttempts
<1>1. IInv => LimitSpentByAttempts
  <2> SUFFICES ASSUME IInv, Limited
               PROVE  /\ StartsOf(Rows) <= call.limit
                      /\ at = "turn" => remaining = call.limit - StartsOf(Rows)
    BY DEF LimitSpentByAttempts, Limited
  <2>1. /\ remaining \in Nat /\ took <= size /\ size <= remaining
        /\ remaining + StartsOf(Rows) + Cardinality(batch) = call.limit + took
    BY DEF IInv, LimitKept
  <2>2. /\ StartsOf(Rows) \in Nat /\ Cardinality(batch) \in Nat /\ call.limit \in Nat
        /\ took \in Nat /\ size \in Nat
    BY StartsIsNumber, FiniteRows, Bounds DEF IInv, TypeOK, Limited
  <2>3. at = "turn" => took = 0 /\ Cardinality(batch) = 0
    BY FS_EmptySet DEF IInv, TurnKept
  <2>4. StartsOf(Rows) <= call.limit
    BY <2>1, <2>2
  <2>5. at = "turn" => remaining = call.limit - StartsOf(Rows)
    BY <2>1, <2>2, <2>3
  <2> QED
    BY <2>4, <2>5
<1> QED
  BY <1>1, InvariantHolds, PTL

\* A lane that was neither drained nor set aside has had its share.
THEOREM LanesHaveTheirShare == Spec => []LanesGetTheirShare
<1>1. IInv => LanesGetTheirShare
  <2> SUFFICES ASSUME IInv, at = "done", Limited, NEW l \in Lanes \ closed
               PROVE  StartsOf(RowsOf(l)) >= Least
    BY DEF LanesGetTheirShare, Limited, Least
  <2>1. ShareKept(l) /\ took = 0 /\ (remaining = 0 \/ todo = {}) /\ todo \in SUBSET Lanes
    BY DEF IInv, SharesKept, TurnKept, TypeOK
  <2>2. Least \in Nat /\ call \in Calls
    BY LeastIs DEF IInv, TypeOK
  <2>3. StartsOf(RowsOf(l)) \in Nat
    <3>1. RowsOf(l) \in SUBSET Rows
      BY DEF RowsOf
    <3> QED
      BY <3>1, StartsIsNumber DEF IInv, TypeOK
  <2>4. CASE l \in todo /\ remaining >= took + Cardinality(todo) * Least
    <3>1. remaining = 0 /\ Cardinality(todo) \in Nat \ {0}
      BY <2>1, <2>4, FiniteLanes
    <3>2. Cardinality(todo) * Least >= Least /\ Cardinality(todo) * Least \in Nat
      BY <2>2, <3>1
    <3>3. Least = 0
      BY <2>1, <2>2, <2>4, <3>1, <3>2
    <3> QED
      BY <2>3, <3>3
  <2> QED
    BY <2>1, <2>4 DEF ShareKept
<1> QED
  BY <1>1, InvariantHolds, PTL

\* A call that ends with limit to spend leaves only what was fired too late.
THEOREM NothingIsLeftBehind == Spec => []NothingIsLeft
<1>1. IInv => NothingIsLeft
  BY DEF IInv, TurnKept, NothingFound, NothingIsLeft
<1> QED
  BY <1>1, InvariantHolds, PTL

\* Where no task's row may be deferred inside its hand-off, none is asked again.
THEOREM AskedOnce ==
  ASSUME Deferring \cap TaskRows = {} PROVE Spec => []PutOffOnce
<1>1. IInv => PutOffOnce
  BY DEF IInv, PutOffKept, NotAgain, PutOffOnce
<1> QED
  BY <1>1, InvariantHolds, PTL
=============================================================================
