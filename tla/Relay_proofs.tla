---------------------------- MODULE Relay_proofs -----------------------------
(* Theorems about Relay, for every set of relays, lanes and rows, whatever  *)
(* lanes are served and batches claimed, and for pauses of any length.      *)
EXTENDS Relay, Extremes

-----------------------------------------------------------------------------
(* Pauses.                                                                 *)

LEMMA PausesAre ==
  \A p : p \in Pauses <=> DOMAIN p \subseteq Lanes /\ p \in [DOMAIN p -> 0..MaxPause]
<1>1. ASSUME NEW p \in Pauses PROVE DOMAIN p \subseteq Lanes /\ p \in [DOMAIN p -> 0..MaxPause]
  <2>1. PICK S \in SUBSET Lanes : p \in [S -> 0..MaxPause]
    BY DEF Pauses
  <2>2. DOMAIN p = S
    BY <2>1
  <2> QED
    BY <2>1, <2>2
<1>2. ASSUME NEW p, DOMAIN p \subseteq Lanes, p \in [DOMAIN p -> 0..MaxPause] PROVE p \in Pauses
  BY <1>2 DEF Pauses
<1> QED
  BY <1>1, <1>2

LEMMA NoPausesIs == NoPauses \in Pauses /\ DOMAIN NoPauses = {}
<1>1. DOMAIN NoPauses = {} /\ NoPauses \in [{} -> 0..MaxPause]
  BY DEF NoPauses
<1> QED
  BY <1>1, PausesAre

LEMMA WithoutIs ==
  ASSUME NEW p \in Pauses, NEW S
  PROVE  /\ Without(p, S) \in Pauses
         /\ DOMAIN Without(p, S) = DOMAIN p \ S
         /\ \A l \in DOMAIN Without(p, S) : Without(p, S)[l] = p[l]
<1>1. Without(p, S) = [l \in DOMAIN p \ S |-> p[l]]
  BY DEF Without, Restrict
<1>2. DOMAIN p \subseteq Lanes /\ p \in [DOMAIN p -> 0..MaxPause]
  BY PausesAre
<1>3. DOMAIN Without(p, S) = DOMAIN p \ S /\ Without(p, S) \in [DOMAIN p \ S -> 0..MaxPause]
  BY <1>1, <1>2
<1> QED
  BY <1>1, <1>2, <1>3, PausesAre

LEMMA WithIs ==
  ASSUME NEW p \in Pauses, NEW l \in Lanes, NEW s \in 0..MaxPause
  PROVE  /\ With(p, l, s) \in Pauses
         /\ DOMAIN With(p, l, s) = DOMAIN p \cup {l}
         /\ With(p, l, s)[l] = s
         /\ \A m \in DOMAIN p \ {l} : With(p, l, s)[m] = p[m]
<1>1. DOMAIN p \subseteq Lanes /\ p \in [DOMAIN p -> 0..MaxPause]
  BY PausesAre
<1>2. DOMAIN With(p, l, s) = DOMAIN p \cup {l}
      /\ With(p, l, s) \in [DOMAIN p \cup {l} -> 0..MaxPause]
  BY <1>1 DEF With
<1>3. With(p, l, s)[l] = s /\ \A m \in DOMAIN p \ {l} : With(p, l, s)[m] = p[m]
  BY DEF With
<1> QED
  BY <1>1, <1>2, <1>3, PausesAre

LEMMA LessenedIs ==
  ASSUME NEW p \in Pauses
  PROVE  /\ Lessened(p) \in Pauses /\ DOMAIN Lessened(p) = DOMAIN p
         /\ \A l \in DOMAIN p : Lessened(p)[l] = IF p[l] = 0 THEN 0 ELSE p[l] - 1
<1>1. DOMAIN p \subseteq Lanes /\ p \in [DOMAIN p -> 0..MaxPause] /\ MaxPause \in Nat
  BY PausesAre, ConstantsAssumption
<1>2. Lessened(p) \in [DOMAIN p -> 0..MaxPause] /\ DOMAIN Lessened(p) = DOMAIN p
  BY <1>1 DEF Lessened
<1>3. \A l \in DOMAIN p : Lessened(p)[l] = IF p[l] = 0 THEN 0 ELSE p[l] - 1
  BY DEF Lessened
<1> QED
  BY <1>1, <1>2, <1>3, PausesAre

\* What is left of a pause is a number.
LEMMA PauseIsNat ==
  ASSUME NEW p \in Pauses, NEW l \in DOMAIN p
  PROVE  p[l] \in 0..MaxPause /\ p[l] \in Nat /\ l \in Lanes
BY PausesAre, ConstantsAssumption

-----------------------------------------------------------------------------
(* Steps of one relay.                                                     *)

Phases == {"turn", "unpausing", "claiming", "starting", "recording", "clearing",
           "setting_aside", "handing_back", "idle", "returning", "returned"}

\* Nothing that is another's changes, but rows it may lose.
LeavesAlone(v) ==
  /\ at'[v] = at[v] /\ lane'[v] = lane[v] /\ batch'[v] = batch[v]
  /\ paused'[v] = paused[v] /\ record'[v] = record[v] /\ refused'[v] = refused[v]
  /\ \A r \in Rows : row'[r].by = v => row[r].by = v

LEMMA OthersStaySteady ==
  ASSUME NEW v \in Relays, Steady(v), LeavesAlone(v)
  PROVE  Steady(v)'
<1>1. EmptyBetweenTurns(v)' /\ LaneIsOpen(v)' /\ PauseIsThere(v)'
  BY DEF Steady, LeavesAlone, EmptyBetweenTurns, LaneIsOpen, PauseIsThere
<1>2. KnowsWhatItHolds(v)'
  BY DEF Steady, LeavesAlone, KnowsWhatItHolds
<1>3. RecordsTell(v)'
  BY DEF Steady, LeavesAlone, RecordsTell
<1> QED
  BY <1>1, <1>2, <1>3 DEF Steady

LEMMA StepKeepsInvariant ==
  ASSUME IInv, TypeOK', NEW w \in Relays, Steady(w)', \A v \in Relays \ {w} : LeavesAlone(v)
  PROVE  IInv'
BY OthersStaySteady DEF IInv

\* Only its place in the loop changes, and neither it nor where it was before is
\* one where a batch is held or a lane at issue.
Roams(w, phase) ==
  /\ Goes(w, phase) /\ at[w] \notin Holding \cup {"unpausing"} /\ phase \in Phases
  /\ phase \notin Holding \cup {"unpausing", "claiming"}

LEMMA RoamingIsSteady ==
  ASSUME IInv, NEW w \in Relays, NEW phase, Roams(w, phase),
         UNCHANGED <<row, record, lane, batch, paused, refused>>
  PROVE  Steady(w)' /\ (\A v \in Relays \ {w} : LeavesAlone(v)) /\ at' \in [Relays -> Phases]
<1>1. at \in [Relays -> Phases] /\ Steady(w)
  BY DEF IInv, TypeOK, Phases
<1>2. at'[w] = phase /\ at' \in [Relays -> Phases] /\ \A v \in Relays \ {w} : at'[v] = at[v]
  BY <1>1 DEF Roams, Goes
<1>3. EmptyBetweenTurns(w)' /\ KnowsWhatItHolds(w)' /\ LaneIsOpen(w)' /\ PauseIsThere(w)'
  BY <1>1, <1>2 DEF Roams, Holding, Steady, EmptyBetweenTurns, KnowsWhatItHolds, LaneIsOpen, PauseIsThere
<1>4. RecordsTell(w)'
  BY <1>1, <1>2 DEF Roams, Holding, Steady, RecordsTell
<1> QED
  BY <1>2, <1>3, <1>4 DEF LeavesAlone, Steady

LEMMA LaunchCorrect ==
  ASSUME IInv, NEW w \in Relays, Launch(w)
  PROVE  IInv'
<1>1. Roams(w, "turn") /\ UNCHANGED <<row, record, lane, batch, paused, refused>>
  BY DEF Launch, NewPass, Roams, Holding, Phases
<1>2. TypeOK'
  BY <1>1, RoamingIsSteady, ConstantsAssumption DEF IInv, TypeOK, Launch, NewPass, Phases
<1> QED
  BY <1>1, <1>2, RoamingIsSteady, StepKeepsInvariant

LEMMA PassCorrect ==
  ASSUME IInv, NEW w \in Relays, PassesSpent(w) \/ EndPass(w) \/ Idle(w)
  PROVE  IInv'
<1>1. PICK phase \in {"turn", "idle", "returning"} : Roams(w, phase)
  BY DEF PassesSpent, EndPass, Idle, NewPass, Roams, Holding, Phases
<1>2. UNCHANGED <<row, record, lane, batch, paused, stopping, waited, refused>>
  BY DEF PassesSpent, EndPass, Idle
<1>3. todo' \in [Relays -> SUBSET Lanes] /\ claimed' \in [Relays -> BOOLEAN]
  BY ConstantsAssumption DEF PassesSpent, EndPass, Idle, NewPass, IInv, TypeOK
<1>4. TypeOK'
  BY <1>1, <1>2, <1>3, RoamingIsSteady DEF IInv, TypeOK, Phases
<1> QED
  BY <1>1, <1>2, <1>4, RoamingIsSteady, StepKeepsInvariant

LEMMA TurnCorrect ==
  ASSUME IInv, NEW w \in Relays, Turn(w)
  PROVE  IInv'
<1>1. TypeOK /\ Steady(w) /\ at[w] = "turn" /\ todo[w] # {} /\ batch[w] = {}
  BY DEF IInv, Turn, Steady, EmptyBetweenTurns, Holding
<1>2. UNCHANGED <<row, record, claimed, batch, stopping, refused>>
  BY DEF Turn
<1>3. CASE Told(w)
  <2>1. Roams(w, "returning") /\ UNCHANGED <<lane, todo, paused, waited>>
    BY <1>1, <1>3 DEF Turn, Roams, Holding, Phases
  <2>2. TypeOK'
    BY <1>1, <1>2, <2>1, RoamingIsSteady DEF TypeOK, Phases
  <2> QED
    BY <1>2, <2>1, <2>2, RoamingIsSteady, StepKeepsInvariant
<1>4. CASE ~Told(w)
  <2> DEFINE l == Min(todo[w])
             over == l \in DOMAIN paused[w] /\ ~Ahead(w, l)
             next == IF Ahead(w, l) THEN "turn" ELSE IF over THEN "unpausing" ELSE "claiming"
             kept == IF over THEN Without(paused[w], {l}) ELSE paused[w]
  <2>1. l \in todo[w] /\ l \in Lanes
    <3>1. todo[w] \subseteq Lanes /\ Numbers(todo[w]) /\ IsFiniteSet(todo[w])
      BY <1>1, ConstantsAssumption, FS_Subset DEF TypeOK, Numbers
    <3> QED
      BY <1>1, <3>1, MinIsLeast
  <2>2. /\ lane' = [lane EXCEPT ![w] = l] /\ todo' = [todo EXCEPT ![w] = @ \ {l}]
        /\ waited' = [waited EXCEPT ![w][l] = 0] /\ at' = [at EXCEPT ![w] = next]
        /\ paused' = [paused EXCEPT ![w] = kept]
    <3>1. paused = [paused EXCEPT ![w] = paused[w]]
      BY <1>1 DEF TypeOK
    <3> QED
      BY <1>4, <3>1 DEF Turn, Goes
  <2>3. kept \in Pauses /\ paused[w] \in Pauses
    BY <1>1, WithoutIs DEF TypeOK
  <2>4. /\ DOMAIN kept = IF over THEN DOMAIN paused[w] \ {l} ELSE DOMAIN paused[w]
        /\ \A m \in DOMAIN kept : m \in DOMAIN paused[w] /\ kept[m] = paused[w][m]
    <3>1. /\ DOMAIN Without(paused[w], {l}) = DOMAIN paused[w] \ {l}
          /\ \A m \in DOMAIN Without(paused[w], {l}) : Without(paused[w], {l})[m] = paused[w][m]
      BY <2>3, WithoutIs
    <3>2. (over /\ kept = Without(paused[w], {l})) \/ (~over /\ kept = paused[w])
      OBVIOUS
    <3> HIDE DEF l, over, kept
    <3> QED
      BY <3>1, <3>2
  <2>5. next \in {"turn", "unpausing", "claiming"} /\ (next # "turn" => l \notin DOMAIN kept)
        /\ (next = "unpausing" <=> over)
        /\ (over => paused[w][l] = 0)
    <3>1. \A m \in DOMAIN paused[w] : paused[w][m] \in Nat
      BY <2>3, PauseIsNat
    <3> QED
      BY <2>4, <3>1 DEF Ahead
  <2> HIDE DEF l, over, next, kept
  <2>6. TypeOK'
    BY <1>1, <1>2, <2>1, <2>2, <2>3, <2>5 DEF TypeOK
  <2>7. at'[w] = next /\ lane'[w] = l /\ paused'[w] = kept /\ batch'[w] = {}
    BY <1>1, <1>2, <2>2 DEF TypeOK
  <2>8. EmptyBetweenTurns(w)' /\ LaneIsOpen(w)' /\ PauseIsThere(w)'
    BY <2>5, <2>7 DEF EmptyBetweenTurns, LaneIsOpen, PauseIsThere
  <2>9. KnowsWhatItHolds(w)'
    BY <1>1, <1>2 DEF Steady, KnowsWhatItHolds
  <2>10. RecordsTell(w)'
    <3> SUFFICES /\ \A m \in DOMAIN kept \ refused[w] :
                      /\ kept[m] > 0 => m \in DOMAIN record[w]
                      /\ m \in DOMAIN record[w] => record[w][m] = kept[m]
                 /\ \A m \in DOMAIN record[w] \ refused[w] :
                      m \in DOMAIN kept \/ (next = "unpausing" /\ m = l)
      BY <1>2, <2>5, <2>7 DEF RecordsTell
    <3>1. /\ \A m \in DOMAIN paused[w] \ refused[w] :
               /\ paused[w][m] > 0 => m \in DOMAIN record[w]
               /\ m \in DOMAIN record[w] => record[w][m] = paused[w][m]
          /\ \A m \in DOMAIN record[w] \ refused[w] : m \in DOMAIN paused[w]
      BY <1>1 DEF Steady, RecordsTell
    <3> QED
      BY <2>4, <2>5, <3>1
  <2>11. \A v \in Relays \ {w} : LeavesAlone(v)
    BY <1>1, <1>2, <2>2 DEF LeavesAlone, TypeOK
  <2>12. Steady(w)'
    BY <2>8, <2>9, <2>10 DEF Steady
  <2> QED
    BY <2>6, <2>11, <2>12, StepKeepsInvariant
<1> QED
  BY <1>3, <1>4

LEMMA UnpauseCorrect ==
  ASSUME IInv, NEW w \in Relays, Unpause(w)
  PROVE  IInv'
<1>1. TypeOK /\ Steady(w) /\ at[w] = "unpausing" /\ lane[w] \notin DOMAIN paused[w]
  BY DEF IInv, Unpause, Steady, LaneIsOpen
<1>2. at' = [at EXCEPT ![w] = "claiming"]
      /\ UNCHANGED <<row, lane, todo, claimed, batch, paused, stopping, waited>>
  BY DEF Unpause, Goes
<1> DEFINE less == Without(record[w], {lane[w]})
<1>3. \/ record' = [record EXCEPT ![w] = less] /\ refused' = [refused EXCEPT ![w] = @ \ {lane[w]}]
      \/ refused' = [refused EXCEPT ![w] = @ \cup {lane[w]}] /\ record' = record
  BY DEF Unpause, Writes, Refuses
<1>4. /\ less \in Pauses /\ DOMAIN less = DOMAIN record[w] \ {lane[w]}
      /\ \A m \in DOMAIN less : less[m] = record[w][m]
  <2>1. record[w] \in Pauses
    BY <1>1 DEF TypeOK
  <2>2. less \in Pauses
    BY <2>1, WithoutIs
  <2>3. DOMAIN less = DOMAIN record[w] \ {lane[w]}
    BY <2>1, WithoutIs
  <2>4. \A m \in DOMAIN less : less[m] = record[w][m]
    BY <2>1, WithoutIs
  <2> QED
    BY <2>2, <2>3, <2>4
<1> HIDE DEF less
<1>5. TypeOK'
  <2>1. record' \in [Relays -> Pauses]
    BY <1>1, <1>3, <1>4 DEF TypeOK
  <2>2. refused' \in [Relays -> SUBSET Lanes]
    <3>1. refused \in [Relays -> SUBSET Lanes] /\ lane[w] \in Lanes
      BY <1>1 DEF TypeOK
    <3>2. refused[w] \ {lane[w]} \in SUBSET Lanes /\ refused[w] \cup {lane[w]} \in SUBSET Lanes
      BY <3>1
    <3> QED
      BY <1>3, <3>1, <3>2
  <2> QED
    BY <1>1, <1>2, <2>1, <2>2 DEF TypeOK
<1>6. at'[w] = "claiming"
  BY <1>1, <1>2 DEF TypeOK
<1>7. EmptyBetweenTurns(w)' /\ LaneIsOpen(w)' /\ PauseIsThere(w)'
  BY <1>1, <1>2, <1>6 DEF Steady, EmptyBetweenTurns, LaneIsOpen, PauseIsThere, Holding
<1>8. KnowsWhatItHolds(w)'
  BY <1>1, <1>2 DEF Steady, KnowsWhatItHolds
<1>9. RecordsTell(w)'
  <2>1. /\ \A m \in DOMAIN paused[w] \ refused[w] :
             /\ paused[w][m] > 0 => m \in DOMAIN record[w]
             /\ m \in DOMAIN record[w] => record[w][m] = paused[w][m]
        /\ \A m \in DOMAIN record[w] \ refused[w] : m \in DOMAIN paused[w] \/ m = lane[w]
    BY <1>1 DEF Steady, RecordsTell
  <2>2. \/ record'[w] = less /\ refused'[w] = refused[w] \ {lane[w]}
        \/ record'[w] = record[w] /\ refused'[w] = refused[w] \cup {lane[w]}
    BY <1>1, <1>3 DEF TypeOK
  <2>3. /\ \A m \in DOMAIN paused[w] \ refused'[w] :
             /\ paused[w][m] > 0 => m \in DOMAIN record'[w]
             /\ m \in DOMAIN record'[w] => record'[w][m] = paused[w][m]
        /\ \A m \in DOMAIN record'[w] \ refused'[w] : m \in DOMAIN paused[w]
    BY <1>1, <1>4, <2>1, <2>2
  <2> QED
    BY <1>2, <1>6, <2>3 DEF RecordsTell
<1>10. \A v \in Relays \ {w} : LeavesAlone(v)
  BY <1>1, <1>2, <1>3 DEF LeavesAlone, TypeOK
<1> QED
  BY <1>5, <1>7, <1>8, <1>9, <1>10, StepKeepsInvariant DEF Steady

-----------------------------------------------------------------------------
(* Claims and batches.                                                     *)

LEMMA ClaimedForIs ==
  ASSUME TypeOK, NEW w \in Relays, NEW S \in Batches(w) \cup {{}},
         NEW status \in {"held", "left"}, NEW hands \in {w, Nobody}, ClaimedFor(S, status, hands)
  PROVE  /\ S \in SUBSET Rows /\ \A r \in S : LaneOf[r] = lane[w]
         /\ row' \in [Rows -> DeliveryRecord]
         /\ \A r \in S : row'[r].by = hands
         /\ \A r \in Rows \ S : row'[r] = row[r]
<1>1. S \in SUBSET Rows /\ \A r \in S : LaneOf[r] = lane[w]
  BY DEF Batches
<1>2. row' = [r \in Rows |-> IF r \in S THEN [status |-> status, by |-> hands] ELSE row[r]]
  BY DEF ClaimedFor
<1>3. [status |-> status, by |-> hands] \in DeliveryRecord
  BY DEF DeliveryRecord
<1> QED
  BY <1>1, <1>2, <1>3 DEF TypeOK

LEMMA ClaimCorrect ==
  ASSUME IInv, NEW w \in Relays, NEW S, Claim(w, S)
  PROVE  IInv'
<1>1. TypeOK /\ Steady(w) /\ at[w] = "claiming"
  BY DEF IInv, Claim
<1>2. /\ S \in SUBSET Rows /\ \A r \in S : LaneOf[r] = lane[w]
      /\ row' \in [Rows -> DeliveryRecord]
      /\ \A r \in S : row'[r].by = w
      /\ \A r \in Rows \ S : row'[r] = row[r]
  <2>1. S \in Batches(w) \cup {{}} /\ ClaimedFor(S, "held", w)
    BY DEF Claim
  <2> QED
    BY <1>1, <2>1, ClaimedForIs
<1>3. /\ batch' = [batch EXCEPT ![w] = S] /\ claimed' = [claimed EXCEPT ![w] = @ \/ S # {}]
      /\ at' = [at EXCEPT ![w] = "starting"]
      /\ UNCHANGED <<record, lane, todo, paused, stopping, waited, refused>>
  BY DEF Claim, Goes
<1>4. claimed' \in [Relays -> BOOLEAN]
  BY <1>1, <1>3 DEF TypeOK
<1>5. batch' \in [Relays -> SUBSET Rows] /\ batch'[w] = S /\ at'[w] = "starting"
      /\ \A v \in Relays \ {w} : batch'[v] = batch[v] /\ at'[v] = at[v]
  BY <1>1, <1>2, <1>3 DEF TypeOK
<1>6. \A v \in Relays : \A r \in batch'[v] : LaneOf[r] = lane'[v]
  BY <1>1, <1>2, <1>3, <1>5 DEF TypeOK
<1>7. TypeOK'
  BY <1>1, <1>2, <1>3, <1>4, <1>5, <1>6 DEF TypeOK
<1>8. batch[w] = {} /\ lane[w] \notin DOMAIN paused[w]
  BY <1>1 DEF Steady, EmptyBetweenTurns, LaneIsOpen, Holding
<1>9. EmptyBetweenTurns(w)' /\ LaneIsOpen(w)' /\ PauseIsThere(w)'
  BY <1>3, <1>5, <1>8 DEF EmptyBetweenTurns, LaneIsOpen, PauseIsThere, Holding
<1>10. KnowsWhatItHolds(w)'
  BY <1>1, <1>2, <1>5, <1>8 DEF Steady, KnowsWhatItHolds
<1>11. RecordsTell(w)'
  BY <1>1, <1>3, <1>5 DEF Steady, RecordsTell
<1>12. \A v \in Relays \ {w} : LeavesAlone(v)
  BY <1>2, <1>3, <1>5 DEF LeavesAlone
<1> QED
  BY <1>7, <1>9, <1>10, <1>11, <1>12, StepKeepsInvariant DEF Steady

LEMMA ClaimFailsCorrect ==
  ASSUME IInv, NEW w \in Relays, ClaimFails(w)
  PROVE  IInv'
<1>1. TypeOK /\ Steady(w) /\ at[w] = "claiming"
  BY DEF IInv, ClaimFails
<1>2. PICK S \in Batches(w) \cup {{}} : ClaimedFor(S, "left", Nobody)
  BY DEF ClaimFails
<1>3. row' \in [Rows -> DeliveryRecord] /\ \A r \in Rows : row'[r] = row[r] \/ row'[r].by = Nobody
  BY <1>1, <1>2, ClaimedForIs
<1>4. /\ waited' = [waited EXCEPT ![w] = [l \in Lanes |-> 0]]
      /\ UNCHANGED <<record, lane, batch, paused, stopping, refused>>
  BY DEF ClaimFails
<1>5. PICK phase \in {"turn", "returning"} : at' = [at EXCEPT ![w] = phase]
  BY DEF ClaimFails, NewPass, Goes
<1>6. todo' \in [Relays -> SUBSET Lanes] /\ claimed' \in [Relays -> BOOLEAN]
  BY <1>1, ConstantsAssumption DEF ClaimFails, NewPass, TypeOK
<1>7. at' \in [Relays -> Phases] /\ at'[w] = phase /\ \A v \in Relays \ {w} : at'[v] = at[v]
  BY <1>1, <1>5 DEF TypeOK, Phases
<1>8. TypeOK'
  BY <1>1, <1>3, <1>4, <1>6, <1>7 DEF TypeOK, Phases
<1>9. EmptyBetweenTurns(w)' /\ LaneIsOpen(w)' /\ PauseIsThere(w)'
  BY <1>1, <1>4, <1>7 DEF Steady, EmptyBetweenTurns, LaneIsOpen, PauseIsThere, Holding
<1>10. KnowsWhatItHolds(w)' /\ RecordsTell(w)'
  BY <1>1, <1>3, <1>4, <1>7, ConstantsAssumption DEF Steady, KnowsWhatItHolds, RecordsTell
<1>11. \A v \in Relays \ {w} : LeavesAlone(v)
  BY <1>3, <1>4, <1>7, ConstantsAssumption DEF LeavesAlone
<1> QED
  BY <1>8, <1>9, <1>10, <1>11, StepKeepsInvariant DEF Steady

LEMMA LeaveCorrect ==
  ASSUME IInv, NEW w \in Relays, Leave(w)
  PROVE  IInv'
<1>1. TypeOK /\ Steady(w) /\ at[w] = "starting"
  BY DEF IInv, Leave
<1>2. PICK phase \in {"turn", "handing_back"} :
        at' = [at EXCEPT ![w] = phase] /\ (phase = "turn" => batch[w] = {})
  BY DEF Leave, Goes, AfterBatch
<1>3. UNCHANGED <<row, record, lane, todo, claimed, batch, paused, stopping, waited, refused>>
  BY DEF Leave
<1>4. TypeOK' /\ at'[w] = phase
  BY <1>1, <1>2, <1>3 DEF TypeOK
<1>5. EmptyBetweenTurns(w)' /\ LaneIsOpen(w)' /\ PauseIsThere(w)'
  BY <1>2, <1>3, <1>4 DEF EmptyBetweenTurns, LaneIsOpen, PauseIsThere, Holding
<1>6. KnowsWhatItHolds(w)' /\ RecordsTell(w)'
  BY <1>1, <1>2, <1>3, <1>4 DEF Steady, KnowsWhatItHolds, RecordsTell
<1>7. \A v \in Relays \ {w} : LeavesAlone(v)
  BY <1>1, <1>2, <1>3 DEF LeavesAlone, TypeOK
<1> QED
  BY <1>4, <1>5, <1>6, <1>7, StepKeepsInvariant DEF Steady

LEMMA StartsIs ==
  ASSUME TypeOK, NEW w \in Relays, NEW r \in Rows, Starts(w, r)
  PROVE  /\ at[w] = "starting" /\ r \in batch[w] /\ LaneOf[r] = lane[w]
         /\ batch' \in [Relays -> SUBSET Rows] /\ waited' \in [Relays -> [Lanes -> Nat]]
         /\ batch'[w] = batch[w] \ {r} /\ \A v \in Relays \ {w} : batch'[v] = batch[v]
         /\ \A v \in Relays : \A q \in batch'[v] : LaneOf[q] = lane[v]
         /\ UNCHANGED <<record, lane, todo, claimed, stopping>>
<1>1. at[w] = "starting" /\ r \in batch[w] /\ batch' = [batch EXCEPT ![w] = @ \ {r}]
      /\ waited' = [waited EXCEPT ![w] =
                      [l \in Lanes |-> IF l = lane[w] THEN @[l] ELSE @[l] + 1]]
      /\ UNCHANGED <<record, lane, todo, claimed, stopping>>
  BY DEF Starts
<1>2. batch' \in [Relays -> SUBSET Rows] /\ batch'[w] = batch[w] \ {r}
      /\ \A v \in Relays \ {w} : batch'[v] = batch[v]
  BY <1>1 DEF TypeOK
<1>3. waited' \in [Relays -> [Lanes -> Nat]]
  <2> DEFINE more == [l \in Lanes |-> IF l = lane[w] THEN waited[w][l] ELSE waited[w][l] + 1]
  <2>1. more \in [Lanes -> Nat] /\ waited' = [waited EXCEPT ![w] = more]
    BY <1>1 DEF TypeOK
  <2> HIDE DEF more
  <2> QED
    BY <2>1 DEF TypeOK
<1> QED
  BY <1>1, <1>2, <1>3 DEF TypeOK

\* A row is started and the relay goes on with its batch.
LEMMA StartedCorrect ==
  ASSUME IInv, NEW w \in Relays, NEW r \in Rows, Starts(w, r), UNCHANGED <<at, paused, refused>>,
         row' \in [Rows -> DeliveryRecord], \A q \in Rows \ {r} : row'[q] = row[q],
         row'[r].by # w, row'[r] = row[r] \/ row'[r].by = Nobody
  PROVE  IInv'
<1>1. TypeOK /\ Steady(w)
  BY DEF IInv
<1>2. /\ at[w] = "starting" /\ batch'[w] = batch[w] \ {r} /\ UNCHANGED <<record, lane>>
      /\ \A v \in Relays \ {w} : batch'[v] = batch[v]
  BY <1>1, StartsIs
<1>3. TypeOK'
  BY <1>1, StartsIs DEF TypeOK
<1>4. EmptyBetweenTurns(w)' /\ LaneIsOpen(w)' /\ PauseIsThere(w)'
  BY <1>1, <1>2 DEF Steady, EmptyBetweenTurns, LaneIsOpen, PauseIsThere, Holding
<1>5. \A v \in Relays \ {w} : LeavesAlone(v)
  BY <1>2, ConstantsAssumption DEF LeavesAlone
<1>6. KnowsWhatItHolds(w)'
  BY <1>1, <1>2 DEF Steady, KnowsWhatItHolds
<1>7. RecordsTell(w)'
  BY <1>1, <1>2 DEF Steady, RecordsTell
<1> QED
  BY <1>3, <1>4, <1>5, <1>6, <1>7, StepKeepsInvariant DEF Steady

\* What becomes of a row that goes from the relay's hands.
LEMMA EndsIs ==
  ASSUME TypeOK, NEW w \in Relays, NEW r \in Rows,
         NEW status \in {"free", "queued", "left", "waiting", "settled"}, Ends(w, r, status)
  PROVE  /\ Starts(w, r) /\ row' \in [Rows -> DeliveryRecord]
         /\ row'[r].by = Nobody /\ row'[r].by # w
         /\ \A q \in Rows \ {r} : row'[q] = row[q]
<1>1. [status |-> status, by |-> Nobody] \in DeliveryRecord
  BY DEF DeliveryRecord
<1>2. Starts(w, r) /\ row' = [row EXCEPT ![r] = [status |-> status, by |-> Nobody]]
  BY DEF Ends
<1>3. row' \in [Rows -> DeliveryRecord] /\ row'[r].by = Nobody /\ \A q \in Rows \ {r} : row'[q] = row[q]
  BY <1>1, <1>2 DEF TypeOK
<1> QED
  BY <1>2, <1>3, ConstantsAssumption

\* Delivered, handed to a queue, lost to another worker or given up.
LEMMA PassedOnCorrect ==
  ASSUME IInv, NEW w \in Relays, NEW r \in Rows,
         Deliver(w, r) \/ HandOff(w, r) \/ Lose(w, r) \/ Survive(w, r)
  PROVE  IInv'
<1>1. TypeOK /\ UNCHANGED <<at, paused, refused>>
  BY DEF IInv, Deliver, HandOff, Lose, Survive
<1>2. CASE Starts(w, r) /\ row[r].by # w /\ UNCHANGED row
  BY <1>1, <1>2, StartedCorrect DEF TypeOK
<1>3. ASSUME NEW status \in {"free", "queued", "left", "waiting", "settled"}, Ends(w, r, status)
      PROVE  IInv'
  BY <1>1, <1>3, EndsIs, StartedCorrect
<1> QED
  BY <1>2, <1>3 DEF Deliver, HandOff, Lose, Survive

LEMMA DeferCorrect ==
  ASSUME IInv, NEW w \in Relays, NEW r \in Rows, Defer(w, r)
  PROVE  IInv'
<1>1. TypeOK /\ Steady(w) /\ Ends(w, r, "waiting") /\ Starts(w, r) /\ refused' = refused
  BY DEF IInv, Defer, Ends
<1>2. /\ at[w] = "starting" /\ r \in batch[w] /\ LaneOf[r] = lane[w] /\ batch'[w] = batch[w] \ {r}
      /\ UNCHANGED <<record, lane>> /\ \A v \in Relays \ {w} : batch'[v] = batch[v]
  BY <1>1, StartsIs
<1>3. PICK s \in 1..MaxPause : paused' = [paused EXCEPT ![w] = With(paused[w], lane[w], s)]
  BY <1>2 DEF Defer
<1> DEFINE more == With(paused[w], lane[w], s)
<1>4. /\ more \in Pauses /\ DOMAIN more = DOMAIN paused[w] \cup {lane[w]}
      /\ \A m \in DOMAIN paused[w] \ {lane[w]} : more[m] = paused[w][m]
  <2>1. s \in 0..MaxPause
    BY ConstantsAssumption
  <2>2. paused[w] \in Pauses /\ lane[w] \in Lanes
    BY <1>1 DEF TypeOK
  <2>3. PICK l \in Lanes : l = lane[w]
    BY <2>2
  <2>4. /\ With(paused[w], l, s) \in Pauses
        /\ DOMAIN With(paused[w], l, s) = DOMAIN paused[w] \cup {l}
        /\ \A m \in DOMAIN paused[w] \ {l} : With(paused[w], l, s)[m] = paused[w][m]
    BY <2>1, <2>2, WithIs
  <2> QED
    BY <2>3, <2>4
<1> HIDE DEF more
<1>5. /\ row' \in [Rows -> DeliveryRecord] /\ row'[r].by = Nobody /\ row'[r].by # w
      /\ \A q \in Rows \ {r} : row'[q] = row[q]
  BY <1>1, EndsIs
<1>6. at' = [at EXCEPT ![w] = "recording"]
  BY DEF Defer, Goes
<1>7. /\ paused' \in [Relays -> Pauses] /\ paused'[w] = more /\ at'[w] = "recording"
      /\ \A v \in Relays \ {w} : paused'[v] = paused[v] /\ at'[v] = at[v]
  BY <1>1, <1>3, <1>4, <1>6 DEF TypeOK, more
<1>8. TypeOK'
  <2>1. /\ batch' \in [Relays -> SUBSET Rows] /\ waited' \in [Relays -> [Lanes -> Nat]]
        /\ \A v \in Relays : \A q \in batch'[v] : LaneOf[q] = lane[v]
        /\ UNCHANGED <<record, lane, todo, claimed, stopping>>
    BY <1>1, StartsIs
  <2>2. at' \in [Relays -> {"turn", "unpausing", "claiming", "starting", "recording", "clearing",
                            "setting_aside", "handing_back", "idle", "returning", "returned"}]
    BY <1>1, <1>6 DEF TypeOK
  <2> QED
    BY <1>1, <1>5, <1>7, <2>1, <2>2 DEF TypeOK
<1>9. EmptyBetweenTurns(w)' /\ LaneIsOpen(w)' /\ PauseIsThere(w)'
  BY <1>2, <1>4, <1>7 DEF EmptyBetweenTurns, LaneIsOpen, PauseIsThere, Holding
<1>10. KnowsWhatItHolds(w)'
  BY <1>1, <1>2, <1>5 DEF Steady, KnowsWhatItHolds
<1>11. RecordsTell(w)'
  <2> SUFFICES /\ \A m \in DOMAIN more \ refused[w] : m # lane[w] =>
                    /\ more[m] > 0 => m \in DOMAIN record[w]
                    /\ m \in DOMAIN record[w] => record[w][m] = more[m]
               /\ \A m \in DOMAIN record[w] \ refused[w] : m \in DOMAIN more
    BY <1>1, <1>2, <1>7 DEF RecordsTell
  <2>1. /\ \A m \in DOMAIN paused[w] \ refused[w] :
             /\ paused[w][m] > 0 => m \in DOMAIN record[w]
             /\ m \in DOMAIN record[w] => record[w][m] = paused[w][m]
        /\ \A m \in DOMAIN record[w] \ refused[w] : m \in DOMAIN paused[w]
    BY <1>1, <1>2 DEF Steady, RecordsTell
  <2> QED
    BY <1>4, <2>1
<1>12. \A v \in Relays \ {w} : LeavesAlone(v)
  BY <1>1, <1>2, <1>5, <1>7, ConstantsAssumption DEF LeavesAlone
<1> QED
  BY <1>8, <1>9, <1>10, <1>11, <1>12, StepKeepsInvariant DEF Steady

-----------------------------------------------------------------------------
(* A pause, and the way out.                                               *)

LEMMA RecordPauseCorrect ==
  ASSUME IInv, NEW w \in Relays, RecordPause(w)
  PROVE  IInv'
<1>1. TypeOK /\ Steady(w) /\ at[w] = "recording" /\ lane[w] \in DOMAIN paused[w]
  BY DEF IInv, RecordPause, Steady, PauseIsThere
<1>2. UNCHANGED <<row, lane, todo, claimed, batch, paused, stopping, waited>>
  BY DEF RecordPause
<1>3. PICK l \in Lanes : l = lane[w]
  BY <1>1 DEF TypeOK
<1> DEFINE s == paused[w][l]
           more == With(record[w], l, s)
<1>4. /\ more \in Pauses /\ DOMAIN more = DOMAIN record[w] \cup {l} /\ more[l] = s
      /\ \A m \in DOMAIN record[w] \ {l} : more[m] = record[w][m]
  <2>1. record[w] \in Pauses /\ paused[w] \in Pauses
    BY <1>1 DEF TypeOK
  <2>2. s \in 0..MaxPause
    BY <1>1, <1>3, <2>1, PauseIsNat
  <2> HIDE DEF s
  <2> QED
    BY <2>1, <2>2, WithIs
<1>5. \/ /\ record' = [record EXCEPT ![w] = more] /\ refused' = [refused EXCEPT ![w] = @ \ {l}]
         /\ at' = [at EXCEPT ![w] = "clearing"]
      \/ /\ refused' = [refused EXCEPT ![w] = @ \cup {l}] /\ record' = record
         /\ at' = [at EXCEPT ![w] = "setting_aside"]
  BY <1>3 DEF RecordPause, Goes, Writes, Refuses
<1> HIDE DEF s, more
<1>6. /\ at' \in [Relays -> Phases] /\ at'[w] \in {"clearing", "setting_aside"}
      /\ \A v \in Relays \ {w} : at'[v] = at[v]
  BY <1>1, <1>5 DEF TypeOK, Phases
<1>7. record' \in [Relays -> Pauses] /\ \A v \in Relays \ {w} : record'[v] = record[v]
  BY <1>1, <1>4, <1>5 DEF TypeOK
<1>8. refused' \in [Relays -> SUBSET Lanes] /\ \A v \in Relays \ {w} : refused'[v] = refused[v]
  BY <1>1, <1>5 DEF TypeOK
<1>9. TypeOK'
  BY <1>1, <1>2, <1>6, <1>7, <1>8 DEF TypeOK, Phases
<1>10. EmptyBetweenTurns(w)' /\ LaneIsOpen(w)' /\ PauseIsThere(w)'
  BY <1>6 DEF EmptyBetweenTurns, LaneIsOpen, PauseIsThere, Holding
<1>11. \A v \in Relays \ {w} : LeavesAlone(v)
  BY <1>2, <1>6, <1>7, <1>8 DEF LeavesAlone
<1>12. KnowsWhatItHolds(w)'
  BY <1>1, <1>2 DEF Steady, KnowsWhatItHolds
<1>13. RecordsTell(w)'
  <2>1. /\ \A m \in DOMAIN paused[w] \ refused[w] : m # l =>
             /\ paused[w][m] > 0 => m \in DOMAIN record[w]
             /\ m \in DOMAIN record[w] => record[w][m] = paused[w][m]
        /\ \A m \in DOMAIN record[w] \ refused[w] : m \in DOMAIN paused[w]
    BY <1>1, <1>3 DEF Steady, RecordsTell
  <2>2. \/ record'[w] = more /\ refused'[w] = refused[w] \ {l}
        \/ record'[w] = record[w] /\ refused'[w] = refused[w] \cup {l}
    BY <1>1, <1>5 DEF TypeOK
  <2>3. /\ \A m \in DOMAIN paused[w] \ refused'[w] :
             /\ paused[w][m] > 0 => m \in DOMAIN record'[w]
             /\ m \in DOMAIN record'[w] => record'[w][m] = paused[w][m]
        /\ \A m \in DOMAIN record'[w] \ refused'[w] : m \in DOMAIN paused[w]
    BY <1>1, <1>3, <1>4, <2>1, <2>2 DEF s
  <2> QED
    BY <1>2, <1>6, <2>3 DEF RecordsTell
<1> QED
  BY <1>9, <1>10, <1>11, <1>12, <1>13, StepKeepsInvariant DEF Steady

\* A sweep of the passed records: whoever wrote them.
LEMMA ClearPassedCorrect ==
  ASSUME IInv, NEW w \in Relays, ClearPassed(w)
  PROVE  IInv'
<1>1. TypeOK /\ (\A v \in Relays : Steady(v)) /\ at[w] = "clearing"
  BY DEF IInv, ClearPassed
<1>2. at' = [at EXCEPT ![w] = "setting_aside"]
      /\ UNCHANGED <<row, lane, todo, claimed, batch, paused, stopping, waited, refused>>
  BY DEF ClearPassed, Goes
<1>3. /\ at' \in [Relays -> Phases] /\ at'[w] = "setting_aside"
      /\ \A v \in Relays \ {w} : at'[v] = at[v]
  BY <1>1, <1>2 DEF TypeOK, Phases
<1>4. \A v \in Relays : EmptyBetweenTurns(v)' /\ LaneIsOpen(v)' /\ PauseIsThere(v)'
  BY <1>1, <1>2, <1>3 DEF Steady, EmptyBetweenTurns, LaneIsOpen, PauseIsThere, Holding
<1>5. PICK S \in [Relays -> SUBSET Lanes] :
        /\ \A v \in Relays : S[v] \subseteq Passed(w, v)
        /\ record' = [v \in Relays |-> Without(record[v], S[v])]
  BY DEF ClearPassed
<1>6. \A v \in Relays : /\ record[v] \in Pauses /\ paused[v] \in Pauses
                        /\ record'[v] = Without(record[v], S[v])
  BY <1>1, <1>5 DEF TypeOK
<1>7. ASSUME NEW v \in Relays
      PROVE  /\ record'[v] \in Pauses
             /\ DOMAIN record'[v] = DOMAIN record[v] \ S[v]
             /\ \A m \in DOMAIN record'[v] : record'[v][m] = record[v][m]
  <2>1. PICK p \in Pauses : p = record[v]
    BY <1>6
  <2>2. record'[v] = Without(p, S[v])
    BY <1>6, <2>1
  <2>3. /\ Without(p, S[v]) \in Pauses
        /\ DOMAIN Without(p, S[v]) = DOMAIN p \ S[v]
        /\ \A m \in DOMAIN Without(p, S[v]) : Without(p, S[v])[m] = p[m]
    BY WithoutIs
  <2> QED
    BY <2>1, <2>2, <2>3
<1>8. record' \in [Relays -> Pauses]
  BY <1>5, <1>6, <1>7
<1>9. TypeOK'
  BY <1>1, <1>2, <1>3, <1>8 DEF TypeOK, Phases
<1>10. ASSUME NEW v \in Relays PROVE RecordsTell(v)'
  <2> SUFFICES /\ \A m \in DOMAIN paused[v] \ refused[v] : ~(at[v] = "recording" /\ m = lane[v]) =>
                    /\ paused[v][m] > 0 => m \in DOMAIN record'[v]
                    /\ m \in DOMAIN record'[v] => record'[v][m] = paused[v][m]
               /\ \A m \in DOMAIN record'[v] \ refused[v] :
                    m \in DOMAIN paused[v] \/ (at[v] = "unpausing" /\ m = lane[v])
    BY <1>1, <1>2, <1>3 DEF RecordsTell
  <2>1. /\ \A m \in DOMAIN paused[v] \ refused[v] : ~(at[v] = "recording" /\ m = lane[v]) =>
             /\ paused[v][m] > 0 => m \in DOMAIN record[v]
             /\ m \in DOMAIN record[v] => record[v][m] = paused[v][m]
        /\ \A m \in DOMAIN record[v] \ refused[v] :
             m \in DOMAIN paused[v] \/ (at[v] = "unpausing" /\ m = lane[v])
    BY <1>1 DEF Steady, RecordsTell
  <2>2. \A m \in S[v] : record[v][m] = 0
    BY <1>5 DEF Passed
  <2> QED
    BY <1>7, <2>1, <2>2
<1>11. \A v \in Relays : KnowsWhatItHolds(v)'
  BY <1>1, <1>2 DEF Steady, KnowsWhatItHolds
<1> QED
  BY <1>4, <1>9, <1>10, <1>11 DEF IInv, Steady

\* The rows of its batch go from its hands, and nobody's come into anyone's.
LEMMA GivenUpIs ==
  ASSUME IInv, NEW w \in Relays, NEW status \in {"free", "left"}, GivenUp(w, status)
  PROVE  /\ row' \in [Rows -> DeliveryRecord]
         /\ \A r \in Rows : row'[r].by # w /\ (row'[r] = row[r] \/ row'[r].by = Nobody)
<1> DEFINE to(r) == [status |-> IF row[r].status = "held" THEN status ELSE "free", by |-> Nobody]
<1>1. row' = [r \in Rows |-> IF GivenBack(w, r) THEN to(r) ELSE row[r]]
  BY DEF GivenUp
<1>2. \A r \in Rows : to(r) \in DeliveryRecord /\ to(r).by = Nobody
  BY DEF DeliveryRecord
<1>3. \A r \in Rows : row[r].by = w => GivenBack(w, r)
  BY DEF IInv, Steady, KnowsWhatItHolds, GivenBack
<1> HIDE DEF to
<1>4. row' \in [Rows -> DeliveryRecord]
  BY <1>1, <1>2 DEF IInv, TypeOK
<1> QED
  BY <1>1, <1>2, <1>3, <1>4, ConstantsAssumption

LEMMA HandBackCorrect ==
  ASSUME IInv, NEW w \in Relays, HandBack(w)
  PROVE  IInv'
<1>1. TypeOK /\ Steady(w) /\ at[w] \in {"setting_aside", "handing_back"}
  BY DEF IInv, HandBack
<1>2. PICK phase \in {"turn", "returning"} : at' = [at EXCEPT ![w] = phase]
  BY DEF HandBack, Goes
<1>3. batch' = [batch EXCEPT ![w] = {}]
      /\ UNCHANGED <<record, lane, todo, claimed, paused, stopping, waited, refused>>
  BY DEF HandBack
<1>4. /\ row' \in [Rows -> DeliveryRecord]
      /\ \A r \in Rows : row'[r].by # w /\ (row'[r] = row[r] \/ row'[r].by = Nobody)
  BY GivenUpIs DEF HandBack
<1>5. /\ at'[w] = phase /\ batch'[w] = {}
      /\ \A v \in Relays \ {w} : at'[v] = at[v] /\ batch'[v] = batch[v]
  BY <1>1, <1>2, <1>3 DEF TypeOK
<1>6. TypeOK'
  <2>1. at' \in [Relays -> Phases] /\ batch' \in [Relays -> SUBSET Rows]
    BY <1>1, <1>2, <1>3 DEF TypeOK, Phases
  <2>2. \A v \in Relays : \A r \in batch'[v] : LaneOf[r] = lane[v]
    BY <1>1, <1>5 DEF TypeOK
  <2> QED
    BY <1>1, <1>3, <1>4, <2>1, <2>2 DEF TypeOK, Phases
<1>7. EmptyBetweenTurns(w)' /\ LaneIsOpen(w)' /\ PauseIsThere(w)'
  BY <1>5 DEF EmptyBetweenTurns, LaneIsOpen, PauseIsThere
<1>8. KnowsWhatItHolds(w)' /\ RecordsTell(w)'
  BY <1>1, <1>3, <1>4, <1>5 DEF Steady, KnowsWhatItHolds, RecordsTell
<1>9. \A v \in Relays \ {w} : LeavesAlone(v)
  BY <1>3, <1>4, <1>5, ConstantsAssumption DEF LeavesAlone
<1> QED
  BY <1>6, <1>7, <1>8, <1>9, StepKeepsInvariant DEF Steady

\* It ends, with its records deleted or not.
LEMMA EndedCorrect ==
  ASSUME IInv, NEW w \in Relays, row' \in [Rows -> DeliveryRecord],
         \A r \in Rows : row'[r].by # w /\ (row'[r] = row[r] \/ row'[r].by = Nobody),
         at' = [at EXCEPT ![w] = "returned"], paused' = [paused EXCEPT ![w] = NoPauses],
         batch' = [batch EXCEPT ![w] = {}], NEW p \in Pauses, record' = [record EXCEPT ![w] = p],
         refused' = [refused EXCEPT ![w] = DOMAIN p], UNCHANGED <<lane, todo, claimed, stopping, waited>>
  PROVE  IInv'
<1>1. TypeOK
  BY DEF IInv
<1>2. DOMAIN p \subseteq Lanes
  BY PausesAre
<1>3. /\ at' \in [Relays -> Phases] /\ batch' \in [Relays -> SUBSET Rows]
      /\ paused' \in [Relays -> Pauses] /\ record' \in [Relays -> Pauses]
  BY <1>1, NoPausesIs DEF TypeOK, Phases
<1>4. refused' \in [Relays -> SUBSET Lanes]
  BY <1>1, <1>2 DEF TypeOK
<1>5. /\ at'[w] = "returned" /\ batch'[w] = {} /\ paused'[w] = NoPauses
      /\ record'[w] = p /\ refused'[w] = DOMAIN p
      /\ \A v \in Relays \ {w} : /\ at'[v] = at[v] /\ batch'[v] = batch[v] /\ paused'[v] = paused[v]
                                 /\ record'[v] = record[v] /\ refused'[v] = refused[v]
  BY <1>1 DEF TypeOK
<1>6. \A v \in Relays : \A r \in batch'[v] : LaneOf[r] = lane[v]
  BY <1>1, <1>5 DEF TypeOK
<1>7. TypeOK'
  BY <1>1, <1>3, <1>4, <1>6 DEF TypeOK, Phases
<1>8. EmptyBetweenTurns(w)' /\ LaneIsOpen(w)' /\ PauseIsThere(w)' /\ KnowsWhatItHolds(w)'
  BY <1>5 DEF EmptyBetweenTurns, LaneIsOpen, PauseIsThere, KnowsWhatItHolds
<1>9. RecordsTell(w)'
  BY <1>5, NoPausesIs DEF RecordsTell
<1>10. \A v \in Relays \ {w} : LeavesAlone(v)
  BY <1>5, ConstantsAssumption DEF LeavesAlone
<1> QED
  BY <1>7, <1>8, <1>9, <1>10, StepKeepsInvariant DEF Steady

LEMMA ReturnCorrect ==
  ASSUME IInv, NEW w \in Relays, Return(w)
  PROVE  IInv'
<1>1. TypeOK /\ Steady(w) /\ at[w] = "returning" /\ record[w] \in Pauses
  BY DEF IInv, Return, TypeOK
<1>2. batch[w] = {} /\ batch = [batch EXCEPT ![w] = {}]
  BY <1>1 DEF Steady, EmptyBetweenTurns, Holding, TypeOK
<1>3. PICK p \in Pauses : record' = [record EXCEPT ![w] = p]
  <2>1. Without(record[w], DOMAIN paused[w]) \in Pauses
    BY <1>1, WithoutIs
  <2>2. record = [record EXCEPT ![w] = record[w]]
    BY <1>1 DEF TypeOK
  <2> QED
    BY <1>1, <2>1, <2>2 DEF Return
<1>4. record'[w] = p
  BY <1>1, <1>3 DEF TypeOK
<1>5. \A r \in Rows : row[r].by # w
  BY <1>1, <1>2 DEF Steady, KnowsWhatItHolds
<1>6. /\ at' = [at EXCEPT ![w] = "returned"] /\ paused' = [paused EXCEPT ![w] = NoPauses]
      /\ refused' = [refused EXCEPT ![w] = DOMAIN p] /\ batch' = [batch EXCEPT ![w] = {}]
      /\ UNCHANGED <<row, lane, todo, claimed, stopping, waited>>
  BY <1>2, <1>4 DEF Return, Goes
<1> QED
  BY <1>1, <1>3, <1>5, <1>6, EndedCorrect DEF TypeOK

LEMMA CrashCorrect ==
  ASSUME IInv, NEW w \in Relays, Crash(w)
  PROVE  IInv'
<1>1. TypeOK
  BY DEF IInv
<1>2. PICK p \in Pauses : p = record[w]
  BY <1>1 DEF TypeOK
<1>3. /\ at' = [at EXCEPT ![w] = "returned"] /\ paused' = [paused EXCEPT ![w] = NoPauses]
      /\ record' = [record EXCEPT ![w] = p] /\ refused' = [refused EXCEPT ![w] = DOMAIN p]
      /\ batch' = [batch EXCEPT ![w] = {}]
      /\ UNCHANGED <<lane, todo, claimed, stopping, waited>>
  BY <1>1, <1>2 DEF Crash, Goes, TypeOK
<1>4. /\ row' \in [Rows -> DeliveryRecord]
      /\ \A r \in Rows : row'[r].by # w /\ (row'[r] = row[r] \/ row'[r].by = Nobody)
  BY GivenUpIs DEF Crash
<1> QED
  BY <1>3, <1>4, EndedCorrect

-----------------------------------------------------------------------------
(* What no relay does.                                                     *)

LEMMA RowBecomesCorrect ==
  ASSUME IInv, NEW r \in Rows,
         Fire(r) \/ LeaseLapses(r) \/ BackoffElapses(r) \/ TaskTakes(r) \/ TaskEnds(r)
  PROVE  IInv'
<1>1. TypeOK /\ row[r] \in DeliveryRecord
  BY DEF IInv, TypeOK
<1>2. PICK new \in DeliveryRecord : Becomes(r, new) /\ new.by \in {row[r].by, Nobody, Tasks}
  BY <1>1 DEF DeliveryRecord, Fire, LeaseLapses, BackoffElapses, TaskTakes, TaskEnds
<1>3. /\ row' = [row EXCEPT ![r] = new]
      /\ UNCHANGED <<record, at, lane, todo, claimed, batch, paused, stopping, waited, refused>>
  BY <1>2 DEF Becomes
<1>4. TypeOK'
  BY <1>1, <1>3 DEF TypeOK
<1>5. row'[r] = new /\ \A q \in Rows \ {r} : row'[q] = row[q]
  BY <1>1, <1>3 DEF TypeOK
<1>6. \A v \in Relays : LeavesAlone(v)
  BY <1>2, <1>3, <1>5, ConstantsAssumption DEF LeavesAlone
<1> QED
  BY <1>4, <1>6, OthersStaySteady DEF IInv

LEMMA AskStopCorrect ==
  ASSUME IInv, NEW w \in Relays, AskStop(w)
  PROVE  IInv'
<1>1. UNCHANGED <<row, record, at, lane, todo, claimed, batch, paused, waited, refused>>
      /\ stopping' = [stopping EXCEPT ![w] = TRUE]
  BY DEF AskStop
<1>2. TypeOK'
  BY <1>1 DEF IInv, TypeOK
<1>3. \A v \in Relays : LeavesAlone(v)
  BY <1>1 DEF LeavesAlone
<1> QED
  BY <1>2, <1>3, OthersStaySteady DEF IInv

LEMMA TickCorrect ==
  ASSUME IInv, Tick
  PROVE  IInv'
<1>1. TypeOK /\ \A v \in Relays : Steady(v)
  BY DEF IInv
<1>2. /\ paused' = [w \in Relays |-> Lessened(paused[w])]
      /\ record' = [w \in Relays |-> Lessened(record[w])]
      /\ UNCHANGED <<row, at, lane, todo, claimed, batch, stopping, waited, refused>>
  BY DEF Tick
<1>3. \A v \in Relays : /\ paused[v] \in Pauses /\ paused'[v] = Lessened(paused[v])
                        /\ record[v] \in Pauses /\ record'[v] = Lessened(record[v])
  BY <1>1, <1>2 DEF TypeOK
<1>4. \A v \in Relays :
        /\ paused'[v] \in Pauses /\ DOMAIN paused'[v] = DOMAIN paused[v]
        /\ \A l \in DOMAIN paused[v] : paused'[v][l] = IF paused[v][l] = 0 THEN 0 ELSE paused[v][l] - 1
        /\ record'[v] \in Pauses /\ DOMAIN record'[v] = DOMAIN record[v]
        /\ \A l \in DOMAIN record[v] : record'[v][l] = IF record[v][l] = 0 THEN 0 ELSE record[v][l] - 1
  BY <1>3, LessenedIs
<1>5. paused' \in [Relays -> Pauses] /\ record' \in [Relays -> Pauses]
  BY <1>2, <1>3, <1>4
<1>6. TypeOK'
  BY <1>1, <1>2, <1>5 DEF TypeOK
<1>7. ASSUME NEW v \in Relays PROVE Steady(v)'
  <2>1. Steady(v)
    BY <1>1
  <2>2. EmptyBetweenTurns(v)' /\ LaneIsOpen(v)' /\ PauseIsThere(v)' /\ KnowsWhatItHolds(v)'
    BY <1>2, <1>4, <2>1 DEF Steady, EmptyBetweenTurns, LaneIsOpen, PauseIsThere, KnowsWhatItHolds
  <2>3. \A l \in DOMAIN paused[v] : paused[v][l] \in Nat /\ (paused'[v][l] > 0 => paused[v][l] > 0)
    <3>1. \A l \in DOMAIN paused[v] : paused[v][l] \in Nat
      BY <1>3, PauseIsNat
    <3> QED
      BY <1>4, <3>1
  <2>4. RecordsTell(v)'
    BY <1>2, <1>4, <2>1, <2>3 DEF Steady, RecordsTell
  <2> QED
    BY <2>2, <2>4 DEF Steady
<1> QED
  BY <1>6, <1>7 DEF IInv

-----------------------------------------------------------------------------
(* The invariant, and what follows from it.                                *)

LEMMA InitCorrect == Init => IInv
<1> SUFFICES ASSUME Init PROVE IInv
  OBVIOUS
<1>1. \A w \in Relays : Min(Served[w]) \in Lanes
  <2> SUFFICES ASSUME NEW w \in Relays PROVE Min(Served[w]) \in Lanes
    OBVIOUS
  <2>1. Served[w] \subseteq Lanes /\ Served[w] # {}
    BY ConstantsAssumption
  <2>2. Numbers(Served[w]) /\ IsFiniteSet(Served[w])
    BY <2>1, ConstantsAssumption, FS_Subset DEF Numbers
  <2> QED
    BY <2>1, <2>2, MinIsLeast
<1>2. TypeOK
  BY <1>1, NoPausesIs DEF Init, TypeOK, DeliveryRecord
<1>3. \A w \in Relays : Steady(w)
  BY NoPausesIs, ConstantsAssumption DEF Init, Steady, EmptyBetweenTurns, KnowsWhatItHolds, LaneIsOpen, PauseIsThere, RecordsTell
<1> QED
  BY <1>2, <1>3 DEF IInv

LEMMA OnwardCorrect ==
  ASSUME IInv, NEW w \in Relays, Onward(w)
  PROVE  IInv'
<1>1. ASSUME NEW S \in SUBSET Rows, Claim(w, S) PROVE IInv'
  BY <1>1, ClaimCorrect
<1>2. ASSUME NEW r \in Rows, Attempts(w, r) \/ Lose(w, r) \/ Survive(w, r) PROVE IInv'
  BY <1>2, PassedOnCorrect, DeferCorrect DEF Attempts
<1>3. (PassesSpent(w) \/ EndPass(w) \/ Idle(w) \/ Turn(w) \/ Unpause(w)) => IInv'
  BY PassCorrect, TurnCorrect, UnpauseCorrect
<1>4. (ClaimFails(w) \/ Leave(w) \/ RecordPause(w) \/ ClearPassed(w) \/ HandBack(w) \/ Return(w)) => IInv'
  BY ClaimFailsCorrect, LeaveCorrect, RecordPauseCorrect, ClearPassedCorrect, HandBackCorrect, ReturnCorrect
<1> QED
  BY <1>1, <1>2, <1>3, <1>4 DEF Onward, Claims

LEMMA StepCorrect == IInv /\ [Next]_vars => IInv'
<1> SUFFICES ASSUME IInv, [Next]_vars PROVE IInv'
  OBVIOUS
<1>1. ASSUME NEW w \in Relays, Onward(w) \/ Launch(w) \/ AskStop(w) \/ Crash(w) PROVE IInv'
  BY <1>1, OnwardCorrect, LaunchCorrect, AskStopCorrect, CrashCorrect
<1>2. ASSUME NEW r \in Rows, Fire(r) \/ LeaseLapses(r) \/ BackoffElapses(r) \/ TaskTakes(r) \/ TaskEnds(r)
      PROVE  IInv'
  BY <1>2, RowBecomesCorrect
<1>3. CASE Tick
  BY <1>3, TickCorrect
<1>4. CASE UNCHANGED vars
  <2>1. TypeOK' /\ \A v \in Relays : LeavesAlone(v)
    BY <1>4 DEF vars, IInv, TypeOK, LeavesAlone
  <2> QED
    BY <2>1, OthersStaySteady DEF IInv
<1> QED
  BY <1>1, <1>2, <1>3, <1>4 DEF Next

\* What each relay holds, has paused and has recorded agree wherever it is.
THEOREM InvariantHolds == Spec => []IInv
BY InitCorrect, StepCorrect, PTL DEF Spec

\* Of the rows claimed in its name a relay holds none between two turns, or when
\* it has returned: a queue has them, or they are left to their lease.
THEOREM NothingHeldBetweenTurns == Spec => []HoldsNothingBetweenTurns
<1>1. IInv => HoldsNothingBetweenTurns
  BY DEF IInv, Steady, EmptyBetweenTurns, KnowsWhatItHolds, HoldsNothingBetweenTurns
<1> QED
  BY <1>1, InvariantHolds, PTL

\* Operators read of each relay the pauses it is under, and no others, but in the
\* lanes whose record could not be written or outlived the process.
THEOREM RecordsAreTrue == Spec => []RecordsTellThePauses
<1>1. IInv => RecordsTellThePauses
  BY DEF IInv, Steady, RecordsTellThePauses
<1> QED
  BY <1>1, InvariantHolds, PTL

\* A pause changes in three ways: its lane gets its turn, a deferral adds one, a
\* second passes; or the process ends.
LEMMA PauseChanges ==
  ASSUME IInv, [Next]_vars, NEW w \in Relays, at'[w] # "returned"
  PROVE  paused'[w] = paused[w] \/ Turn(w) \/ (\E r \in Rows : Defer(w, r)) \/ Tick
<1>1. TypeOK
  BY DEF IInv
<1>2. ASSUME NEW v \in Relays, Onward(v)
      PROVE  paused'[w] = paused[w] \/ Turn(w) \/ (\E r \in Rows : Defer(w, r))
  <2>1. CASE PassesSpent(v) \/ EndPass(v) \/ Idle(v) \/ Unpause(v) \/ Claims(v) \/ ClaimFails(v)
    BY <2>1 DEF PassesSpent, EndPass, Idle, Unpause, Claims, Claim, ClaimFails
  <2>2. CASE Leave(v) \/ RecordPause(v) \/ ClearPassed(v) \/ HandBack(v)
    BY <2>2 DEF Leave, RecordPause, ClearPassed, HandBack
  <2>3. CASE Turn(v)
    BY <1>1, <2>3 DEF Turn, TypeOK
  <2>4. ASSUME NEW r \in Rows, Attempts(v, r) \/ Lose(v, r) \/ Survive(v, r)
        PROVE  paused'[w] = paused[w] \/ Defer(w, r)
    BY <1>1, <2>4 DEF Attempts, Deliver, Defer, HandOff, Lose, Survive, TypeOK
  <2>5. CASE Return(v)
    BY <1>1, <2>5 DEF Return, Goes, TypeOK
  <2> QED
    BY <1>2, <2>1, <2>2, <2>3, <2>4, <2>5 DEF Onward
<1>3. ASSUME NEW v \in Relays, Launch(v) \/ AskStop(v) \/ Crash(v) PROVE paused'[w] = paused[w]
  BY <1>1, <1>3 DEF Launch, AskStop, Crash, Goes, TypeOK
<1>4. ASSUME NEW r \in Rows, Fire(r) \/ LeaseLapses(r) \/ BackoffElapses(r) \/ TaskTakes(r) \/ TaskEnds(r)
      PROVE  paused'[w] = paused[w]
  BY <1>4 DEF Fire, LeaseLapses, BackoffElapses, TaskTakes, TaskEnds, Becomes
<1>5. CASE UNCHANGED vars
  BY <1>5 DEF vars
<1> QED
  BY <1>2, <1>3, <1>4, <1>5 DEF Next

LEMMA PauseLasts ==
  ASSUME IInv, [Next]_vars, NEW w \in Relays, at'[w] # "returned",
         NEW l \in DOMAIN paused[w], paused[w][l] > 0
  PROVE  l \in DOMAIN paused'[w] /\ paused'[w][l] <= paused[w][l]
<1>1. TypeOK /\ Steady(w) /\ paused[w] \in Pauses
  BY DEF IInv, TypeOK
<1>2. paused[w][l] \in Nat
  BY <1>1, PauseIsNat
<1>3. CASE paused'[w] = paused[w]
  BY <1>2, <1>3
<1>4. CASE Turn(w) /\ paused'[w] # paused[w]
  <2> DEFINE turn == Min(todo[w])
  <2>1. paused'[w] = Without(paused[w], {turn}) /\ ~Ahead(w, turn)
    BY <1>1, <1>4 DEF Turn, TypeOK
  <2>2. l # turn
    BY <2>1 DEF Ahead
  <2> HIDE DEF turn
  <2>3. PICK p \in Pauses : p = paused[w]
    BY <1>1
  <2>4. /\ DOMAIN Without(p, {turn}) = DOMAIN p \ {turn}
        /\ \A m \in DOMAIN Without(p, {turn}) : Without(p, {turn})[m] = p[m]
    BY WithoutIs
  <2>5. l \in DOMAIN paused'[w] /\ paused'[w][l] = paused[w][l]
    BY <2>1, <2>2, <2>3, <2>4
  <2> QED
    BY <1>2, <2>5
<1>5. ASSUME NEW r \in Rows, Defer(w, r)
      PROVE  l \in DOMAIN paused'[w] /\ paused'[w][l] = paused[w][l]
  <2>1. LaneOf[r] = lane[w] /\ lane[w] \in Lanes /\ lane[w] \notin DOMAIN paused[w]
    BY <1>1, <1>5 DEF Defer, Ends, Starts, Steady, LaneIsOpen, TypeOK
  <2>2. PICK s \in 1..MaxPause : paused' = [paused EXCEPT ![w] = With(@, LaneOf[r], s)]
    BY <1>5 DEF Defer
  <2>3. PICK m \in Lanes : m = LaneOf[r] /\ m # l
    BY <2>1
  <2>4. paused'[w] = With(paused[w], m, s) /\ s \in 0..MaxPause
    BY <1>1, <2>2, <2>3, ConstantsAssumption DEF TypeOK
  <2>5. PICK p \in Pauses : p = paused[w]
    BY <1>1
  <2>6. /\ DOMAIN With(p, m, s) = DOMAIN p \cup {m}
        /\ \A x \in DOMAIN p \ {m} : With(p, m, s)[x] = p[x]
    BY DEF With
  <2> QED
    BY <2>3, <2>4, <2>5, <2>6
<1>6. CASE Tick
  <2>1. paused'[w] = Lessened(paused[w])
    BY <1>6 DEF Tick
  <2>2. DOMAIN Lessened(paused[w]) = DOMAIN paused[w]
        /\ Lessened(paused[w])[l] = paused[w][l] - 1
    BY <1>1, <1>2 DEF Lessened
  <2> QED
    BY <1>2, <2>1, <2>2
<1> QED
  BY <1>2, <1>3, <1>4, <1>5, <1>6, PauseChanges

\* While a pause lasts no row of its lane is claimed or started, and no later
\* deferral cuts it short.
THEOREM PausedLanesRest == Spec => PausedLaneRests
<1>1. ASSUME IInv, [Next]_vars, NEW w \in Relays, NEW l \in DOMAIN paused[w],
             paused[w][l] > 0, at'[w] # "returned"
      PROVE  /\ l \in DOMAIN paused'[w] /\ paused'[w][l] <= paused[w][l]
             /\ lane[w] = l => at[w] # "claiming"
             /\ lane[w] = l /\ at[w] = "starting" => batch'[w] = batch[w]
  <2>1. LaneIsOpen(w)
    BY <1>1 DEF IInv, Steady
  <2>2. lane[w] # l \/ at[w] \notin {"claiming", "starting"}
    BY <1>1, <2>1 DEF LaneIsOpen
  <2> QED
    BY <1>1, <2>2, PauseLasts
<1> DEFINE Rest == \A w \in Relays : \A l \in DOMAIN paused[w] :
                     paused[w][l] > 0 /\ at'[w] # "returned" =>
                       /\ l \in DOMAIN paused'[w] /\ paused'[w][l] <= paused[w][l]
                       /\ lane[w] = l => at[w] # "claiming"
                       /\ lane[w] = l /\ at[w] = "starting" => batch'[w] = batch[w]
<1>2. IInv /\ [Next]_vars => [Rest]_vars
  BY <1>1
<1> QED
  BY <1>2, InvariantHolds, PTL DEF Spec, PausedLaneRests

-----------------------------------------------------------------------------
(* Turns and what each lane waits.                                         *)

\* What w waits for, wherever it is.
Fairly(w) == InOrder(w) /\ \A l \in Served[w] : Waits(w, l)

\* Nothing that bears on the turns of w changes.
Stands(w) ==
  /\ at'[w] = at[w] /\ lane'[w] = lane[w] /\ todo'[w] = todo[w]
  /\ batch'[w] = batch[w] /\ waited'[w] = waited[w]

LEMMA StandingIsFair ==
  ASSUME NEW w \in Relays, Fairly(w), Stands(w)
  PROVE  Fairly(w)'
<1>1. InOrder(w)'
  BY DEF Fairly, Stands, InOrder
<1>2. ASSUME NEW l \in Served[w] PROVE Waits(w, l)'
  <2>1. Waits(w, l) /\ Since(w, l)' = Since(w, l)
    BY DEF Fairly, Stands, Since
  <2> QED
    BY <2>1 DEF Waits, Stands
<1> QED
  BY <1>1, <1>2 DEF Fairly

\* The sizes of the claims of some lanes.
LEMMA SizesAdd ==
  ASSUME NEW S \in SUBSET Lanes
  PROVE  /\ SumFunctionOnSet(SizeOf, S) \in Nat
         /\ \A T \in SUBSET S : SumFunctionOnSet(SizeOf, T) <= SumFunctionOnSet(SizeOf, S)
         /\ \A m \in S : SumFunctionOnSet(SizeOf, S) = SizeOf[m] + SumFunctionOnSet(SizeOf, S \ {m})
<1>1. IsFiniteSet(S) /\ Counts(SizeOf, S)
  BY ConstantsAssumption, FS_Subset DEF Counts
<1> QED
  BY <1>1, SumIsNumber, SumOfFewer, SumWith

LEMMA SinceAreLanes ==
  ASSUME NEW w \in Relays, NEW l \in Served[w], todo[w] \subseteq Served[w]
  PROVE  Since(w, l) \subseteq Served[w] \ {l} /\ Served[w] \subseteq Lanes /\ l \in Lanes
<1>1. Served[w] \subseteq Lanes /\ \A m \in Served[w] : m \in Nat
  BY ConstantsAssumption
<1> QED
  BY <1>1 DEF Since

LEMMA BatchIsFinite ==
  ASSUME TypeOK, NEW w \in Relays
  PROVE  IsFiniteSet(batch[w]) /\ Cardinality(batch[w]) \in Nat
<1>1. batch[w] \subseteq Rows
  BY DEF TypeOK
<1> QED
  BY <1>1, ConstantsAssumption, FS_Subset, FS_CardinalityType

\* Where no batch is in hand and none is about to be claimed.
Waiting(w, l) == waited[w][l] <= SumFunctionOnSet(SizeOf, Since(w, l))

LEMMA WaitsIsWaiting ==
  ASSUME TypeOK, NEW w \in Relays, NEW l \in Served[w], InOrder(w), Waits(w, l)
  PROVE  Waiting(w, l)
<1>1. Since(w, l) \subseteq Lanes
  BY SinceAreLanes DEF InOrder
<1>2. waited[w][l] \in Nat
  BY SinceAreLanes DEF TypeOK, InOrder
<1>3. Cardinality(batch[w]) \in Nat
  BY BatchIsFinite
<1>4. /\ SumFunctionOnSet(SizeOf, Since(w, l)) \in Nat
      /\ SumFunctionOnSet(SizeOf, Since(w, l) \ {lane[w]}) \in Nat
      /\ SumFunctionOnSet(SizeOf, Since(w, l) \ {lane[w]}) <= SumFunctionOnSet(SizeOf, Since(w, l))
  <2>1. Since(w, l) \ {lane[w]} \in SUBSET Since(w, l) /\ Since(w, l) \ {lane[w]} \subseteq Lanes
    BY <1>1
  <2> QED
    BY <1>1, <2>1, SizesAdd
<1> QED
  BY <1>2, <1>3, <1>4 DEF Waits, Waiting

-----------------------------------------------------------------------------
(* Steps of the relay.                                                     *)

Serving == {"unpausing", "claiming"} \cup Holding

\* It goes on, or out, with the rows it has or without.
LEMMA GoingOnIsFair ==
  ASSUME TypeOK, TypeOK', NEW w \in Relays, Fairly(w), EmptyBetweenTurns(w),
         lane'[w] = lane[w], todo'[w] = todo[w], waited'[w] = waited[w],
         batch'[w] = batch[w] \/ batch'[w] = {},
         at'[w] \notin {"unpausing", "claiming"},
         at'[w] \in Holding => at[w] \in Serving,
         at'[w] = "idle" => todo[w] = {}
  PROVE  Fairly(w)'
<1>1. InOrder(w)'
  BY DEF Fairly, InOrder, Serving
<1>2. ASSUME NEW l \in Served[w] PROVE Waits(w, l)'
  <2>1. Waits(w, l) /\ Waiting(w, l) /\ Since(w, l)' = Since(w, l)
    BY WaitsIsWaiting DEF Fairly, Since
  <2>2. waited[w][l] \in Nat
    BY SinceAreLanes DEF TypeOK, Fairly, InOrder
  <2>3. CASE batch'[w] = {}
    <3>1. Cardinality(batch'[w]) = 0
      BY <2>3, FS_EmptySet
    <3> QED
      BY <2>1, <2>2, <3>1 DEF Waits, Waiting
  <2>4. CASE batch'[w] = batch[w] /\ batch[w] # {}
    <3>1. at[w] \notin {"unpausing", "claiming"}
      BY <2>4 DEF EmptyBetweenTurns, Holding
    <3> QED
      BY <2>1, <2>4, <3>1 DEF Waits
  <2> QED
    BY <2>3, <2>4
<1> QED
  BY <1>1, <1>2 DEF Fairly

\* A pass begins, after one that has come to its end or in place of one.
LEMMA NewPassIsFair ==
  ASSUME TypeOK, NEW w \in Relays, Fairly(w), NewPass(w), batch'[w] = {},
         \/ waited'[w] = [l \in Lanes |-> 0]
         \/ waited'[w] = waited[w] /\ todo[w] = {}
  PROVE  Fairly(w)'
<1>1. at'[w] = "turn" /\ todo'[w] = Served[w]
  BY DEF NewPass, Goes, TypeOK
<1>2. InOrder(w)'
  BY <1>1 DEF InOrder, Holding
<1>3. ASSUME NEW l \in Served[w] PROVE Waits(w, l)'
  <2>1. Since(w, l)' \subseteq Lanes /\ l \in Lanes
    BY ConstantsAssumption DEF Since
  <2>2. PICK T \in SUBSET Lanes : T = Since(w, l)'
    BY <2>1
  <2>3. SumFunctionOnSet(SizeOf, T) \in Nat /\ Cardinality(batch'[w]) = 0
    BY SizesAdd, FS_EmptySet
  <2>4. CASE waited'[w] = [m \in Lanes |-> 0]
    BY <1>1, <2>1, <2>2, <2>3, <2>4 DEF Waits
  <2>5. CASE waited'[w] = waited[w] /\ todo[w] = {}
    <3>1. T = Since(w, l)
      BY <1>1, <2>2, <2>5 DEF Since
    <3>2. waited[w][l] <= SumFunctionOnSet(SizeOf, T) /\ waited[w][l] \in Nat
      BY <2>1, <3>1, WaitsIsWaiting DEF Waiting, Fairly, TypeOK
    <3> QED
      BY <1>1, <2>2, <2>3, <2>5, <3>2 DEF Waits
  <2> QED
    BY <2>4, <2>5
<1> QED
  BY <1>2, <1>3 DEF Fairly

\* A claim of the last pass fails, and the relay returns.
LEMMA StartingOverIsFair ==
  ASSUME TypeOK, NEW w \in Relays, Fairly(w), todo'[w] = todo[w], at'[w] = "returning",
         batch'[w] = {}, waited'[w] = [l \in Lanes |-> 0]
  PROVE  Fairly(w)'
<1>1. InOrder(w)'
  BY DEF Fairly, InOrder, Holding
<1>2. ASSUME NEW l \in Served[w] PROVE Waits(w, l)'
  <2>1. PICK T : T = Since(w, l)'
    OBVIOUS
  <2>2. T \subseteq Lanes /\ l \in Lanes
    BY <2>1, ConstantsAssumption DEF Since
  <2>3. SumFunctionOnSet(SizeOf, T) \in Nat /\ Cardinality(batch'[w]) = 0
    BY <2>2, SizesAdd, FS_EmptySet
  <2> QED
    BY <2>1, <2>2, <2>3 DEF Waits
<1> QED
  BY <1>1, <1>2 DEF Fairly

\* The least of the lanes to come has its turn.
LEMMA TurnIsFair ==
  ASSUME TypeOK, NEW w \in Relays, Fairly(w), EmptyBetweenTurns(w), Turn(w), ~Told(w)
  PROVE  Fairly(w)'
<1> DEFINE n == Min(todo[w])
<1>0. at[w] = "turn" /\ todo[w] # {} /\ batch[w] = {} /\ batch' = batch
  BY DEF Turn, EmptyBetweenTurns, Holding
<1>1. PICK m : m = n
  OBVIOUS
<1>2. m \in todo[w] /\ m \in Served[w] /\ \A l \in todo[w] : m <= l
  <2>1. todo[w] \subseteq Served[w] /\ Served[w] \subseteq Lanes
    BY ConstantsAssumption DEF Fairly, InOrder
  <2>2. Numbers(todo[w]) /\ IsFiniteSet(todo[w])
    BY <2>1, ConstantsAssumption, FS_Subset DEF Numbers
  <2> QED
    BY <1>0, <1>1, <2>1, <2>2, MinIsLeast
<1>3. /\ lane'[w] = m /\ todo'[w] = todo[w] \ {m} /\ at'[w] \in {"turn", "unpausing", "claiming"}
      /\ waited'[w][m] = 0 /\ \A l \in Lanes \ {m} : waited'[w][l] = waited[w][l]
      /\ batch'[w] = {}
  <2>1. m \in Lanes
    BY <1>2, ConstantsAssumption
  <2>2. /\ lane' = [lane EXCEPT ![w] = m] /\ todo' = [todo EXCEPT ![w] = @ \ {m}]
        /\ waited' = [waited EXCEPT ![w][m] = 0]
        /\ \E phase \in {"turn", "unpausing", "claiming"} : at' = [at EXCEPT ![w] = phase]
    <3> HIDE DEF n
    <3>1. m = Min(todo[w])
      BY <1>1 DEF n
    <3> QED
      BY <3>1 DEF Turn, Goes
  <2> QED
    BY <1>0, <2>1, <2>2 DEF TypeOK
<1>4. \A l \in Served[w] : l \in Nat
  BY ConstantsAssumption
<1>5. /\ todo[w] \subseteq Served[w] /\ \A l \in todo[w], k \in Served[w] : l < k => k \in todo[w]
  BY DEF Fairly, InOrder
<1>6. \A k \in Served[w] \ (todo[w] \ {m}) : k <= m
  BY <1>2, <1>4, <1>5
<1>7. InOrder(w)'
  <2>1. \A l \in todo[w] \ {m}, k \in Served[w] : l < k => k \in todo[w] \ {m}
    BY <1>2, <1>4, <1>5
  <2> QED
    BY <1>2, <1>3, <1>5, <1>6, <2>1 DEF InOrder, Holding
<1>8. ASSUME NEW l \in Served[w] PROVE Waits(w, l)'
  <2>1. PICK T : T = Since(w, l)'
    OBVIOUS
  <2>2. T \subseteq Lanes /\ l \in Lanes
    BY <2>1, ConstantsAssumption DEF Since
  <2>3. Cardinality(batch'[w]) = 0 /\ SumFunctionOnSet(SizeOf, T) \in Nat
    BY <1>3, <2>2, SizesAdd, FS_EmptySet
  <2>4. CASE l = m
    BY <1>3, <2>1, <2>3, <2>4 DEF Waits
  <2>5. CASE l # m
    <3>1. T = Since(w, l) \cup {m} /\ m \notin Since(w, l)
      <4>1. l \in todo[w] => m < l
        BY <1>2, <1>4, <2>5
      <4>2. l \notin todo[w] => l < m
        BY <1>2, <1>4, <1>5, <2>5
      <4>3. T = {k \in Served[w] : IF l \in todo[w] \ {m} THEN l < k \/ k \notin todo[w] \ {m}
                                   ELSE l < k /\ k \notin todo[w] \ {m}}
        BY <1>3, <2>1 DEF Since
      <4> QED
        BY <1>2, <1>4, <2>5, <4>1, <4>2, <4>3 DEF Since
    <3>2. T \ {m} = Since(w, l)
      BY <3>1
    <3>3. waited[w][l] <= SumFunctionOnSet(SizeOf, T \ {m}) /\ waited[w][l] \in Nat
      BY <2>2, <3>2, WaitsIsWaiting DEF Waiting, Fairly, TypeOK
    <3>4. SumFunctionOnSet(SizeOf, T) = SizeOf[m] + SumFunctionOnSet(SizeOf, T \ {m})
          /\ SumFunctionOnSet(SizeOf, T \ {m}) \in Nat
      BY <2>2, <3>1, SizesAdd
    <3>5. SizeOf[m] \in Nat /\ waited'[w][l] = waited[w][l]
      BY <1>2, <1>3, <2>2, <2>5, ConstantsAssumption
    <3> QED
      BY <1>3, <2>1, <2>3, <3>3, <3>4, <3>5 DEF Waits
  <2> QED
    BY <2>4, <2>5
<1> QED
  BY <1>7, <1>8 DEF Fairly

\* A claim takes no more than the size of its lane's.
LEMMA ClaimIsFair ==
  ASSUME TypeOK, TypeOK', NEW w \in Relays, Fairly(w), NEW S, Claim(w, S)
  PROVE  Fairly(w)'
<1>1. /\ at[w] = "claiming" /\ at'[w] = "starting" /\ batch'[w] = S
      /\ lane' = lane /\ todo' = todo /\ waited' = waited
  BY DEF Claim, Goes, TypeOK
<1>2. lane[w] \in Served[w] \ todo[w] /\ \A m \in Served[w] \ todo[w] : m <= lane[w]
  BY <1>1 DEF Fairly, InOrder
<1>3. Cardinality(S) <= SizeOf[lane[w]] /\ SizeOf[lane[w]] \in Nat /\ Cardinality(S) \in Nat
  <2> DEFINE free == {r \in Rows : LaneOf[r] = lane[w] /\ row[r].status \in {"free", "overdue"}}
  <2>1. S \subseteq free /\ Cardinality(S) = Min({SizeOf[lane[w]], Cardinality(free)})
    BY DEF Claim, Batches
  <2>2. IsFiniteSet(free) /\ SizeOf[lane[w]] \in Nat
    BY <1>2, ConstantsAssumption, FS_Subset
  <2>3. Cardinality(free) \in Nat
    BY <2>2, FS_CardinalityType
  <2> HIDE DEF free
  <2>4. Cardinality(S) = IF SizeOf[lane[w]] <= Cardinality(free) THEN SizeOf[lane[w]] ELSE Cardinality(free)
    BY <2>1, <2>2, <2>3, MinOfTwo
  <2> QED
    BY <2>2, <2>3, <2>4
<1>4. InOrder(w)'
  BY <1>1 DEF Fairly, InOrder, Holding
<1>5. ASSUME NEW l \in Served[w] PROVE Waits(w, l)'
  <2>1. Waits(w, l) /\ Since(w, l)' = Since(w, l) /\ Since(w, l) \subseteq Lanes
    BY <1>1, SinceAreLanes DEF Fairly, Since, InOrder
  <2>2. waited[w][l] \in Nat /\ l \in Nat
    BY SinceAreLanes, ConstantsAssumption DEF TypeOK, Fairly, InOrder
  <2>3. CASE l = lane[w]
    BY <1>1, <2>1, <2>3 DEF Waits
  <2>4. CASE l # lane[w]
    <3>1. lane[w] \in Since(w, l)
      <4>1. l \in todo[w] \/ l < lane[w]
        <5>1. lane[w] \in Nat
          BY <1>2, ConstantsAssumption
        <5>2. l \notin todo[w] => l <= lane[w]
          BY <1>2
        <5> QED
          BY <2>2, <2>4, <5>1, <5>2
      <4> QED
        BY <1>2, <4>1 DEF Since
    <3>2. SumFunctionOnSet(SizeOf, Since(w, l)) =
            SizeOf[lane[w]] + SumFunctionOnSet(SizeOf, Since(w, l) \ {lane[w]})
      BY <2>1, <3>1, SizesAdd
    <3>3. SumFunctionOnSet(SizeOf, Since(w, l) \ {lane[w]}) \in Nat
      <4>1. Since(w, l) \ {lane[w]} \subseteq Lanes
        BY <2>1
      <4> QED
        BY <4>1, SizesAdd
    <3>4. waited[w][l] <= SumFunctionOnSet(SizeOf, Since(w, l) \ {lane[w]})
      BY <1>1, <2>1, <2>4 DEF Waits
    <3> QED
      BY <1>1, <1>3, <2>1, <2>2, <2>4, <3>2, <3>3, <3>4 DEF Waits
  <2> QED
    BY <2>3, <2>4
<1> QED
  BY <1>4, <1>5 DEF Fairly

\* A row started is one less in hand.
LEMMA StartsIsFair ==
  ASSUME TypeOK, NEW w \in Relays, Fairly(w), NEW r, Starts(w, r), at'[w] \in {"starting", "recording"}
  PROVE  Fairly(w)'
<1>1. /\ at[w] = "starting" /\ r \in batch[w] /\ batch'[w] = batch[w] \ {r}
      /\ lane' = lane /\ todo' = todo
      /\ \A l \in Lanes : waited'[w][l] = IF l = lane[w] THEN waited[w][l] ELSE waited[w][l] + 1
  BY DEF Starts, TypeOK
<1>2. InOrder(w)'
  BY <1>1 DEF Fairly, InOrder, Holding
<1>3. /\ Cardinality(batch[w]) \in Nat /\ Cardinality(batch'[w]) \in Nat
      /\ Cardinality(batch'[w]) = Cardinality(batch[w]) - 1
  <2>1. IsFiniteSet(batch[w])
    BY BatchIsFinite
  <2> QED
    BY <1>1, <2>1, FS_RemoveElement, FS_CardinalityType
<1>4. ASSUME NEW l \in Served[w] PROVE Waits(w, l)'
  <2>1. Waits(w, l) /\ Since(w, l)' = Since(w, l)
    BY <1>1 DEF Fairly, Since
  <2>2. waited[w][l] \in Nat /\ l \in Lanes
    BY SinceAreLanes DEF TypeOK, Fairly, InOrder
  <2> QED
    BY <1>1, <1>3, <2>1, <2>2 DEF Waits
<1> QED
  BY <1>2, <1>4 DEF Fairly

LEMMA UnpauseIsFair ==
  ASSUME TypeOK, NEW w \in Relays, Fairly(w), Unpause(w)
  PROVE  Fairly(w)'
<1>1. /\ at[w] = "unpausing" /\ at'[w] = "claiming"
      /\ UNCHANGED <<lane, todo, batch, waited>>
  BY DEF Unpause, Goes, TypeOK
<1>2. InOrder(w)'
  BY <1>1 DEF Fairly, InOrder
<1>3. ASSUME NEW l \in Served[w] PROVE Waits(w, l)'
  <2>1. Waits(w, l) /\ Since(w, l)' = Since(w, l)
    BY <1>1 DEF Fairly, Since
  <2> QED
    BY <1>1, <2>1 DEF Waits
<1> QED
  BY <1>2, <1>3 DEF Fairly

LEMMA OnwardIsFair ==
  ASSUME IInv, TypeOK', NEW w \in Relays, Fairly(w), Onward(w) \/ Launch(w) \/ Crash(w)
  PROVE  Fairly(w)'
<1>1. TypeOK /\ EmptyBetweenTurns(w)
  BY DEF IInv, Steady
<1>2. CASE PassesSpent(w) \/ Return(w) \/ Crash(w) \/ RecordPause(w) \/ ClearPassed(w)
           \/ HandBack(w) \/ Leave(w)
  <2>1. UNCHANGED <<lane, todo, waited>> /\ (batch'[w] = batch[w] \/ batch'[w] = {})
    BY <1>1, <1>2 DEF PassesSpent, Return, Crash, RecordPause, ClearPassed, HandBack, Leave, TypeOK
  <2>2. /\ at'[w] \in {"returning", "returned", "clearing", "setting_aside", "turn", "handing_back"}
        /\ at'[w] \in Holding => at[w] \in Serving
    BY <1>1, <1>2 DEF PassesSpent, Return, Crash, RecordPause, ClearPassed, HandBack, Leave, AfterBatch,
                      Goes, TypeOK, Holding, Serving
  <2> QED
    BY <1>1, <2>1, <2>2, GoingOnIsFair
<1>3. CASE EndPass(w) \/ Idle(w)
  <2>1. /\ UNCHANGED <<lane, batch, waited>> /\ todo[w] = {} /\ at[w] \in {"turn", "idle"}
    BY <1>3 DEF EndPass, Idle, Fairly, InOrder
  <2>2. batch[w] = {}
    BY <1>1, <2>1 DEF EmptyBetweenTurns, Holding
  <2>3. CASE NewPass(w)
    BY <1>1, <2>1, <2>2, <2>3, NewPassIsFair
  <2>4. CASE Goes(w, "idle") /\ UNCHANGED todo
    BY <1>1, <2>1, <2>4, GoingOnIsFair DEF Goes, TypeOK, Holding
  <2> QED
    BY <1>3, <2>3, <2>4 DEF EndPass, Idle
<1>4. CASE Launch(w) \/ ClaimFails(w)
  <2>1. /\ UNCHANGED batch /\ at[w] \in {"returned", "claiming"}
        /\ waited'[w] = [l \in Lanes |-> 0]
    BY <1>1, <1>4 DEF Launch, ClaimFails, TypeOK
  <2>2. batch[w] = {}
    BY <1>1, <2>1 DEF EmptyBetweenTurns, Holding
  <2>3. CASE NewPass(w)
    BY <1>1, <2>1, <2>2, <2>3, NewPassIsFair
  <2>4. CASE Goes(w, "returning") /\ UNCHANGED todo
    BY <1>1, <2>1, <2>2, <2>4, StartingOverIsFair DEF Goes, TypeOK
  <2> QED
    BY <1>4, <2>3, <2>4 DEF Launch, ClaimFails
<1>5. CASE Turn(w)
  <2>1. CASE Told(w)
    <3>1. UNCHANGED <<lane, todo, waited, batch>> /\ at'[w] = "returning"
      BY <1>1, <1>5, <2>1 DEF Turn, Goes, TypeOK
    <3> QED
      BY <1>1, <3>1, GoingOnIsFair DEF Holding
  <2> QED
    BY <1>1, <1>5, <2>1, TurnIsFair
<1>6. CASE Unpause(w)
  BY <1>1, <1>6, UnpauseIsFair
<1>7. CASE Claims(w)
  BY <1>1, <1>7, ClaimIsFair DEF Claims
<1>8. ASSUME NEW r \in Rows, Attempts(w, r) \/ Lose(w, r) \/ Survive(w, r)
      PROVE  Fairly(w)'
  <2>1. Starts(w, r) /\ at'[w] \in {"starting", "recording"}
    BY <1>1, <1>8 DEF Attempts, Deliver, Defer, HandOff, Ends, Lose, Survive, Starts, Goes, TypeOK
  <2> QED
    BY <1>1, <2>1, StartsIsFair
<1> QED
  BY <1>2, <1>3, <1>4, <1>5, <1>6, <1>7, <1>8 DEF Onward

-----------------------------------------------------------------------------
(* The steps of everyone.                                                  *)

LEMMA StepsOrStands ==
  ASSUME TypeOK, [Next]_vars, NEW w \in Relays
  PROVE  Onward(w) \/ Launch(w) \/ Crash(w) \/ Stands(w)
<1>1. UNCHANGED <<at, lane, todo, batch, waited>> => Stands(w)
  BY DEF Stands
<1>2. ASSUME NEW v \in Relays \ {w}, Launch(v) \/ AskStop(v) \/ Crash(v) PROVE Stands(w)
  BY <1>2 DEF Launch, AskStop, Crash, NewPass, Goes, Stands, TypeOK
<1>3. ASSUME NEW v \in Relays \ {w}, Onward(v) PROVE Stands(w)
  <2>1. CASE PassesSpent(v) \/ EndPass(v) \/ Idle(v) \/ Unpause(v) \/ ClaimFails(v) \/ Leave(v)
             \/ RecordPause(v) \/ ClearPassed(v) \/ HandBack(v) \/ Return(v)
    BY <2>1 DEF PassesSpent, EndPass, Idle, Unpause, ClaimFails, Leave, RecordPause, ClearPassed, HandBack,
                Return, NewPass, Goes, Stands, TypeOK
  <2>2. CASE Turn(v)
    BY <2>2 DEF Turn, Goes, Stands, TypeOK
  <2>3. CASE Claims(v)
    BY <2>3 DEF Claims, Claim, Goes, Stands, TypeOK
  <2>4. ASSUME NEW r \in Rows, Attempts(v, r) \/ Lose(v, r) \/ Survive(v, r) PROVE Stands(w)
    BY <2>4 DEF Attempts, Deliver, Defer, HandOff, Ends, Lose, Survive, Starts, Goes, Stands, TypeOK
  <2> QED
    BY <1>3, <2>1, <2>2, <2>3, <2>4 DEF Onward
<1>4. AskStop(w) => Stands(w)
  BY DEF AskStop, Stands
<1> QED
  BY <1>1, <1>2, <1>3, <1>4
     DEF Next, Fire, LeaseLapses, BackoffElapses, TaskTakes, TaskEnds, Becomes, Tick, vars

\* Among the lanes of a relay none waits longer than a batch of each other,
\* however many lanes there are, whatever each is owed, and whatever claims
\* fail, receivers defer and relays stop in the meantime.
THEOREM LanesAreShared == Spec => []LanesShareTheRelay
<1>1. Init => TurnsKept
  <2> SUFFICES ASSUME Init, NEW w \in Relays, NEW l \in Served[w] PROVE InOrder(w) /\ Waits(w, l)
    BY DEF TurnsKept, Init, InOrder, Holding
  <2>1. todo[w] = {} /\ at[w] = "returned" /\ batch[w] = {} /\ l \in Lanes /\ waited[w][l] = 0
    BY ConstantsAssumption DEF Init
  <2>2. Since(w, l) \subseteq Lanes
    BY <2>1, SinceAreLanes
  <2>3. SumFunctionOnSet(SizeOf, Since(w, l)) \in Nat /\ Cardinality(batch[w]) = 0
    BY <2>1, <2>2, SizesAdd, FS_EmptySet
  <2> QED
    BY <2>1, <2>3 DEF InOrder, Waits, Holding
<1>2. IInv /\ IInv' /\ TurnsKept /\ [Next]_vars => TurnsKept'
  <2> SUFFICES ASSUME IInv, IInv', TurnsKept, [Next]_vars, NEW w \in Relays PROVE Fairly(w)'
    BY DEF TurnsKept, Fairly
  <2>1. TypeOK /\ TypeOK' /\ Fairly(w)
    BY DEF IInv, TurnsKept, Fairly
  <2> QED
    BY <2>1, StepsOrStands, OnwardIsFair, StandingIsFair
<1>3. IInv /\ TurnsKept => LanesShareTheRelay
  <2> SUFFICES ASSUME IInv, TurnsKept, NEW w \in Relays, NEW l \in Served[w]
               PROVE  waited[w][l] <= SumFunctionOnSet(SizeOf, Served[w] \ {l})
    BY DEF LanesShareTheRelay
  <2>1. TypeOK /\ InOrder(w) /\ Waits(w, l)
    BY DEF IInv, TurnsKept
  <2>2. Since(w, l) \in SUBSET (Served[w] \ {l}) /\ Served[w] \ {l} \subseteq Lanes /\ l \in Lanes
    BY <2>1, SinceAreLanes DEF InOrder
  <2>3. Waiting(w, l) /\ waited[w][l] \in Nat
    BY <2>1, <2>2, WaitsIsWaiting DEF TypeOK
  <2>4. /\ SumFunctionOnSet(SizeOf, Since(w, l)) <= SumFunctionOnSet(SizeOf, Served[w] \ {l})
        /\ SumFunctionOnSet(SizeOf, Served[w] \ {l}) \in Nat
    BY <2>2, SizesAdd
  <2>5. SumFunctionOnSet(SizeOf, Since(w, l)) \in Nat
    <3>1. Since(w, l) \in SUBSET Lanes
      BY <2>2
    <3> QED
      BY <3>1, SizesAdd
  <2> QED
    BY <2>3, <2>4, <2>5 DEF Waiting
<1> QED
  BY <1>1, <1>2, <1>3, InvariantHolds, PTL DEF Spec
=============================================================================
