--------------------------- MODULE Delivery_proofs ---------------------------
(* Theorems about Delivery, for every value of its constants.              *)
EXTENDS Delivery, TLAPS

-----------------------------------------------------------------------------
(* Typing.                                                                 *)

LEMMA StatusType ==
  /\ Retryable \subseteq Statuses /\ Terminal \subseteq Statuses
  /\ \A s \in {"absent", "claimed", "pending", "failed", "succeeded", "dead",
               "orphaned", "cancelled"} : s \in Statuses
BY DEF Retryable, Terminal, Statuses

LEMMA OpenedType == \A wait \in {"none", "schedule"} : Opened(wait) \in Row
BY DEF Opened, Absent, Row, Statuses, Retryable, Terminal

LEMMA NoAttemptType == NoAttempt \in Attempt
BY DEF NoAttempt, Attempt

\* Writing the fields an outcome writes leaves a row a row.
LEMMA OutcomeType ==
  ASSUME NEW old \in Row, NEW s \in Statuses
  PROVE  /\ [old EXCEPT !.status = s] \in Row
         /\ \A w \in {"none", "backoff", "schedule"} :
              /\ [old EXCEPT !.status = s, !.wait = w] \in Row
              /\ [old EXCEPT !.status = s, !.wait = w, !.late = FALSE] \in Row
BY DEF Row

\* What an attempt writes is a row, whatever its verdict.
LEMMA VerdictType ==
  ASSUME row \in [Rows -> Row], NEW v \in Verdicts, NEW r \in Rows, NEW seen \in Nat
  PROVE  Verdict(v, r, seen) \in Row
<1> DEFINE counted == [row[r] EXCEPT !.attempts = seen + 1]
<1>1. row[r] \in Row
  OBVIOUS
<1>2. counted \in Row
  BY <1>1 DEF Row
<1>3. PutOff(r) \in Row
  BY <1>1, OutcomeType, StatusType DEF PutOff
<1>4. /\ [row[r] EXCEPT !.status = "orphaned"] \in Row
      /\ [row[r] EXCEPT !.status = "dead"] \in Row
      /\ [row[r] EXCEPT !.status = "pending", !.wait = "schedule", !.late = FALSE] \in Row
  BY <1>1, OutcomeType, StatusType
<1> HIDE DEF counted
<1>5. /\ [counted EXCEPT !.status = "succeeded"] \in Row
      /\ [counted EXCEPT !.status = "dead"] \in Row
      /\ [counted EXCEPT !.status = "failed", !.wait = "backoff"] \in Row
  BY <1>2, OutcomeType, StatusType
<1> QED
  BY <1>3, <1>4, <1>5 DEF Verdict, counted

\* The part of TypeOK about where the executors are.
ExecutorsTyped ==
  /\ pc \in [Executors -> Phases] /\ att \in [Executors -> Attempt]
  /\ \A e \in Executors : pc[e] \notin {"idle", "handing_back"} => att[e].row \in Rows

\* Resting and entering a phase keep it.
LEMMA PhaseType ==
  ASSUME TypeOK, NEW e \in Executors
  PROVE  /\ Rest(e) => ExecutorsTyped'
         /\ Enters(e, "handing_back", NoAttempt) => ExecutorsTyped'
         /\ \A a \in Attempt, ph \in Phases :
              a.row \in Rows /\ Enters(e, ph, a) => ExecutorsTyped'
BY NoAttemptType DEF TypeOK, ExecutorsTyped, Rest, Enters, Phases

\* Going on with a row the executor may run or hand off.
LEMMA ProceedType ==
  ASSUME TypeOK, NEW e \in Executors, NEW a \in Attempt, a.row \in Rows, Proceed(e, a)
  PROVE  ExecutorsTyped' /\ messages' \subseteq Message
<1>1. CASE HandsOff(e, a.row)
  <2>1. [row |-> a.row, by |-> a.by, at |-> a.at] \in Message
    BY <1>1 DEF Message, Attempt
  <2> QED
    BY <1>1, <2>1, PhaseType DEF Proceed, TypeOK
<1>2. CASE ~HandsOff(e, a.row)
  BY <1>2, PhaseType DEF Proceed, TypeOK, Phases
<1> QED
  BY <1>1, <1>2

LEMMA BeginType ==
  ASSUME TypeOK, NEW e \in Executors, NEW r \in Rows, NEW owner \in Executors \cup {Nobody},
         Begin(e, r, owner)
  PROVE  ExecutorsTyped' /\ messages' \subseteq Message
<1> DEFINE a == [row |-> r, by |-> owner, at |-> row[r].at, attempts |-> row[r].attempts]
<1>1. a \in Attempt /\ a.row \in Rows
  BY DEF Attempt, TypeOK, Row
<1>2. messages \subseteq Message
  BY DEF TypeOK
<1> HIDE DEF a
<1>3. CASE Rest(e) /\ UNCHANGED messages
  BY <1>2, <1>3, PhaseType
<1>4. CASE Proceed(e, a)
  BY <1>1, <1>4, ProceedType
<1>5. CASE Enters(e, "extending", a) /\ UNCHANGED messages
  BY <1>1, <1>2, <1>5, PhaseType DEF Phases
<1> QED
  BY <1>3, <1>4, <1>5 DEF Begin, a

\* Reading and writing the state's functions.
LEMMA Reads ==
  ASSUME TypeOK
  PROVE  /\ \A r \in Rows : row[r] \in Row /\ row[r].by \in Executors \cup {Nobody}
         /\ \A e \in Executors : att[e] \in Attempt /\ att[e].attempts \in Nat
         /\ \A e \in Executors : pc[e] \notin {"idle", "handing_back"} => att[e].row \in Rows
         /\ \A m \in messages : m.row \in Rows /\ m.by \in Executors \cup {Nobody}
BY DEF TypeOK, Row, Attempt, Message

\* No step leaves the types.
LEMMA TypeStep == TypeOK /\ [Next]_vars => TypeOK'
<1> SUFFICES ASSUME TypeOK, [Next]_vars PROVE TypeOK'
  OBVIOUS
<1>1. ASSUME NEW w \in Workers, Claim(w) PROVE TypeOK'
  <2>1. ASSUME NEW r \in Rows, NEW s \in Stamps PROVE ClaimedBy(w, s, row[r]) \in Row
    <3>1. row[r] \in Row /\ "claimed" \in Statuses /\ w \in Executors
      BY Reads, StatusType DEF Executors
    <3> QED
      BY <3>1 DEF ClaimedBy, Row
  <2> QED
    BY <1>1, <2>1 DEF Claim, TypeOK
<1>2. ASSUME NEW w \in Workers, HandBack(w) PROVE TypeOK'
  <2>1. ASSUME NEW r \in Rows PROVE [row[r] EXCEPT !.lease = "lapsed"] \in Row
    BY Reads DEF Row
  <2> QED
    BY <1>2, <2>1 DEF HandBack, TypeOK, Phases
<1>3. ASSUME NEW w \in Workers, NEW r \in Rows, Start(w, r) PROVE TypeOK'
  <2>1. w \in Executors
    BY DEF Executors
  <2>2. batch' \in [Workers -> SUBSET Rows]
    BY <1>3 DEF Start, TypeOK
  <2> QED
    BY <1>3, <2>1, <2>2, BeginType DEF Start, TypeOK, ExecutorsTyped
<1>4. ASSUME NEW t \in Tasks, NEW m \in messages, Take(t, m) PROVE TypeOK'
  <2>1. t \in Executors /\ m.row \in Rows
    BY Reads DEF Executors
  <2>2. [NoAttempt EXCEPT !.row = m.row] \in Attempt
    BY <2>1 DEF NoAttempt, Attempt
  <2>3. ExecutorsTyped'
    BY <1>4, <2>1, <2>2, PhaseType DEF Take, Phases, NoAttempt
  <2>4. row' \in [Rows -> Row]
    BY <1>4, <2>1 DEF Take, TypeOK, Row
  <2> QED
    BY <1>4, <2>3, <2>4 DEF Take, TypeOK, ExecutorsTyped
<1>5. ASSUME NEW t \in Tasks, StartTaken(t) PROVE TypeOK'
  <2>1. t \in Executors /\ t \in Executors \cup {Nobody}
    BY DEF Executors
  <2>2. att[t].row \in Rows
    BY <1>5, <2>1, Reads DEF StartTaken
  <2> QED
    BY <1>5, <2>1, <2>2, BeginType DEF StartTaken, TypeOK, ExecutorsTyped
<1>7. ASSUME NEW e \in Executors, NEW v \in Verdicts, Finish(e, v) PROVE TypeOK'
  <2>1. row' \in [Rows -> Row]
    <3>1. row \in [Rows -> Row]
      BY DEF TypeOK
    <3>2. att[e].row \in Rows /\ att[e].attempts \in Nat
      BY <1>7, Reads DEF Finish
    <3>3. Verdict(v, att[e].row, att[e].attempts) \in Row
      BY <3>1, <3>2, VerdictType
    <3> QED
      BY <1>7, <3>1, <3>2, <3>3 DEF Finish
  <2>2. ExecutorsTyped'
    BY <1>7, Reads, PhaseType DEF Finish, Phases
  <2>3. commits' \in [Rows -> Nat]
    BY <1>7 DEF Finish, TypeOK
  <2> QED
    BY <1>7, <2>1, <2>2, <2>3 DEF Finish, TypeOK, ExecutorsTyped
<1>8. ASSUME NEW e \in Executors, Extend(e) PROVE TypeOK'
  <2>1. row' \in [Rows -> Row]
    BY <1>8 DEF Extend, TypeOK, Row
  <2>2. ExecutorsTyped' /\ messages' \subseteq Message
    <3>1. att[e] \in Attempt /\ att[e].row \in Rows
      BY <1>8, Reads DEF Extend
    <3>2. CASE Owned(e)
      BY <1>8, <3>1, <3>2, ProceedType DEF Extend
    <3>3. CASE ~Owned(e)
      BY <1>8, <3>3, PhaseType DEF Extend, TypeOK
    <3> QED
      BY <3>2, <3>3
  <2> QED
    BY <1>8, <2>1, <2>2 DEF Extend, TypeOK, ExecutorsTyped
<1>9. ASSUME NEW e \in Executors, Lose(e) \/ RunCallbacks(e) PROVE TypeOK'
  BY <1>9, PhaseType DEF Lose, RunCallbacks, TypeOK, ExecutorsTyped
<1>10. ASSUME NEW e \in Executors, Crash(e) PROVE TypeOK'
  BY <1>10, PhaseType DEF Crash, TypeOK, ExecutorsTyped
<1>11. ASSUME NEW w \in Workers, Survive(w) PROVE TypeOK'
  BY <1>11, PhaseType DEF Survive, TypeOK, Executors, ExecutorsTyped
<1>12. ASSUME NEW m \in messages, TurnAway(m) \/ Drop(m) PROVE TypeOK'
  BY <1>12 DEF TurnAway, Drop, TypeOK
<1>13. ASSUME NEW r \in Rows, LeaseLapses(r) \/ WaitElapses(r) \/ GiveUpReached(r)
       PROVE  TypeOK'
  <2>1. row' \in [Rows -> Row]
    <3>1. row[r] \in Row /\ row \in [Rows -> Row]
      BY DEF TypeOK
    <3>2. /\ [row[r] EXCEPT !.lease = "lapsed"] \in Row
          /\ [row[r] EXCEPT !.wait = "none"] \in Row
          /\ [row[r] EXCEPT !.late = TRUE] \in Row
      BY <3>1 DEF Row
    <3>3. CASE LeaseLapses(r)
      BY <3>1, <3>2, <3>3 DEF LeaseLapses
    <3>4. CASE WaitElapses(r)
      BY <3>1, <3>2, <3>4 DEF WaitElapses
    <3>5. CASE GiveUpReached(r)
      BY <3>1, <3>2, <3>5 DEF GiveUpReached
    <3> QED
      BY <1>13, <3>3, <3>4, <3>5
  <2> QED
    BY <1>13, <2>1 DEF LeaseLapses, WaitElapses, GiveUpReached, TypeOK
<1>14. ASSUME NEW v \in Events, Fire(v) PROVE TypeOK'
  BY <1>14, OpenedType, ConstantsAssumption DEF Fire, TypeOK, RowsOf
<1>15. ASSUME NEW v \in Events, NEW S \in SUBSET RowsOf(v), Cancel(v, S) PROVE TypeOK'
  <2>1. ASSUME NEW r \in Rows PROVE [row[r] EXCEPT !.status = "cancelled"] \in Row
    BY Reads, OutcomeType, StatusType
  <2> QED
    BY <1>15, <2>1 DEF Cancel, TypeOK
<1>16. ASSUME NEW v \in Events, NEW S \in SUBSET RowsOf(v), Replay(v, S) PROVE TypeOK'
  BY <1>16, OpenedType DEF Replay, TypeOK
<1>17. ASSUME NEW S \in SUBSET Rows, Requeue(S) PROVE TypeOK'
  BY <1>17, OpenedType DEF Requeue, TypeOK
<1>18. CASE UNCHANGED vars
  BY <1>18 DEF vars, TypeOK
<1> QED
  BY <1>1, <1>2, <1>3, <1>4, <1>5, <1>7, <1>8, <1>9, <1>10, <1>11, <1>12, <1>13,
     <1>14, <1>15, <1>16, <1>17, <1>18 DEF Next, Work, Time, Operate

LEMMA TypeInit == Init => TypeOK
<1>1. Absent \in Row
  BY DEF Absent, Row, Statuses
<1> QED
  BY <1>1, NoAttemptType DEF Init, TypeOK, Phases, Executors

\* Every reachable state is typed; in particular an attempt past its start
\* always has a row.
THEOREM TypeCorrect == Spec => []TypeOK
BY TypeInit, TypeStep, PTL DEF Spec

-----------------------------------------------------------------------------
(* The inductive invariant.                                                *)

Safe == Phased /\ Carried /\ TokenHeld /\ RowsOfEvents /\ CommittedOnce /\ BudgetKept

LEMMA Actors ==
  /\ Executors = Workers \cup Tasks /\ Workers \cap Tasks = {}
  /\ Nobody \notin Executors /\ Nobody \notin Workers
BY ConstantsAssumption DEF Executors

\* What a row remembers of who may write it and how it stands.
SameStanding(r) ==
  /\ row'[r].status = row[r].status /\ row'[r].attempts = row[r].attempts
  /\ row'[r].by = row[r].by /\ row'[r].at = row[r].at

\* Steps that only forget: a batch, a message or an attempt is given up, a
\* lease or a wait runs out, and no row changes its standing.
LEMMA Forgetting ==
  ASSUME TypeOK, Safe,
         UNCHANGED <<events, stamp, commits>>,
         \A r \in Rows : SameStanding(r),
         messages' \subseteq messages,
         \A w \in Workers : batch'[w] \subseteq batch[w],
         \A e \in Executors :
           \/ pc'[e] = pc[e] /\ att'[e] = att[e]
           \/ pc'[e] = "idle"
           \/ pc'[e] = "handing_back" /\ e \in Workers
  PROVE  Safe'
<1>1. Phased'
  BY DEF Safe, Phased, Busy
<1>2. Carried'
  BY DEF Safe, Carried
<1>3. TokenHeld'
  <2> SUFFICES ASSUME NEW r \in Rows PROVE Placed(r)'
    BY DEF TokenHeld
  <2>1. Queued(r)' => Queued(r)
    BY DEF Queued, SameStanding
  <2>2. \A e \in Executors : Holds(e, r)' => Holds(e, r) /\ att'[e] = att[e]
    BY DEF Holds, Owned, SameStanding
  <2>3. \A t \in Tasks : t \in Executors
    BY Actors
  <2> QED
    BY <2>1, <2>2, <2>3 DEF Safe, TokenHeld, Placed, SameStanding
<1>4. RowsOfEvents' /\ CommittedOnce' /\ BudgetKept'
  BY DEF Safe, RowsOfEvents, CommittedOnce, BudgetKept, SameStanding
<1> QED
  BY <1>1, <1>2, <1>3, <1>4 DEF Safe

\* Rows are opened, again or for the first time: nobody holds an opened row.
LEMMA Opening ==
  ASSUME TypeOK, Safe, NEW S \in SUBSET Rows,
         UNCHANGED <<batch, stamp, pc, att, messages>>,
         events \subseteq events', \A r \in S : EventOf[r] \in events',
         \A r \in S : row'[r] \in {Opened("none"), Opened("schedule")} /\ commits'[r] = 0,
         \A r \in Rows \ S : row'[r] = row[r] /\ commits'[r] = commits[r]
  PROVE  Safe'
<1>1. \A r \in S : /\ row'[r].status = "pending" /\ row'[r].attempts = 0
                   /\ row'[r].by = Nobody /\ row'[r].at = NoStamp
  <2>1. \A x \in {Opened("none"), Opened("schedule")} :
          x.status = "pending" /\ x.attempts = 0 /\ x.by = Nobody /\ x.at = NoStamp
    BY DEF Opened, Absent
  <2>2. TAKE r \in S
  <2> QED
    BY <2>1
<1>2. Phased' /\ Carried'
  <2>1. Phased'
    BY DEF Safe, Phased, Busy
  <2>2. Carried'
    BY DEF Safe, Carried
  <2> QED
    BY <2>1, <2>2
<1>3. TokenHeld'
  <2> SUFFICES ASSUME NEW r \in Rows PROVE Placed(r)'
    BY DEF TokenHeld
  <2>1. CASE r \in S
    <3>1. ~Queued(r)'
      BY <1>1, <2>1, Actors DEF Queued, Safe, Carried
    <3>2. \A e \in Executors : ~Holds(e, r)'
      BY <1>1, <2>1, Actors DEF Holds, Owned, Safe, Phased
    <3> QED
      BY <1>1, <2>1, <3>1, <3>2, Actors DEF Placed
  <2>2. CASE r \notin S
    <3>1. row'[r] = row[r]
      BY <2>2
    <3>2. Queued(r)' = Queued(r) /\ \A e \in Executors : Holds(e, r)' = Holds(e, r)
      BY <3>1 DEF Queued, Holds, Owned
    <3> QED
      BY <3>1, <3>2 DEF Safe, TokenHeld, Placed
  <2> QED
    BY <2>1, <2>2
<1>4. RowsOfEvents'
  BY <1>1 DEF Safe, RowsOfEvents
<1>5. CommittedOnce' /\ BudgetKept'
  BY <1>1, ConstantsAssumption DEF Safe, CommittedOnce, BudgetKept, Retryable
<1> QED
  BY <1>2, <1>3, <1>4, <1>5 DEF Safe

LEMMA FireSafe ==
  ASSUME TypeOK, Safe, NEW v \in Events, Fire(v)
  PROVE  Safe'
<1>1. PICK S \in SUBSET RowsOf(v), wait \in [RowsOf(v) -> {"none", "schedule"}] :
        row' = [r \in Rows |-> IF r \in S THEN Opened(wait[r]) ELSE row[r]]
  BY DEF Fire
<1>2. \A r \in S : r \in Rows /\ EventOf[r] = v /\ commits'[r] = 0
  BY DEF Fire, RowsOf, Safe, RowsOfEvents, CommittedOnce
<1> QED
  BY <1>1, <1>2, Opening DEF Fire, RowsOf

LEMMA ReplaySafe ==
  ASSUME TypeOK, Safe, NEW v \in Events, NEW S \in SUBSET RowsOf(v), Replay(v, S)
  PROVE  Safe'
<1> DEFINE opened == {r \in S : row[r].status \in Terminal \cup {"absent"}}
<1>1. PICK wait \in [Rows -> {"none", "schedule"}] :
        row' = [r \in Rows |-> IF r \in opened THEN Opened(wait[r]) ELSE row[r]]
  BY DEF Replay
<1>2. opened \in SUBSET Rows /\ \A r \in opened : EventOf[r] \in events
  BY DEF Replay, RowsOf
<1>3. commits' = [r \in Rows |-> IF r \in opened THEN 0 ELSE commits[r]]
  BY DEF Replay
<1>4. UNCHANGED <<events, batch, stamp, pc, att, messages>>
  BY DEF Replay
<1> HIDE DEF opened
<1> QED
  BY <1>1, <1>2, <1>3, <1>4, Opening

LEMMA RequeueSafe ==
  ASSUME TypeOK, Safe, NEW S \in SUBSET Rows, Requeue(S)
  PROVE  Safe'
<1> DEFINE dead == {r \in S : row[r].status = "dead"}
<1>1. dead \in SUBSET Rows /\ \A r \in dead : EventOf[r] \in events
  BY DEF Safe, RowsOfEvents
<1>2. row' = [r \in Rows |-> IF r \in dead THEN Opened("none") ELSE row[r]]
  BY DEF Requeue
<1>3. commits' = [r \in Rows |-> IF r \in dead THEN 0 ELSE commits[r]]
  BY DEF Requeue
<1>4. UNCHANGED <<events, batch, stamp, pc, att, messages>>
  BY DEF Requeue
<1> HIDE DEF dead
<1> QED
  BY <1>1, <1>2, <1>3, <1>4, Opening

\* Withdrawing settles rows nobody holds.
LEMMA CancelSafe ==
  ASSUME TypeOK, Safe, NEW v \in Events, NEW S \in SUBSET RowsOf(v), Cancel(v, S)
  PROVE  Safe'
<1>1. \A r \in Rows :
        \/ row'[r] = row[r]
        \/ /\ row[r].status \in Retryable /\ row'[r].status = "cancelled"
           /\ row'[r].attempts = row[r].attempts
           /\ row'[r].by = row[r].by /\ row'[r].at = row[r].at
  BY Reads DEF Cancel, Withdrawable, Row
<1>2. Phased' /\ Carried'
  BY DEF Cancel, Safe, Phased, Busy, Carried
<1>3. TokenHeld'
  <2> SUFFICES ASSUME NEW r \in Rows PROVE Placed(r)'
    BY DEF TokenHeld
  <2>1. Queued(r)' = Queued(r) /\ \A e \in Executors : Holds(e, r)' = Holds(e, r)
    BY <1>1 DEF Cancel, Queued, Holds, Owned
  <2>2. UNCHANGED <<pc, att, batch, stamp>>
    BY DEF Cancel
  <2> QED
    BY <1>1, <2>1, <2>2 DEF Safe, TokenHeld, Placed, Retryable
<1>4. RowsOfEvents' /\ CommittedOnce' /\ BudgetKept'
  <2>1. UNCHANGED <<events, commits>>
    BY DEF Cancel
  <2>2. RowsOfEvents'
    BY <1>1, <2>1 DEF Safe, RowsOfEvents, Retryable
  <2>3. CommittedOnce'
    BY <1>1, <2>1 DEF Safe, CommittedOnce, Retryable
  <2>4. BudgetKept'
    BY <1>1 DEF Safe, BudgetKept, Retryable
  <2> QED
    BY <2>2, <2>3, <2>4
<1> QED
  BY <1>2, <1>3, <1>4 DEF Safe

\* Giving up, dying, losing messages and letting time pass only forget.
LEMMA ForgettingSafe ==
  ASSUME TypeOK, Safe,
         \/ \E w \in Workers : HandBack(w) \/ Survive(w)
         \/ \E e \in Executors : Lose(e) \/ RunCallbacks(e) \/ Crash(e)
         \/ \E m \in messages : TurnAway(m) \/ Drop(m)
         \/ \E r \in Rows : LeaseLapses(r) \/ WaitElapses(r) \/ GiveUpReached(r)
         \/ UNCHANGED vars
  PROVE  Safe'
<1>1. ASSUME NEW w \in Workers, HandBack(w) PROVE Safe'
  <2>1. \A r \in Rows : SameStanding(r)
    BY <1>1, Reads DEF HandBack, SameStanding, Row
  <2> QED
    BY <1>1, <2>1, Forgetting DEF HandBack, TypeOK
<1>2. ASSUME NEW w \in Workers, Survive(w) PROVE Safe'
  <2>1. w \in Executors
    BY Actors
  <2> QED
    BY <1>2, <2>1, Forgetting DEF Survive, Rest, SameStanding, TypeOK
<1>3. ASSUME NEW e \in Executors, Lose(e) \/ RunCallbacks(e) PROVE Safe'
  BY <1>3, Forgetting DEF Lose, RunCallbacks, Rest, SameStanding, TypeOK
<1>4. ASSUME NEW e \in Executors, Crash(e) PROVE Safe'
  BY <1>4, Forgetting DEF Crash, Rest, SameStanding, TypeOK
<1>5. ASSUME NEW m \in messages, TurnAway(m) \/ Drop(m) PROVE Safe'
  BY <1>5, Forgetting DEF TurnAway, Drop, SameStanding, TypeOK
<1>6. ASSUME NEW r \in Rows, LeaseLapses(r) \/ WaitElapses(r) \/ GiveUpReached(r) PROVE Safe'
  <2>1. \A q \in Rows : SameStanding(q)
    <3>1. CASE LeaseLapses(r)
      BY <3>1, Reads DEF LeaseLapses, SameStanding, TypeOK, Row
    <3>2. CASE WaitElapses(r)
      BY <3>2, Reads DEF WaitElapses, SameStanding, TypeOK, Row
    <3>3. CASE GiveUpReached(r)
      BY <3>3, Reads DEF GiveUpReached, SameStanding, TypeOK, Row
    <3> QED
      BY <1>6, <3>1, <3>2, <3>3
  <2> QED
    BY <1>6, <2>1, Forgetting DEF LeaseLapses, WaitElapses, GiveUpReached, TypeOK
<1>7. CASE UNCHANGED vars
  BY <1>7, Forgetting DEF vars, SameStanding
<1> QED
  BY <1>1, <1>2, <1>3, <1>4, <1>5, <1>6, <1>7

\* A claim puts a fresh token in the claimer's batch and takes the row from
\* whoever had it.
LEMMA ClaimSafe ==
  ASSUME TypeOK, Safe, NEW w \in Workers, Claim(w)
  PROVE  Safe'
<1>1. PICK S \in SUBSET Rows, s \in Stamps :
        /\ \A r \in S : Claimable(w, r) /\ Fresh(w, r, s)
        /\ row' = [r \in Rows |-> IF r \in S THEN ClaimedBy(w, s, row[r]) ELSE row[r]]
        /\ batch' = [batch EXCEPT ![w] = S]
        /\ stamp' = [stamp EXCEPT ![w] = s]
  BY DEF Claim
<1>2. /\ UNCHANGED <<events, pc, att, messages, commits>>
      /\ pc[w] = "idle" /\ batch[w] = {}
  BY DEF Claim
<1>3. ASSUME NEW r \in S
      PROVE  /\ row'[r].status = "claimed" /\ row'[r].by = w /\ row'[r].at = s
             /\ row'[r].attempts = row[r].attempts
             /\ row[r].status \in Retryable \cup {"claimed"}
  <2>1. row'[r] = ClaimedBy(w, s, row[r]) /\ Claimable(w, r) /\ row[r] \in Row
    BY <1>1, Reads
  <2> QED
    BY <2>1 DEF ClaimedBy, Claimable, Lapsed, Row
<1>4. ASSUME NEW r \in Rows, r \notin S PROVE row'[r] = row[r]
  BY <1>1, <1>4
<1>5. Phased'
  <2>1. \A x \in Workers : Busy(x) => batch'[x] = batch[x]
    BY <1>1, <1>2 DEF Busy, TypeOK
  <2> QED
    BY <1>2, <2>1 DEF Safe, Phased, Busy
<1>6. Carried'
  BY <1>2 DEF Safe, Carried
<1>7. TokenHeld'
  <2> SUFFICES ASSUME NEW r \in Rows PROVE Placed(r)'
    BY DEF TokenHeld
  <2>1. CASE r \in S
    <3>1. ~Queued(r)'
      BY <1>1, <1>2, <1>3, <2>1 DEF Queued, Fresh
    <3>2. \A e \in Executors : ~Holds(e, r)'
      BY <1>2, <1>3, <2>1 DEF Holds, Owned, Safe, Phased
    <3> QED
      BY <1>1, <1>3, <2>1, <3>1, <3>2 DEF Placed, TypeOK
  <2>2. CASE r \notin S
    <3>1. row'[r] = row[r]
      BY <1>4, <2>2
    <3>2. Queued(r)' = Queued(r) /\ \A e \in Executors : Holds(e, r)' = Holds(e, r)
      BY <1>2, <3>1 DEF Queued, Holds, Owned
    <3>3. \A x \in Workers : r \in batch'[x] => r \in batch[x] /\ stamp'[x] = stamp[x]
      BY <1>1, <2>2 DEF TypeOK
    <3> QED
      BY <1>2, <3>1, <3>2, <3>3 DEF Safe, TokenHeld, Placed
  <2> QED
    BY <2>1, <2>2
<1>8. RowsOfEvents' /\ CommittedOnce' /\ BudgetKept'
  BY <1>2, <1>3, <1>4 DEF Safe, RowsOfEvents, CommittedOnce, BudgetKept, Retryable
<1> QED
  BY <1>5, <1>6, <1>7, <1>8 DEF Safe

\* An attempt goes on, or hands its row off, under a token that is its own or
\* nobody's concern.
LEMMA GoingOn ==
  ASSUME TypeOK, Safe, NEW e \in Executors, NEW a \in Attempt,
         a.row \in Rows, a.by = e,
         UNCHANGED <<events, stamp, commits>>,
         \A r \in Rows : SameStanding(r),
         \A w \in Workers : batch'[w] \subseteq batch[w],
         e \in Workers => a.row \notin batch'[e],
         row[a.row].by = e /\ row[a.row].at = a.at =>
           /\ row[a.row].status = "claimed" /\ ~Queued(a.row)
           /\ a.attempts = row[a.row].attempts,
         \/ Proceed(e, a)
         \/ Enters(e, "extending", a) /\ UNCHANGED messages
  PROVE  Safe'
<1>1. \/ /\ Rest(e) /\ e \in Workers
         /\ messages' = messages \cup {[row |-> a.row, by |-> e, at |-> a.at]}
      \/ /\ \/ Enters(e, "running", a)
            \/ Enters(e, "extending", a)
         /\ messages' = messages
  BY DEF Proceed, HandsOff
<1>2. \A f \in Executors \ {e} : pc'[f] = pc[f] /\ att'[f] = att[f]
  BY <1>1 DEF Rest, Enters, TypeOK
<1>3. \/ pc'[e] = "idle"
      \/ pc'[e] \in {"running", "extending"} /\ att'[e] = a /\ messages' = messages
  BY <1>1 DEF Rest, Enters, TypeOK
<1>4. Phased'
  BY <1>2, <1>3 DEF Safe, Phased, Busy
<1>5. Carried'
  BY <1>1 DEF Safe, Carried
<1>6. TokenHeld'
  <2> SUFFICES ASSUME NEW r \in Rows PROVE Placed(r)'
    BY DEF TokenHeld
  <2>1. \A f \in Executors \ {e} : Holds(f, r)' => Holds(f, r) /\ row[r].by = f
    BY <1>2 DEF Holds, Owned, SameStanding, Safe, Phased
  <2>2. Holds(e, r)' => /\ a.row = r /\ att'[e] = a /\ messages' = messages
                        /\ row[r].by = e /\ row[r].at = a.at
    BY <1>3 DEF Holds, Owned, SameStanding
  <2>3. Queued(r)' => \/ Queued(r)
                      \/ /\ r = a.row /\ e \in Workers
                         /\ row[r].by = e /\ row[r].at = a.at
    BY <1>1 DEF Queued, SameStanding
  <2>4. messages' = messages => Queued(r)' = Queued(r)
    BY DEF Queued, SameStanding
  <2>5. \A t \in Tasks : pc'[t] = "taken" => pc[t] = "taken" /\ att'[t] = att[t]
    BY <1>2, <1>3, Actors
  <2>6. \A f \in Executors : Holds(f, r)' =>
          /\ row'[r].status = "claimed" /\ ~Queued(r)'
          /\ att'[f].attempts = row'[r].attempts
    <3>1. ASSUME NEW f \in Executors \ {e}, Holds(f, r)'
          PROVE  /\ row'[r].status = "claimed" /\ ~Queued(r)'
                 /\ att'[f].attempts = row'[r].attempts
      BY <3>1, <1>2, <2>1, <2>3 DEF Safe, TokenHeld, Placed, SameStanding
    <3>2. ASSUME Holds(e, r)'
          PROVE  /\ row'[r].status = "claimed" /\ ~Queued(r)'
                 /\ att'[e].attempts = row'[r].attempts
      BY <3>2, <2>2, <2>4 DEF SameStanding
    <3> QED
      BY <3>1, <3>2
  <2>7. \A w \in Workers : r \in batch'[w] /\ row'[r].by = w =>
          row'[r].status = "claimed" /\ row'[r].at = stamp'[w] /\ ~Queued(r)'
    BY <2>3 DEF Safe, TokenHeld, Placed, SameStanding
  <2>8. Queued(r)' => row'[r].status = "claimed"
    BY <2>3 DEF Safe, TokenHeld, Placed, SameStanding
  <2>9. \A t \in Tasks : pc'[t] = "taken" /\ att'[t].row = r /\ row'[r].by = t =>
          row'[r].status = "claimed"
    BY <2>5 DEF Safe, TokenHeld, Placed, SameStanding
  <2> QED
    BY <2>6, <2>7, <2>8, <2>9 DEF Placed
<1>7. RowsOfEvents' /\ CommittedOnce' /\ BudgetKept'
  BY DEF Safe, RowsOfEvents, CommittedOnce, BudgetKept, SameStanding
<1> QED
  BY <1>4, <1>5, <1>6, <1>7 DEF Safe

\* A row is begun by an owner it is claimed for if it names that owner.
LEMMA BeginSafe ==
  ASSUME TypeOK, Safe, NEW e \in Executors, NEW r \in Rows, Begin(e, r, e),
         UNCHANGED <<events, row, stamp, commits>>,
         \A w \in Workers : batch'[w] \subseteq batch[w],
         e \in Workers => r \notin batch'[e],
         row[r].by = e => row[r].status = "claimed" /\ ~Queued(r)
  PROVE  Safe'
<1> DEFINE a == [row |-> r, by |-> e, at |-> row[r].at, attempts |-> row[r].attempts]
<1>1. /\ a \in Attempt
      /\ a.row = r /\ a.by = e /\ a.at = row[r].at /\ a.attempts = row[r].attempts
  BY Reads DEF Attempt, TypeOK, Row
<1>2. \A q \in Rows : SameStanding(q)
  BY DEF SameStanding
<1>3. \/ Rest(e) /\ UNCHANGED messages
      \/ Proceed(e, a)
      \/ Enters(e, "extending", a) /\ UNCHANGED messages
  BY DEF Begin
<1> HIDE DEF a
<1>4. CASE Rest(e) /\ UNCHANGED messages
  BY <1>2, <1>4, Forgetting DEF Rest, TypeOK
<1>5. CASE Proceed(e, a) \/ (Enters(e, "extending", a) /\ UNCHANGED messages)
  BY <1>1, <1>2, <1>5, GoingOn
<1> QED
  BY <1>3, <1>4, <1>5

LEMMA StartSafe ==
  ASSUME TypeOK, Safe, NEW w \in Workers, NEW r \in Rows, Start(w, r)
  PROVE  Safe'
<1>1. w \in Executors
  BY Actors
<1>2. \A x \in Workers : batch'[x] \subseteq batch[x]
  BY DEF Start, TypeOK
<1>3. r \notin batch'[w]
  BY DEF Start, TypeOK
<1>4. row[r].by = w => row[r].status = "claimed" /\ ~Queued(r)
  BY DEF Start, Safe, TokenHeld, Placed
<1> QED
  BY <1>1, <1>2, <1>3, <1>4, BeginSafe DEF Start

LEMMA StartTakenSafe ==
  ASSUME TypeOK, Safe, NEW t \in Tasks, StartTaken(t)
  PROVE  Safe'
<1> DEFINE r == att[t].row
<1>1. t \in Executors /\ t \notin Workers
  BY Actors
<1>2. r \in Rows
  BY <1>1, Reads DEF StartTaken
<1>3. row[r].by = t => row[r].status = "claimed" /\ ~Queued(r)
  BY <1>1, <1>2 DEF StartTaken, Safe, TokenHeld, Placed, Carried, Queued
<1> QED
  BY <1>1, <1>2, <1>3, BeginSafe DEF StartTaken

\* Extending a lease shows the row is still held, and so still claimed.
LEMMA ExtendSafe ==
  ASSUME TypeOK, Safe, NEW e \in Executors, Extend(e)
  PROVE  Safe'
<1> DEFINE a == att[e]
<1>1. a \in Attempt /\ a.row \in Rows /\ a.by = e /\ (e \in Workers => a.row \notin batch[e])
  BY Reads DEF Extend, Safe, Phased, Busy
<1>2. \A r \in Rows : SameStanding(r)
  BY <1>1, Reads DEF Extend, SameStanding, TypeOK, Row
<1>3. CASE Owned(e)
  <2>1. Holds(e, a.row)
    BY <1>3 DEF Extend, Holds
  <2>2. /\ row[a.row].status = "claimed" /\ ~Queued(a.row)
        /\ a.attempts = row[a.row].attempts
    BY <1>1, <2>1 DEF Safe, TokenHeld, Placed
  <2>3. Proceed(e, a) /\ UNCHANGED <<events, batch, stamp, commits>>
    BY <1>3 DEF Extend
  <2> HIDE DEF a
  <2> QED
    BY <1>1, <1>2, <2>2, <2>3, GoingOn
<1>4. CASE ~Owned(e)
  BY <1>2, <1>4, Forgetting DEF Extend, Rest, TypeOK
<1> QED
  BY <1>3, <1>4

\* A take moves a claimed row to the task, and the message's claim is void.
LEMMA TakeSafe ==
  ASSUME TypeOK, Safe, NEW t \in Tasks, NEW m \in messages, Take(t, m)
  PROVE  Safe'
<1> DEFINE r == m.row
<1>1. r \in Rows /\ t \in Executors /\ t \notin Workers
  BY Reads, Actors
<1>2. /\ row[r].status = "claimed" /\ row'[r].status = "claimed" /\ row'[r].by = t
      /\ row'[r].attempts = row[r].attempts
  BY <1>1, Reads DEF Take, Current, TypeOK, Row
<1>3. \A q \in Rows \ {r} : row'[q] = row[q]
  BY <1>1 DEF Take, TypeOK
<1>4. /\ \A e \in Executors \ {t} : pc'[e] = pc[e] /\ att'[e] = att[e]
      /\ pc'[t] = "taken" /\ att'[t].row = r
  BY <1>1 DEF Take, Enters, TypeOK, NoAttempt
<1>5. messages' \subseteq messages /\ UNCHANGED <<events, batch, stamp, commits>>
  BY DEF Take
<1> HIDE DEF r
<1>6. Phased'
  BY <1>4, <1>5 DEF Safe, Phased, Busy
<1>7. Carried'
  BY <1>5 DEF Safe, Carried
<1>8. TokenHeld'
  <2> SUFFICES ASSUME NEW q \in Rows PROVE Placed(q)'
    BY DEF TokenHeld
  <2>1. CASE q = r
    <3>1. ~Queued(q)'
      BY <1>1, <1>2, <1>5, <2>1 DEF Queued, Safe, Carried
    <3>2. \A e \in Executors : ~Holds(e, q)'
      BY <1>2, <1>4, <2>1 DEF Holds, Owned, Safe, Phased
    <3> QED
      BY <1>1, <1>2, <2>1, <3>1, <3>2 DEF Placed
  <2>2. CASE q # r
    <3>1. row'[q] = row[q]
      BY <1>3, <2>2
    <3>2. Queued(q)' => Queued(q)
      BY <1>5, <3>1 DEF Queued
    <3>3. \A e \in Executors : Holds(e, q)' => Holds(e, q) /\ att'[e] = att[e]
      BY <1>4, <2>2, <3>1 DEF Holds, Owned
    <3>4. \A x \in Tasks : pc'[x] = "taken" /\ att'[x].row = q =>
            pc[x] = "taken" /\ att[x].row = q
      BY <1>4, <2>2, Actors
    <3> QED
      BY <1>5, <3>1, <3>2, <3>3, <3>4 DEF Safe, TokenHeld, Placed
  <2> QED
    BY <2>1, <2>2
<1>9. RowsOfEvents' /\ CommittedOnce' /\ BudgetKept'
  BY <1>2, <1>3, <1>5 DEF Safe, RowsOfEvents, CommittedOnce, BudgetKept
<1> QED
  BY <1>6, <1>7, <1>8, <1>9 DEF Safe

\* What a verdict changes of a row: never the token, and the count by one at
\* most.
LEMMA VerdictShape ==
  ASSUME TypeOK, NEW v \in Verdicts, NEW r \in Rows, NEW seen \in Nat
  PROVE  LET new == Verdict(v, r, seen)
         IN  /\ new.by = row[r].by /\ new.at = row[r].at
             /\ new.status \in {"succeeded", "dead", "orphaned", "pending", "failed"}
             /\ new.status = "succeeded" <=> v = "success"
             /\ \/ new.attempts = row[r].attempts
                \/ /\ new.attempts = seen + 1
                   /\ new.status = "failed" => seen + 1 < MaxAttempts
                   /\ new.status \in {"succeeded", "failed", "dead"}
<1>1. row[r] \in Row /\ MaxAttempts \in Nat
  BY Reads, ConstantsAssumption
<1> DEFINE counted == [row[r] EXCEPT !.attempts = seen + 1]
<1>2. /\ counted \in Row /\ counted.by = row[r].by /\ counted.at = row[r].at
      /\ counted.attempts = seen + 1
  BY <1>1 DEF Row
<1> HIDE DEF counted
<1>3. CASE v = "success"
  <2>1. Verdict(v, r, seen) = [counted EXCEPT !.status = "succeeded"]
    BY <1>3 DEF Verdict, Defers, counted
  <2> QED
    BY <1>1, <1>2, <1>3, <2>1 DEF Row
<1>4. CASE v = "permanent"
  <2>1. Verdict(v, r, seen) = [counted EXCEPT !.status = "dead"]
    BY <1>4 DEF Verdict, Defers, counted
  <2> QED
    BY <1>1, <1>2, <1>4, <2>1 DEF Row
<1>5. CASE v = "orphan"
  <2>1. Verdict(v, r, seen) = [row[r] EXCEPT !.status = "orphaned"]
    BY <1>5 DEF Verdict, Defers
  <2> QED
    BY <1>1, <1>5, <2>1 DEF Row
<1>6. CASE v = "not_yet"
  <2>1. Verdict(v, r, seen) = [row[r] EXCEPT !.status = "pending",
                                        !.wait = "schedule", !.late = FALSE]
    BY <1>6 DEF Verdict, Defers
  <2> QED
    BY <1>1, <1>6, <2>1 DEF Row
<1>7. CASE Defers(v, r)
  <2>1. v = "defer"
    BY <1>7 DEF Defers
  <2>2. Verdict(v, r, seen) = IF GivenUp(r) THEN [row[r] EXCEPT !.status = "dead"]
                              ELSE [row[r] EXCEPT !.status = "failed", !.wait = "backoff"]
    BY <1>7, <2>1 DEF Verdict, PutOff
  <2> QED
    BY <1>1, <2>1, <2>2 DEF Row
<1>8. CASE v \notin {"success", "permanent", "orphan", "not_yet"} /\ ~Defers(v, r)
  <2>1. Verdict(v, r, seen) = IF Exhausted(seen)
          THEN [counted EXCEPT !.status = "dead"]
          ELSE [counted EXCEPT !.status = "failed", !.wait = "backoff"]
    BY <1>8 DEF Verdict, counted
  <2> QED
    BY <1>1, <1>2, <1>8, <2>1 DEF Row, Exhausted
<1> QED
  BY <1>3, <1>4, <1>5, <1>6, <1>7, <1>8

\* Only the holder of a row records its outcome, and only once: the row was
\* claimed, its effect has not been committed, and the holder lets go.
LEMMA FinishSafe ==
  ASSUME TypeOK, Safe, NEW e \in Executors, NEW v \in Verdicts, Finish(e, v)
  PROVE  Safe'
<1> DEFINE r == att[e].row
           new == Verdict(v, r, att[e].attempts)
<1>1. r \in Rows /\ att[e].attempts \in Nat /\ att[e].by = e
  BY Reads DEF Finish, Safe, Phased
<1>2. /\ Holds(e, r) /\ row[r].by = e /\ row[r].status = "claimed" /\ ~Queued(r)
      /\ att[e].attempts = row[r].attempts
  <2>1. Holds(e, r)
    BY DEF Finish, Holds
  <2> QED
    BY <1>1, <2>1 DEF Safe, TokenHeld, Placed, Holds, Owned
<1>3. /\ row'[r] = new /\ \A q \in Rows \ {r} : row'[q] = row[q]
      /\ commits'[r] = IF v = "success" THEN commits[r] + 1 ELSE commits[r]
      /\ \A q \in Rows \ {r} : commits'[q] = commits[q]
  BY <1>1 DEF Finish, TypeOK
<1>4. /\ new.by = e /\ new.at = row[r].at
      /\ new.status \in {"succeeded", "dead", "orphaned", "pending", "failed"}
      /\ new.status = "succeeded" <=> v = "success"
      /\ \/ new.attempts = row[r].attempts
         \/ /\ new.attempts = row[r].attempts + 1
            /\ new.status = "failed" => row[r].attempts + 1 < MaxAttempts
            /\ new.status \in {"succeeded", "failed", "dead"}
  BY <1>1, <1>2, VerdictShape
<1>5. /\ \A f \in Executors \ {e} : pc'[f] = pc[f] /\ att'[f] = att[f]
      /\ \/ pc'[e] = "callbacks" /\ att'[e] = att[e]
         \/ pc'[e] = "idle"
         \/ pc'[e] = "handing_back" /\ e \in Workers
      /\ UNCHANGED <<events, batch, stamp, messages>>
  BY DEF Finish, Enters, Rest, SetsAside, TypeOK
<1> HIDE DEF r, new
<1>6. Phased'
  BY <1>1, <1>5 DEF Safe, Phased, Busy, r
<1>7. Carried'
  BY <1>5 DEF Safe, Carried
<1>8. TokenHeld'
  <2> SUFFICES ASSUME NEW q \in Rows PROVE Placed(q)'
    BY DEF TokenHeld
  <2>1. CASE q = r
    <3>1. ~Queued(q)'
      BY <1>2, <1>3, <1>4, <1>5, <2>1 DEF Queued
    <3>2. \A f \in Executors : ~Holds(f, q)'
      BY <1>3, <1>4, <1>5, <2>1 DEF Holds, Owned, Safe, Phased
    <3>3. \A t \in Tasks : ~(pc'[t] = "taken" /\ row'[q].by = t)
      BY <1>3, <1>4, <1>5, <2>1
    <3>4. \A w \in Workers : ~(q \in batch'[w] /\ row'[q].by = w)
      BY <1>2, <1>3, <1>4, <1>5, <2>1 DEF Safe, Phased, Busy, Holds, r
    <3> QED
      BY <3>1, <3>2, <3>3, <3>4 DEF Placed
  <2>2. CASE q # r
    <3>1. row'[q] = row[q]
      BY <1>3, <2>2
    <3>2. Queued(q)' = Queued(q)
      BY <1>5, <3>1 DEF Queued
    <3>3. \A f \in Executors : Holds(f, q)' => Holds(f, q) /\ att'[f] = att[f]
      BY <1>5, <3>1 DEF Holds, Owned
    <3>4. \A t \in Tasks : pc'[t] = "taken" => pc[t] = "taken" /\ att'[t] = att[t]
      BY <1>5, Actors
    <3> QED
      BY <1>5, <3>1, <3>2, <3>3, <3>4 DEF Safe, TokenHeld, Placed
  <2> QED
    BY <2>1, <2>2
<1>9. RowsOfEvents'
  BY <1>2, <1>3, <1>5 DEF Safe, RowsOfEvents
<1>10. CommittedOnce'
  BY <1>1, <1>2, <1>3, <1>4 DEF Safe, CommittedOnce
<1>11. BudgetKept'
  <2>1. row[r].attempts \in Nat /\ row[r].attempts < MaxAttempts /\ MaxAttempts \in Nat
    BY <1>1, <1>2, Reads, ConstantsAssumption DEF Safe, BudgetKept, Row
  <2> QED
    BY <1>1, <1>3, <1>4, <2>1 DEF Safe, BudgetKept, Retryable
<1> QED
  BY <1>6, <1>7, <1>8, <1>9, <1>10, <1>11 DEF Safe

\* No step leaves the invariant.
LEMMA SafeStep ==
  ASSUME TypeOK, Safe, [Next]_vars
  PROVE  Safe'
<1>1. ASSUME NEW w \in Workers, Claim(w) PROVE Safe'
  BY <1>1, ClaimSafe
<1>2. ASSUME NEW w \in Workers, NEW r \in Rows, Start(w, r) PROVE Safe'
  BY <1>2, StartSafe
<1>3. ASSUME NEW t \in Tasks, NEW m \in messages, Take(t, m) PROVE Safe'
  BY <1>3, TakeSafe
<1>4. ASSUME NEW t \in Tasks, StartTaken(t) PROVE Safe'
  BY <1>4, StartTakenSafe
<1>5. ASSUME NEW e \in Executors, NEW v \in Verdicts, Finish(e, v) PROVE Safe'
  BY <1>5, FinishSafe
<1>6. ASSUME NEW e \in Executors, Extend(e) PROVE Safe'
  BY <1>6, ExtendSafe
<1>7. ASSUME NEW v \in Events, Fire(v) PROVE Safe'
  BY <1>7, FireSafe
<1>8. ASSUME NEW v \in Events, NEW S \in SUBSET RowsOf(v), Cancel(v, S) \/ Replay(v, S)
      PROVE  Safe'
  BY <1>8, CancelSafe, ReplaySafe
<1>9. ASSUME NEW S \in SUBSET Rows, Requeue(S) PROVE Safe'
  BY <1>9, RequeueSafe
<1>10. CASE \/ \E w \in Workers : HandBack(w) \/ Survive(w)
            \/ \E e \in Executors : Lose(e) \/ RunCallbacks(e) \/ Crash(e)
            \/ \E m \in messages : TurnAway(m) \/ Drop(m)
            \/ Time
            \/ UNCHANGED vars
  BY <1>10, ForgettingSafe DEF Time
<1> QED
  BY <1>1, <1>2, <1>3, <1>4, <1>5, <1>6, <1>7, <1>8, <1>9, <1>10 DEF Next, Work, Operate

LEMMA SafeInit == Init => Safe
<1>1. Init => Phased /\ Carried
  BY DEF Init, Phased, Carried, Busy
<1>2. Init => TokenHeld
  BY DEF Init, TokenHeld, Placed, Queued, Holds, Executors
<1>3. Init => RowsOfEvents /\ CommittedOnce /\ BudgetKept
  BY ConstantsAssumption DEF Init, RowsOfEvents, CommittedOnce, BudgetKept, Absent, Retryable
<1> QED
  BY <1>1, <1>2, <1>3 DEF Safe

\* IInv is inductive: executors, tokens and rows agree in every reachable state.
THEOREM InvariantCorrect == Spec => []IInv
<1>1. Init => TypeOK /\ Safe
  BY TypeInit, SafeInit
<1>2. (TypeOK /\ Safe) /\ [Next]_vars => (TypeOK /\ Safe)'
  BY TypeStep, SafeStep
<1>3. TypeOK /\ Safe => IInv
  BY DEF Safe, IInv
<1> QED
  BY <1>1, <1>2, <1>3, PTL DEF Spec

-----------------------------------------------------------------------------
(* What follows of the invariant's states.                                 *)

LEMMA OneHolderFollows == ASSUME TypeOK, Safe PROVE OneHolder
<1> SUFFICES ASSUME NEW r \in Rows
             PROVE  /\ \A e \in Executors : Holds(e, r) =>
                         /\ row[r].status = "claimed" /\ ~Queued(r)
                         /\ \A f \in Executors \ {e} : ~Holds(f, r)
                         /\ \A w \in Workers : ~Waits(w, r)
                    /\ \A w \in Workers : Waits(w, r) => row[r].status = "claimed" /\ ~Queued(r)
                    /\ Queued(r) => row[r].status = "claimed"
  BY DEF OneHolder
<1>1. \A e \in Executors : Holds(e, r) => row[r].by = e
  BY DEF Holds, Owned, Safe, Phased
<1>2. \A e \in Executors, w \in Workers : ~(Holds(e, r) /\ Waits(w, r))
  BY <1>1, Actors DEF Waits, Holds, Safe, Phased, Busy
<1> QED
  BY <1>1, <1>2 DEF Safe, TokenHeld, Placed, Waits

\* The token of a row is in one pair of hands, and then the row is claimed.
THEOREM OneHolderCorrect == Spec => []OneHolder
<1>1. IInv => OneHolder
  BY OneHolderFollows DEF IInv, Safe
<1> QED
  BY <1>1, InvariantCorrect, PTL

\* A receiver's database work stands exactly once for a succeeded row and for
\* no other row.
THEOREM CommittedOnceCorrect == Spec => []CommittedOnce
<1>1. IInv => CommittedOnce
  BY DEF IInv
<1> QED
  BY <1>1, InvariantCorrect, PTL

\* No row is charged past its budget, and an owed row has an attempt left.
THEOREM BudgetKeptCorrect == Spec => []BudgetKept
<1>1. IInv => BudgetKept
  BY DEF IInv
<1> QED
  BY <1>1, InvariantCorrect, PTL

-----------------------------------------------------------------------------
(* What a step does to a row.                                              *)

Owing(s) == s \in Retryable \cup {"claimed"}

\* The ways a row changes: not at all; opened from a settled state; moved about
\* while owed, changing hands under a live lease only by its own hand-off;
\* recorded by its holder together with its effect; or withdrawn.
RowLife(r) ==
  \/ row'[r] = row[r] /\ commits'[r] = commits[r]
  \/ /\ row[r].status \in Terminal \cup {"absent"}
     /\ row'[r] \in {Opened("none"), Opened("schedule")} /\ commits'[r] = 0
  \/ /\ Owing(row[r].status) /\ Owing(row'[r].status)
     /\ row'[r].attempts = row[r].attempts /\ commits'[r] = commits[r]
     /\ \/ row'[r].by = row[r].by
        \/ row[r].status # "claimed" \/ row[r].lease # "held"
        \/ Queued(r) /\ row'[r].by \in Tasks
  \/ /\ row[r].status = "claimed" /\ row'[r].by = row[r].by
     /\ row'[r].status \in {"succeeded", "dead", "orphaned", "pending", "failed"}
     /\ \/ row'[r].attempts = row[r].attempts
        \/ /\ row'[r].attempts = row[r].attempts + 1
           /\ row'[r].status \in {"succeeded", "failed", "dead"}
     /\ commits'[r] = IF row'[r].status = "succeeded" THEN commits[r] + 1 ELSE commits[r]
  \/ /\ row[r].status \in Retryable /\ row'[r].status = "cancelled"
     /\ row'[r].attempts = row[r].attempts /\ row'[r].by = row[r].by
     /\ commits'[r] = commits[r]

LEMMA RowLives ==
  ASSUME TypeOK, Safe, [Next]_vars, NEW r \in Rows
  PROVE  RowLife(r)
<1>1. ASSUME NEW w \in Workers, Claim(w) PROVE RowLife(r)
  <2>1. PICK S \in SUBSET Rows, s \in Stamps :
          /\ \A q \in S : Claimable(w, q)
          /\ row' = [q \in Rows |-> IF q \in S THEN ClaimedBy(w, s, row[q]) ELSE row[q]]
    BY <1>1 DEF Claim
  <2>2. commits' = commits
    BY <1>1 DEF Claim
  <2>3. CASE r \in S
    <3>1. row'[r] = ClaimedBy(w, s, row[r]) /\ Claimable(w, r) /\ row[r] \in Row
      BY <2>1, <2>3, Reads
    <3>2. row'[r].status = "claimed" /\ row'[r].attempts = row[r].attempts
      BY <3>1 DEF ClaimedBy, Row
    <3>3. Owing(row[r].status) /\ (row[r].status # "claimed" \/ row[r].lease # "held")
      BY <3>1 DEF Claimable, Lapsed, Owing, Retryable
    <3> QED
      BY <2>2, <3>2, <3>3 DEF RowLife, Owing
  <2>4. CASE r \notin S
    BY <2>1, <2>2, <2>4 DEF RowLife
  <2> QED
    BY <2>3, <2>4
<1>2. ASSUME NEW w \in Workers, HandBack(w) PROVE RowLife(r)
  <2>1. \/ row'[r] = row[r]
        \/ row[r].status = "claimed" /\ row'[r] = [row[r] EXCEPT !.lease = "lapsed"]
    BY <1>2 DEF HandBack, HandedBack
  <2> QED
    BY <1>2, <2>1, Reads DEF HandBack, RowLife, Owing, Row
<1>3. ASSUME NEW t \in Tasks, NEW m \in messages, Take(t, m) PROVE RowLife(r)
  <2>1. CASE r = m.row
    <3>1. Queued(r)
      BY <1>3, <2>1 DEF Take, Current, Queued
    <3>2. /\ row[r].status = "claimed" /\ row'[r].status = "claimed"
          /\ row'[r].attempts = row[r].attempts /\ row'[r].by = t
      BY <1>3, <2>1, Reads DEF Take, Current, TypeOK, Row
    <3> QED
      BY <1>3, <3>1, <3>2 DEF Take, RowLife, Owing
  <2>2. CASE r # m.row
    BY <1>3, <2>2 DEF Take, RowLife, TypeOK
  <2> QED
    BY <2>1, <2>2
<1>4. ASSUME NEW e \in Executors, NEW v \in Verdicts, Finish(e, v) PROVE RowLife(r)
  <2> DEFINE new == Verdict(v, r, att[e].attempts)
  <2>1. CASE r = att[e].row
    <3>1. Holds(e, r)
      BY <1>4, <2>1 DEF Finish, Holds
    <3>2. row[r].status = "claimed" /\ att[e].attempts = row[r].attempts /\ att[e].attempts \in Nat
      BY <3>1, Reads DEF Safe, TokenHeld, Placed
    <3>3. /\ row'[r] = new
          /\ commits'[r] = IF v = "success" THEN commits[r] + 1 ELSE commits[r]
      BY <1>4, <2>1 DEF Finish, TypeOK
    <3>4. /\ new.by = row[r].by
          /\ new.status \in {"succeeded", "dead", "orphaned", "pending", "failed"}
          /\ new.status = "succeeded" <=> v = "success"
          /\ \/ new.attempts = row[r].attempts
             \/ /\ new.attempts = row[r].attempts + 1
                /\ new.status \in {"succeeded", "failed", "dead"}
      BY <3>2, VerdictShape
    <3> HIDE DEF new
    <3> QED
      BY <3>2, <3>3, <3>4 DEF RowLife
  <2>2. CASE r # att[e].row
    BY <1>4, <2>2 DEF Finish, RowLife, TypeOK
  <2> QED
    BY <2>1, <2>2
<1>5. ASSUME NEW e \in Executors, Extend(e) PROVE RowLife(r)
  <2>1. CASE row'[r] = row[r]
    BY <1>5, <2>1 DEF Extend, RowLife
  <2>2. CASE row'[r] # row[r]
    <3>1. r = att[e].row /\ Owned(e) /\ row'[r] = [row[r] EXCEPT !.lease = "held"]
      BY <1>5, <2>2 DEF Extend, TypeOK
    <3>2. row[r].status = "claimed"
      BY <1>5, <3>1 DEF Extend, Holds, Safe, TokenHeld, Placed
    <3> QED
      BY <1>5, <3>1, <3>2, Reads DEF Extend, RowLife, Owing, Row
  <2> QED
    BY <2>1, <2>2
<1>6. ASSUME NEW q \in Rows, LeaseLapses(q) \/ WaitElapses(q) \/ GiveUpReached(q)
      PROVE  RowLife(r)
  <2>1. CASE LeaseLapses(q)
    BY <2>1, Reads DEF LeaseLapses, RowLife, Owing, TypeOK, Row
  <2>2. CASE WaitElapses(q)
    BY <2>2, Reads DEF WaitElapses, RowLife, Owing, TypeOK, Row
  <2>3. CASE GiveUpReached(q)
    BY <2>3, Reads DEF GiveUpReached, RowLife, Owing, TypeOK, Row
  <2> QED
    BY <1>6, <2>1, <2>2, <2>3
<1>7. ASSUME NEW v \in Events, Fire(v) PROVE RowLife(r)
  <2>1. PICK S \in SUBSET RowsOf(v), wait \in [RowsOf(v) -> {"none", "schedule"}] :
          row' = [q \in Rows |-> IF q \in S THEN Opened(wait[q]) ELSE row[q]]
    BY <1>7 DEF Fire
  <2>2. r \in S => row[r].status = "absent" /\ commits[r] = 0
    BY <1>7 DEF Fire, RowsOf, Safe, RowsOfEvents, CommittedOnce
  <2> QED
    BY <1>7, <2>1, <2>2 DEF Fire, RowLife
<1>8. ASSUME NEW v \in Events, NEW S \in SUBSET RowsOf(v), Cancel(v, S) PROVE RowLife(r)
  <2>1. \/ row'[r] = row[r]
        \/ row[r].status \in Retryable /\ row'[r] = [row[r] EXCEPT !.status = "cancelled"]
    BY <1>8 DEF Cancel, Withdrawable
  <2> QED
    BY <1>8, <2>1, Reads DEF Cancel, RowLife, Row
<1>9. ASSUME NEW v \in Events, NEW S \in SUBSET RowsOf(v), Replay(v, S) PROVE RowLife(r)
  BY <1>9 DEF Replay, RowLife
<1>10. ASSUME NEW S \in SUBSET Rows, Requeue(S) PROVE RowLife(r)
  BY <1>10 DEF Requeue, RowLife, Terminal
<1>11. ASSUME UNCHANGED <<row, commits>> PROVE RowLife(r)
  BY <1>11 DEF RowLife
<1>12. \/ \E w \in Workers : Survive(w) \/ \E q \in Rows : Start(w, q)
       \/ \E t \in Tasks : StartTaken(t)
       \/ \E e \in Executors : Lose(e) \/ RunCallbacks(e) \/ Crash(e)
       \/ \E m \in messages : TurnAway(m) \/ Drop(m)
       \/ UNCHANGED vars
       => UNCHANGED <<row, commits>>
  BY DEF Survive, Start, StartTaken, Lose, RunCallbacks, Crash, TurnAway, Drop, vars
<1> QED
  BY <1>1, <1>2, <1>3, <1>4, <1>5, <1>6, <1>7, <1>8, <1>9, <1>10, <1>11, <1>12
  DEF Next, Work, Time, Operate

-----------------------------------------------------------------------------
(* What follows of the invariant's steps.                                  *)

\* A settled row leaves its verdict only by being opened again.
THEOREM VerdictStandsCorrect == Spec => VerdictStands
<1> DEFINE A == \A r \in Rows :
                  row[r].status \in Terminal /\ row'[r] # row[r] =>
                    \E wait \in {"none", "schedule"} : row'[r] = Opened(wait)
<1>1. IInv /\ [Next]_vars => [A]_row
  <2> SUFFICES ASSUME TypeOK, Safe, [Next]_vars, NEW r \in Rows,
                      row[r].status \in Terminal, row'[r] # row[r]
               PROVE  \E wait \in {"none", "schedule"} : row'[r] = Opened(wait)
    BY DEF IInv, Safe
  <2>1. row[r].status # "claimed" /\ row[r].status \notin Retryable
    BY DEF Terminal, Retryable
  <2> QED
    BY <2>1, RowLives DEF RowLife, Owing
<1> QED
  BY <1>1, InvariantCorrect, PTL DEF Spec, VerdictStands

\* An attempt is counted by the outcome of an attempt and by nothing else.
THEOREM AttemptsCountCorrect == Spec => AttemptsCountOutcomes
<1> DEFINE A == \A r \in Rows :
                  row'[r].attempts # row[r].attempts =>
                    \/ /\ row[r].status = "claimed"
                       /\ row'[r].status \in {"succeeded", "failed", "dead"}
                       /\ row'[r].attempts = row[r].attempts + 1
                    \/ row'[r].status = "pending" /\ row'[r].attempts = 0
<1>1. IInv /\ [Next]_vars => [A]_row
  <2> SUFFICES ASSUME TypeOK, Safe, [Next]_vars, NEW r \in Rows,
                      row'[r].attempts # row[r].attempts
               PROVE  \/ /\ row[r].status = "claimed"
                         /\ row'[r].status \in {"succeeded", "failed", "dead"}
                         /\ row'[r].attempts = row[r].attempts + 1
                      \/ row'[r].status = "pending" /\ row'[r].attempts = 0
    BY DEF IInv, Safe
  <2>1. \A wait : Opened(wait).status = "pending" /\ Opened(wait).attempts = 0
    BY DEF Opened, Absent
  <2> QED
    BY <2>1, RowLives DEF RowLife
<1> QED
  BY <1>1, InvariantCorrect, PTL DEF Spec, AttemptsCountOutcomes

\* A row under a live lease changes hands only by its own hand-off.
THEOREM LiveClaimsCorrect == Spec => LiveClaimsAreKept
<1> DEFINE A == \A r \in Rows :
                  row[r].status = "claimed" /\ row[r].lease = "held" /\ row'[r].by # row[r].by =>
                    Queued(r) /\ row'[r].by \in Tasks
<1>1. IInv /\ [Next]_vars => [A]_row
  <2> SUFFICES ASSUME TypeOK, Safe, [Next]_vars, NEW r \in Rows, row[r].status = "claimed",
                      row[r].lease = "held", row'[r].by # row[r].by
               PROVE  Queued(r) /\ row'[r].by \in Tasks
    BY DEF IInv, Safe
  <2> QED
    BY RowLives DEF RowLife, Terminal, Retryable
<1> QED
  BY <1>1, InvariantCorrect, PTL DEF Spec, LiveClaimsAreKept

\* A worker that starts, and a hand-off that is extended, has a row to run.
LEMMA BeginOwed ==
  ASSUME TypeOK, NEW e \in Executors, NEW r \in Rows, NEW owner, Begin(e, r, owner),
         pc'[e] = "running"
  PROVE  att'[e].row = r /\ Owing(row[r].status)
<1> DEFINE a == [row |-> r, by |-> owner, at |-> row[r].at, attempts |-> row[r].attempts]
<1>1. \/ Rest(e)
      \/ Enters(e, "extending", a)
      \/ Proceed(e, a) /\ (Owed(r) \/ row[r].status = "claimed")
  BY DEF Begin
<1>2. a.row = r
  OBVIOUS
<1> HIDE DEF a
<1>3. Enters(e, "running", a) /\ (Owed(r) \/ row[r].status = "claimed")
  BY <1>1 DEF Rest, Enters, Proceed, TypeOK
<1>4. row[r].status \in Retryable \cup {"claimed"}
  BY <1>3, Reads DEF Owed, Row, Statuses
<1> QED
  BY <1>2, <1>3, <1>4 DEF Enters, TypeOK, Owing

\* No receiver starts on a settled row.
THEOREM StartsOnlyOwedCorrect == Spec => StartsOnlyOwed
<1> DEFINE A == \A e \in Executors :
                  pc[e] # "running" /\ pc'[e] = "running" =>
                    row[att'[e].row].status \in Retryable \cup {"claimed"}
<1>1. IInv /\ [Next]_vars => [A]_<<pc, att>>
  <2> SUFFICES ASSUME TypeOK, Safe, [Next]_vars, NEW e \in Executors,
                      pc[e] # "running", pc'[e] = "running"
               PROVE  Owing(row[att'[e].row].status)
    BY DEF IInv, Safe, Owing
  <2>1. \/ \E w \in Workers, r \in Rows : Start(w, r)
        \/ \E t \in Tasks : StartTaken(t)
        \/ \E x \in Executors : Extend(x)
    <3>1. \A x \in Executors : \A phase, a :
            phase # "running" => ~ Enters(x, phase, a)
      BY DEF Enters, TypeOK
    <3>2. \A x \in Executors : ~ Rest(x)
      BY DEF Rest, TypeOK
    <3>3. pc' # pc
      OBVIOUS
    <3>4. \A w \in Workers : w \in Executors
      BY DEF Executors
    <3>5. \A t \in Tasks : t \in Executors
      BY DEF Executors
    <3>6. \A w \in Workers : ~ Claim(w) /\ ~ Survive(w)
      BY <3>2, <3>3, <3>4 DEF Claim, Survive
    <3>7. \A w \in Workers : ~ HandBack(w)
      BY <3>4 DEF HandBack, TypeOK
    <3>8. \A t \in Tasks, m \in messages : ~ Take(t, m)
      BY <3>1, <3>5 DEF Take
    <3>9. \A x \in Executors : \A v : ~ Finish(x, v)
      BY <3>1, <3>2 DEF Finish
    <3>10. \A x \in Executors : ~ Lose(x) /\ ~ RunCallbacks(x) /\ ~ Crash(x)
      BY <3>2 DEF Lose, RunCallbacks, Crash
    <3>11. \A m \in messages : ~ TurnAway(m) /\ ~ Drop(m)
      BY <3>3 DEF TurnAway, Drop
    <3>12. ~ Time
      BY <3>3 DEF Time, LeaseLapses, WaitElapses, GiveUpReached
    <3>13. ~ Operate
      BY <3>3 DEF Operate, Fire, Cancel, Replay, Requeue
    <3>14. ~ UNCHANGED vars
      BY <3>3 DEF vars
    <3> QED
      BY <3>6, <3>7, <3>8, <3>9, <3>10, <3>11, <3>12, <3>13, <3>14 DEF Next, Work
  <2>2. ASSUME NEW x \in Executors, NEW r \in Rows, NEW owner, Begin(x, r, owner)
        PROVE  Owing(row[att'[e].row].status)
    <3>1. x = e
      BY <2>2 DEF Begin, Proceed, Rest, Enters, TypeOK
    <3> QED
      BY <2>2, <3>1, BeginOwed
  <2>3. ASSUME NEW x \in Executors, Extend(x)
        PROVE  Owing(row[att'[e].row].status)
    <3>1. x = e /\ Owned(x) /\ Proceed(x, att[x]) /\ att'[x] = att[x]
      BY <2>3 DEF Extend, Proceed, Rest, Enters, TypeOK
    <3>2. att[x].row \in Rows /\ Holds(x, att[x].row)
      BY <2>3, <3>1 DEF Extend, Holds, TypeOK
    <3>3. row[att[x].row].status = "claimed"
      BY <3>2 DEF Safe, TokenHeld, Placed
    <3> QED
      BY <3>1, <3>3 DEF Owing
  <2>4. ASSUME NEW w \in Workers, NEW r \in Rows, Start(w, r)
        PROVE  Owing(row[att'[e].row].status)
    BY <2>2, <2>4 DEF Start, Executors
  <2>5. ASSUME NEW t \in Tasks, StartTaken(t)
        PROVE  Owing(row[att'[e].row].status)
    <3>1. t \in Executors /\ att[t].row \in Rows
      BY <2>5 DEF StartTaken, Executors, TypeOK
    <3> QED
      BY <2>2, <2>5, <3>1 DEF StartTaken
  <2> QED
    BY <2>1, <2>3, <2>4, <2>5
<1> QED
  BY <1>1, InvariantCorrect, PTL DEF Spec, StartsOnlyOwed

\* Giving a batch back ends no lease but those of its own unstarted rows.
THEOREM HandBackCorrect == Spec => HandBackTakesNothing
<1> DEFINE A == \A w \in Workers, r \in Rows :
                  batch'[w] # batch[w] /\ row[r].lease = "held" /\ row'[r].lease = "lapsed" =>
                    /\ row[r].by = w /\ row[r].status = "claimed" /\ ~Queued(r)
                    /\ \A e \in Executors : ~Holds(e, r)
<1>1. IInv /\ [Next]_vars => [A]_<<row, batch>>
  <2> SUFFICES ASSUME TypeOK, Safe, [Next]_vars, NEW w \in Workers, NEW r \in Rows,
                      batch'[w] # batch[w], row[r].lease = "held", row'[r].lease = "lapsed"
               PROVE  /\ row[r].by = w /\ row[r].status = "claimed" /\ ~Queued(r)
                      /\ \A e \in Executors : ~Holds(e, r)
    BY DEF IInv, Safe
  <2>1. batch' # batch /\ row' # row
    OBVIOUS
  <2>2. \E x \in Workers : Claim(x) \/ HandBack(x)
    <3>1. \A x \in Executors : \A v : ~ Finish(x, v)
      BY <2>1 DEF Finish
    <3>2. \A x \in Executors :
            ~ Extend(x) /\ ~ Lose(x) /\ ~ RunCallbacks(x) /\ ~ Crash(x)
      BY <2>1 DEF Extend, Lose, RunCallbacks, Crash
    <3>3. \A x \in Workers : ~ Survive(x) /\ \A q \in Rows : ~ Start(x, q)
      BY <2>1 DEF Survive, Start
    <3>4. \A t \in Tasks : ~ StartTaken(t) /\ \A m \in messages : ~ Take(t, m)
      BY <2>1 DEF StartTaken, Take
    <3>5. \A m \in messages : ~ TurnAway(m) /\ ~ Drop(m)
      BY <2>1 DEF TurnAway, Drop
    <3>6. ~ Time
      BY <2>1 DEF Time, LeaseLapses, WaitElapses, GiveUpReached
    <3>7. ~ Operate
      BY <2>1 DEF Operate, Fire, Cancel, Replay, Requeue
    <3>9. ~ UNCHANGED vars
      BY <2>1 DEF vars
    <3> QED
      BY <3>1, <3>2, <3>3, <3>4, <3>5, <3>6, <3>7, <3>9 DEF Next, Work
  <2>3. \A x \in Workers : ~ Claim(x)
    <3>1. \A x \in Workers : \A s : ClaimedBy(x, s, row[r]).lease # "lapsed"
      BY Reads DEF ClaimedBy, Row
    <3> QED
      BY <3>1 DEF Claim
  <2>4. HandBack(w) /\ HandedBack(w, r)
    BY <2>2, <2>3 DEF HandBack, TypeOK
  <2>5. row[r].by = w /\ row[r].status = "claimed" /\ ~Queued(r)
    BY <2>4 DEF HandedBack, Safe, TokenHeld, Placed
  <2>6. ASSUME NEW e \in Executors PROVE ~Holds(e, r)
    BY <2>4, <2>5 DEF HandBack, Holds, Owned, Safe, Phased
  <2> QED
    BY <2>5, <2>6
<1> QED
  BY <1>1, InvariantCorrect, PTL DEF Spec, HandBackTakesNothing

-----------------------------------------------------------------------------
(* The refinement.                                                         *)

LEMMA OutboxStep ==
  ASSUME TypeOK, Safe, [Next]_vars
  PROVE  Outbox!Next
<1> SUFFICES ASSUME NEW r \in Rows
             PROVE  Outbox!Open(r) \/ Outbox!Discharge(r) \/ Outbox!Drop(r) \/ Outbox!Stay(r)
  BY DEF Outbox!Next
<1>1. RowLife(r)
  BY RowLives
<1>2. /\ [q \in Rows |-> Owes(q)][r] = Owes(r)
      /\ [q \in Rows |-> Owes(q)]'[r] = Owes(r)'
  OBVIOUS
<1>3. Owing(row[r].status) => Owes(r) = "owed" /\ commits[r] = 0
  BY DEF Owing, Owes, Safe, CommittedOnce, Retryable
<1>4. CASE row'[r] = row[r] /\ commits'[r] = commits[r]
  BY <1>2, <1>4 DEF Outbox!Stay, Owes
<1>5. CASE /\ row[r].status \in Terminal \cup {"absent"}
           /\ row'[r] \in {Opened("none"), Opened("schedule")} /\ commits'[r] = 0
  <2>1. row'[r].status = "pending"
    BY <1>5 DEF Opened, Absent
  <2> QED
    BY <1>2, <1>5, <2>1 DEF Outbox!Open, Outbox!Settled, Owes, Terminal, Retryable
<1>6. CASE /\ Owing(row[r].status) /\ Owing(row'[r].status) /\ commits'[r] = commits[r]
  BY <1>2, <1>6 DEF Outbox!Stay, Owes, Owing
<1>7. CASE /\ row[r].status = "claimed"
           /\ row'[r].status \in {"succeeded", "dead", "orphaned", "pending", "failed"}
           /\ commits'[r] = IF row'[r].status = "succeeded" THEN commits[r] + 1 ELSE commits[r]
  <2>1. Owes(r) = "owed" /\ commits[r] = 0
    BY <1>3, <1>7 DEF Owing
  <2> QED
    BY <1>2, <1>7, <2>1
    DEF Outbox!Discharge, Outbox!Drop, Outbox!Stay, Outbox!Settled, Owes, Retryable
<1>8. CASE /\ row[r].status \in Retryable /\ row'[r].status = "cancelled"
           /\ commits'[r] = commits[r]
  BY <1>2, <1>3, <1>8 DEF Outbox!Drop, Outbox!Settled, Owes, Owing, Retryable
<1> QED
  BY <1>1, <1>4, <1>5, <1>6, <1>7, <1>8 DEF RowLife

\* The protocol implements the obligation it was built to keep: discharged at
\* most once per opening, the effect and the verdict in one step.
THEOREM Refinement == Spec => ImplementsObligation
<1>1. Init => Outbox!Init
  BY DEF Init, Outbox!Init, Owes, Absent, Retryable
<1>2. IInv /\ [Next]_vars => [Outbox!Next]_(Outbox!vars)
  BY OutboxStep DEF IInv, Safe
<1> QED
  BY <1>1, <1>2, InvariantCorrect, PTL DEF Spec, ImplementsObligation, Outbox!Spec
=============================================================================
