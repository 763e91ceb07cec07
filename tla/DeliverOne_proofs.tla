------------------------- MODULE DeliverOne_proofs --------------------------
(* Theorems about DeliverOne, for every budget, set of tokens and use of   *)
(* the hooks, where no answer to a COMMIT is lost.                         *)
EXTENDS DeliverOne, TLAPS

-----------------------------------------------------------------------------
(* The versions of the database.                                           *)

LEMMA StatusType ==
  /\ Retryable \subseteq Statuses /\ Settled \subseteq Statuses /\ Failures \subseteq Statuses
  /\ {"absent", "claimed"} \subseteq Statuses
  /\ "none" \notin Statuses
  /\ \A s \in Settled : s \notin Retryable /\ s # "claimed"
  /\ Writable \subseteq Statuses \ {"absent", "succeeded"}
BY DEF Statuses, Retryable, Settled, Failures, Writable

LEMMA PendingType == Pending \in Row /\ Empty \in Database
BY StatusType DEF Pending, Row, Empty, Database, Statuses, Retryable

\* A version with another row and other work.
LEMMA FieldsType ==
  ASSUME NEW d \in Database, NEW x \in Row, NEW n \in Nat
  PROVE  /\ [d EXCEPT !.row = x, !.work = n] \in Database
         /\ [d EXCEPT !.row = x, !.work = n].row = x
         /\ [d EXCEPT !.row = x, !.work = n].work = n
         /\ [d EXCEPT !.row = x, !.work = n].ours = d.ours
         /\ [d EXCEPT !.row = x, !.work = n].note = d.note
BY DEF Database

LEMMA RowFieldType ==
  ASSUME NEW d \in Database, NEW x \in Row
  PROVE  /\ [d EXCEPT !.row = x] \in Database
         /\ [d EXCEPT !.row = x].row = x
         /\ [d EXCEPT !.row = x].work = d.work
BY DEF Database

\* A statement of another session keeps all of it, if what it leaves agrees
\* and, where it leaves this run the token, is held as this run holds it.
LEMMA ElsewhereKeeps ==
  ASSUME IInv, NEW new \in Database, Agree(new), Elsewhere(new),
         pc \in Working \/ (pc = "idle" /\ fence' # NoToken) =>
           \/ new.row.token # fence'
           \/ new.row.status \in IF hand THEN Retryable \cup {"cancelled"} ELSE {"claimed"},
         new.row.status # "absent",
         fence' = fence \/ pc = "idle", fence' \in Tokens \cup {NoToken}
  PROVE  IInv'
<1>1. CASE pc = "committing"
  <2>1. FALSE
    BY <1>1, StatusType DEF IInv, Marked, Elsewhere
  <2> QED
    BY <2>1
<1>2. CASE pc # "committing"
  <2>1. /\ mark.row = db.row /\ mark.work = db.work
        /\ view.work = IF pc = "acknowledging" THEN db.work + 1 ELSE db.work
    <3>1. db \in Database /\ mark \in Database /\ view.row = db.row
      BY DEF IInv, TypeOK, Elsewhere
    <3>2. mark.row = view.row
          /\ view.work = IF pc = "acknowledging" THEN mark.work + 1 ELSE mark.work
      BY <1>2, <3>1 DEF IInv, Marked, Database
    <3>3. mark.work = db.work
      BY <3>1, <3>2 DEF IInv, EffectivelyOnce, Agree
    <3> QED
      BY <3>1, <3>2, <3>3
  <2>2. /\ db' = [db EXCEPT !.row = new.row, !.work = new.work]
        /\ mark' = [mark EXCEPT !.row = new.row, !.work = new.work]
        /\ view' = [view EXCEPT !.row = new.row,
                      !.work = IF pc = "acknowledging" THEN new.work + 1 ELSE new.work]
    <3>1. db.work \in Nat /\ new.work \in Nat
      BY DEF IInv, TypeOK, Database
    <3>2. /\ mark.work + new.work - db.work = new.work
          /\ view.work + new.work - db.work =
               IF pc = "acknowledging" THEN new.work + 1 ELSE new.work
      BY <2>1, <3>1
    <3>3. /\ mark' = [mark EXCEPT !.row = new.row, !.work = mark.work + new.work - db.work]
          /\ view' = [view EXCEPT !.row = new.row, !.work = view.work + new.work - db.work]
      BY DEF Elsewhere
    <3> QED
      BY <3>2, <3>3 DEF Elsewhere
  <2>3. /\ db' \in Database /\ view' \in Database /\ mark' \in Database
        /\ Agree(db)' /\ Agree(mark)'
    <3>1. db \in Database /\ view \in Database /\ mark \in Database
      BY DEF IInv, TypeOK
    <3>2. db' \in Database /\ mark' \in Database
          /\ db'.row = new.row /\ db'.work = new.work
          /\ mark'.row = new.row /\ mark'.work = new.work
      BY <2>2, <3>1 DEF Database
    <3>3. view' \in Database
      <4>1. new.row \in Row /\ new.work \in Nat /\ new.work + 1 \in Nat
        BY DEF Database
      <4>2. CASE pc = "acknowledging"
        BY <2>2, <3>1, <4>1, <4>2, FieldsType
      <4>3. CASE pc # "acknowledging"
        BY <2>2, <3>1, <4>1, <4>3, FieldsType
      <4> QED
        BY <4>2, <4>3
    <3> QED
      BY <3>2, <3>3 DEF Agree
  <2>4. /\ outer' = outer /\ pc' = pc /\ hand' = hand /\ seen' = seen /\ exc' = exc
        /\ hook' = hook /\ told' = told
    BY DEF Elsewhere
  <2>5. Unwritten' /\ Held'
    <3>1. Unwritten'
      BY <2>2, <2>4 DEF IInv, TypeOK, Database, Held, Unwritten, Working
    <3>2. db'.row = new.row /\ (pc = "idle" \/ fence' = fence) /\ (pc = "idle" => ~hand)
      BY <2>2 DEF IInv, TypeOK, Database, Held
    <3>3. pc \in Working => hand \/ fence' # NoToken
      BY <3>2 DEF IInv, Held, Working
    <3>4. Held'
      BY <1>2, <2>4, <3>2, <3>3 DEF IInv, Held, Working
    <3> QED
      BY <3>1, <3>4
  <2>6. Marked'
    BY <1>2, <2>2, <2>4 DEF IInv, TypeOK, Database, Marked
  <2>7. Standing' /\ Placed' /\ Following'
    BY <2>2, <2>4 DEF IInv, TypeOK, Database, Standing, Placed, Following, Tells
  <2>8. FailureIsTold' /\ HookSeesTheEnd'
    BY <2>2, <2>4 DEF IInv, TypeOK, Database, FailureIsTold, HookSeesTheEnd
  <2>9. TypeOK'
    BY <2>3, <2>4 DEF IInv, TypeOK
  <2> QED
    BY <2>3, <2>5, <2>6, <2>7, <2>8, <2>9 DEF IInv, EffectivelyOnce
<1> QED
  BY <1>1, <1>2

\* What another worker leaves of a row it held.
LEMMA OutcomesElsewhereType ==
  ASSUME IInv, db.row.status = "claimed", NEW r \in OutcomesElsewhere
  PROVE  /\ r \in Row /\ r.token = db.row.token
         /\ r.status \in Failures \cup {"succeeded", "pending", "orphaned"}
<1> DEFINE count == IF db.row.attempts < MaxAttempts THEN db.row.attempts + 1 ELSE db.row.attempts
<1>1. /\ db.row \in Row /\ count \in Nat
      /\ Failures \cup {"succeeded", "pending", "orphaned"} \subseteq Statuses
  BY ConstantsAssumption, StatusType DEF IInv, TypeOK, Database, Row, Settled, Retryable
<1>2. \A s : CountedElsewhere(s) = [db.row EXCEPT !.status = s, !.attempts = count]
  BY <1>1 DEF CountedElsewhere, Row
<1> HIDE DEF count
<1>3. CASE \E s \in Failures \cup {"succeeded"} : r = CountedElsewhere(s)
  <2>1. PICK s \in Failures \cup {"succeeded"} : r = [db.row EXCEPT !.status = s, !.attempts = count]
    BY <1>2, <1>3
  <2> QED
    BY <1>1, <2>1 DEF Row
<1>4. CASE \E s \in Failures \cup {"pending", "orphaned"} : r = [db.row EXCEPT !.status = s]
  BY <1>1, <1>4 DEF Row
<1> QED
  BY <1>3, <1>4 DEF OutcomesElsewhere

LEMMA OthersKeep == ASSUME IInv, Others \/ Claim PROVE IInv'
<1>1. ASSUME NEW s \in Tokens, Claims(s),
             fence' = fence \/ (pc = "idle" /\ fence' = s),
             fence' \in Tokens \cup {NoToken}
      PROVE  IInv'
  <2>1. Claimed(s) \in Database /\ Agree(Claimed(s))
    BY <1>1, StatusType DEF IInv, TypeOK, Claims, Claimed, Database, Row, EffectivelyOnce, Agree,
                            Retryable
  <2>2. Claimed(s).row.status = "claimed" /\ Claimed(s).row.token = s
    BY DEF IInv, TypeOK, Claimed, Database, Row
  <2>3. s # fence /\ (pc = "idle" => ~hand)
    BY <1>1 DEF Claims, IInv, Held
  <2> QED
    BY <1>1, <2>1, <2>2, <2>3, ElsewhereKeeps DEF Claims, Working
<1>2. CASE Overtake
  BY <1>1, <1>2 DEF Overtake, IInv, TypeOK
<1>3. CASE Claim
  BY <1>1, <1>3 DEF Claim
<1>4. CASE OtherRecords
  <2>1. /\ fence' = fence /\ fence' \in Tokens \cup {NoToken} /\ db.row.token # fence
        /\ db \in Database /\ db.work = 0 /\ db.row.status = "claimed"
    BY <1>4 DEF OtherRecords, IInv, TypeOK, EffectivelyOnce, Agree
  <2>2. PICK r \in OutcomesElsewhere :
          Elsewhere([db EXCEPT !.row = r, !.work = IF r.status = "succeeded" THEN @ + 1 ELSE @])
    BY <1>4 DEF OtherRecords
  <2>3. r \in Row /\ r.token = db.row.token /\ r.status # "absent"
    BY <2>1, OutcomesElsewhereType DEF Failures
  <2> DEFINE new == [db EXCEPT !.row = r, !.work = IF r.status = "succeeded" THEN @ + 1 ELSE @]
  <2>4. r \in Row /\ db \in Database /\ 1 \in Nat /\ 0 \in Nat
    BY <2>1, <2>3
  <2>5. new \in Database /\ new.row = r /\ Agree(new)
    <3>1. CASE r.status = "succeeded"
      <4>1. new = [db EXCEPT !.row = r, !.work = 1]
        BY <2>1, <3>1
      <4> HIDE DEF new
      <4> QED
        BY <2>4, <3>1, <4>1 DEF Database, Agree
    <3>2. CASE r.status # "succeeded"
      <4>1. new = [db EXCEPT !.row = r, !.work = 0]
        BY <2>1, <3>2
      <4> HIDE DEF new
      <4> QED
        BY <2>4, <3>2, <4>1 DEF Database, Agree
    <3> QED
      BY <3>1, <3>2
  <2>6. Elsewhere(new)
    BY <2>2
  <2> HIDE DEF new
  <2> QED
    BY <2>1, <2>3, <2>5, <2>6, ElsewhereKeeps
<1>5. CASE Cancel
  <2> DEFINE row == [db.row EXCEPT !.status = "cancelled"]
             new == [db EXCEPT !.row = row]
  <2>1. /\ Elsewhere(new) /\ fence' = fence /\ fence' \in Tokens \cup {NoToken}
        /\ db \in Database /\ db.row \in Row /\ db.row.status \in Retryable /\ db.work = 0
    BY <1>5, StatusType DEF Cancel, IInv, TypeOK, Database, EffectivelyOnce, Agree, Retryable
  <2>2. row \in Row /\ row.status = "cancelled" /\ row.token = db.row.token
    BY <2>1, StatusType DEF Row, Settled
  <2> HIDE DEF row
  <2>3. new \in Database /\ new.row = row /\ new.work = 0
    BY <2>1, <2>2, RowFieldType
  <2>4. Agree(new)
    BY <2>2, <2>3 DEF Agree
  <2>5. pc \in Working \/ (pc = "idle" /\ fence # NoToken) => db.row.token # fence \/ hand
    BY <2>1 DEF IInv, Held, Retryable
  <2> HIDE DEF new
  <2> QED
    BY <2>1, <2>2, <2>3, <2>4, <2>5, ElsewhereKeeps
<1>6. CASE Open
  <2> DEFINE new == [db EXCEPT !.row = Pending, !.work = 0]
  <2>1. /\ new \in Database /\ Agree(new) /\ new.row.status = "pending"
        /\ new.row.token = NoToken
    BY PendingType DEF IInv, TypeOK, Database, Agree, Pending
  <2>2. Elsewhere(new) /\ fence' = fence /\ fence' \in Tokens \cup {NoToken}
    BY <1>6 DEF Open, IInv, TypeOK
  <2>3. pc \in Working => hand \/ fence # NoToken
    BY DEF IInv, Held
  <2> HIDE DEF new
  <2> QED
    BY <2>1, <2>2, <2>3, ElsewhereKeeps DEF Retryable
<1> QED
  BY <1>2, <1>3, <1>4, <1>5, <1>6 DEF Others
-----------------------------------------------------------------------------
(* The steps of the run.                                                   *)

\* A row this run still owns it may write over, and it has seen it as it is.
LEMMA OwnedIsWritable ==
  ASSUME IInv, pc \in Working, Owned
  PROVE  /\ db.row.status \in Writable /\ view.row = db.row /\ db.work = 0
         /\ db.row.status \in IF hand THEN Retryable \cup {"cancelled"} ELSE {"claimed"}
<1>1. view.row = db.row /\ db.row.token = fence
  BY DEF IInv, Unwritten, Owned
<1>2. db.row.status \in IF hand THEN Retryable \cup {"cancelled"} ELSE {"claimed"}
  BY <1>1 DEF IInv, Held
<1> QED
  BY <1>1, <1>2, StatusType DEF Writable, IInv, EffectivelyOnce, Agree

\* Outside the receiver's block and outside the caller's, there is one version.
LEMMA OneVersion ==
  ASSUME IInv, pc \notin {"acknowledging", "committing"}, ~outer
  PROVE  mark = view /\ mark = db
BY DEF IInv, Marked, Standing

LEMMA LoadKeeps ==
  ASSUME IInv, NEW why \in Unrunnable \cup {"none"}, pc = "idle",
         db.row.status \in Retryable \cup {"claimed"}, Load(why),
         fence' \in Tokens \cup {NoToken}, outer' \in BOOLEAN, hand' \in BOOLEAN,
         hand' \/ fence' # NoToken,
         db.row.token # fence' \/ db.row.status \in IF hand' THEN Retryable ELSE {"claimed"}
  PROVE  IInv'
<1> DEFINE new == [db EXCEPT !.ours = "none", !.note = "none"]
<1>1. /\ new \in Database /\ new.row = db.row /\ new.work = db.work
      /\ new.ours = "none" /\ new.note = "none"
  BY DEF IInv, TypeOK, Database
<1>2. /\ db' = new /\ view' = new /\ mark' = new
      /\ seen' = db.row.attempts /\ exc' = why /\ hook' = "none" /\ told' = "no"
      /\ pc' = IF why = "none" THEN "entering" ELSE "recording"
  BY DEF Load
<1> HIDE DEF new
<1>3. TypeOK'
  <2>1. seen' \in Nat
    BY <1>2 DEF IInv, TypeOK, Database, Row
  <2> QED
    BY <1>1, <1>2, <2>1 DEF TypeOK, Phases
<1>4. Held' /\ Unwritten' /\ Marked' /\ Standing'
  BY <1>1, <1>2 DEF Held, Unwritten, Marked, Standing
<1>5. Placed' /\ Following'
  BY <1>1, <1>2 DEF Placed, Following, Unrunnable, Retryable
<1>6. Agree(db)' /\ Agree(mark)'
  BY <1>1, <1>2 DEF IInv, EffectivelyOnce, Agree
<1>7. FailureIsTold' /\ HookSeesTheEnd'
  BY <1>1, <1>2 DEF FailureIsTold, HookSeesTheEnd, Unrunnable
<1> QED
  BY <1>3, <1>4, <1>5, <1>6, <1>7 DEF IInv, EffectivelyOnce

LEMMA StartKeeps == ASSUME IInv, NEW why \in Unrunnable \cup {"none"}, Start(why) PROVE IInv'
<1>1. db.row.status \in Retryable \cup {"claimed"}
  BY DEF Start, IInv, Placed, TypeOK, Database, Row, Statuses
<1>2. fence' \in Tokens \cup {NoToken} /\ outer' \in BOOLEAN /\ hand' = FALSE /\ fence' # NoToken
  BY DEF Start, IInv, TypeOK
<1>3. db.row.token # fence' \/ db.row.status = "claimed"
  BY DEF Start, IInv, Held, Retryable
<1> QED
  BY <1>1, <1>2, <1>3, LoadKeeps DEF Start

LEMMA CallKeeps == ASSUME IInv, NEW why \in Unrunnable \cup {"none"}, Call(why) PROVE IInv'
<1>1. fence' \in Tokens \cup {NoToken} /\ outer' \in BOOLEAN /\ hand' = TRUE
  BY ConstantsAssumption DEF Call, IInv, TypeOK, Database, Row
<1> QED
  BY <1>1, LoadKeeps DEF Call

\* A step that leaves every version as it is.
LEMMA SameVersions ==
  ASSUME IInv, UNCHANGED <<db, view, mark>>
  PROVE  Agree(db)' /\ Agree(mark)'
BY DEF IInv, EffectivelyOnce, Agree

LEMMA SkipKeeps == ASSUME IInv, Skip PROVE IInv'
<1>1. TypeOK'
  BY DEF Skip, IInv, TypeOK
<1>2. Held' /\ Unwritten' /\ Marked' /\ Standing' /\ Placed' /\ Following'
  BY DEF Skip, IInv, Held, Unwritten, Marked, Standing, Placed, Following, Working, Tells
<1>3. FailureIsTold' /\ HookSeesTheEnd'
  BY DEF Skip, IInv, FailureIsTold, HookSeesTheEnd
<1> QED
  BY <1>1, <1>2, <1>3, SameVersions DEF Skip, IInv, EffectivelyOnce

LEMMA EnterKeeps == ASSUME IInv, Enter PROVE IInv'
<1>1. /\ pc = "entering" /\ pc' \in {"opening", "recording", "leaving"}
      /\ UNCHANGED <<db, view, mark, outer, fence, hand, seen, told>>
      /\ exc = "none" /\ view.ours = "none" /\ view.note = "none" /\ told = "no"
  BY DEF Enter, Raised, IInv, Following, Held, Unwritten, Working
<1>2. /\ exc' \in Raisable \cup {"none"} /\ hook' \in {"none", "open", "failed"}
      /\ pc' = "opening" => exc' = "none" /\ hook' = IF Hooked THEN "open" ELSE "none"
      /\ pc' # "opening" => exc' # "none" /\ hook' = "failed"
      /\ pc' = "recording" => exc' # "interrupt"
  BY <1>1 DEF Enter, Raised, Raisable
<1>3. TypeOK'
  BY <1>1, <1>2 DEF IInv, TypeOK, Phases
<1>4. Held' /\ Unwritten' /\ Marked' /\ Standing'
  BY <1>1 DEF IInv, Held, Unwritten, Marked, Standing, Working, Owned
<1>5. Placed' /\ Following'
  BY <1>1, <1>2 DEF IInv, Placed, Following, Unrunnable, Raisable
<1>6. FailureIsTold' /\ HookSeesTheEnd'
  BY <1>1, <1>2 DEF IInv, FailureIsTold, HookSeesTheEnd, Failures
<1> QED
  BY <1>1, <1>3, <1>4, <1>5, <1>6, SameVersions DEF IInv, EffectivelyOnce

LEMMA ReceiveKeeps == ASSUME IInv, Receive PROVE IInv'
<1> DEFINE work == view.work + 1
<1>1. view \in Database /\ mark = view /\ work \in Nat
  BY DEF Receive, IInv, TypeOK, Marked, Database
<1>2. view' = [view EXCEPT !.work = work] /\ mark' = view
  BY DEF Receive
<1> HIDE DEF work
<1>3. /\ view' \in Database /\ view'.row = view.row
      /\ view'.ours = view.ours /\ view'.note = view.note
  BY <1>1, <1>2 DEF Database
<1>4. TypeOK'
  BY <1>1, <1>2, <1>3 DEF Receive, IInv, TypeOK, Phases
<1>5. Held' /\ Unwritten' /\ Standing'
  BY <1>1, <1>2, <1>3 DEF Receive, IInv, Held, Unwritten, Standing, Working, Owned
<1>6. Marked'
  BY <1>1, <1>2, <1>3 DEF Receive, Marked
<1>7. Placed' /\ Following'
  BY <1>3 DEF Receive, IInv, Placed, Following
<1>8. Agree(db)' /\ Agree(mark)'
  BY <1>1, <1>2 DEF Receive, IInv, EffectivelyOnce, Agree
<1>9. FailureIsTold' /\ HookSeesTheEnd'
  BY <1>1, <1>2, <1>3 DEF Receive, IInv, FailureIsTold, HookSeesTheEnd
<1> QED
  BY <1>4, <1>5, <1>6, <1>7, <1>8, <1>9 DEF IInv, EffectivelyOnce

\* The work the receiver does is gone again, and its run is over.
LEMMA UndoKeeps ==
  ASSUME IInv, pc = "acknowledging", view' = mark,
         UNCHANGED <<db, mark, outer, fence, hand, seen, hook, told>>,
         \/ pc' = "leaving" /\ exc' \in {"none", "interrupt"}
         \/ pc' = "recording" /\ exc' \in Raisable \ {"interrupt"}
  PROVE  IInv'
<1>1. /\ view \in Database /\ mark \in Database /\ view = [mark EXCEPT !.work = mark.work + 1]
  BY DEF IInv, TypeOK, Marked
<1>2. mark.row = view.row /\ mark.ours = view.ours /\ mark.note = view.note
  BY <1>1 DEF Database
<1>3. /\ view.ours = "none" /\ view.note = "none" /\ told = "no"
      /\ view.row = db.row
      /\ Owned => db.row.status \in Writable
  BY OwnedIsWritable DEF IInv, Unwritten, Working
<1>4. TypeOK'
  BY <1>1 DEF IInv, TypeOK, Phases, Raisable
<1>5. Held' /\ Unwritten' /\ Marked' /\ Standing'
  <2>1. /\ view'.row = db'.row /\ view'.ours = "none" /\ view'.note = "none" /\ told' = "no"
        /\ Owned' = Owned
    BY <1>2, <1>3 DEF Owned
  <2>2. Held' /\ Unwritten'
    BY <2>1 DEF IInv, Held, Unwritten, Working
  <2>3. Marked'
    BY DEF Marked
  <2>4. Standing'
    BY DEF IInv, Standing
  <2> QED
    BY <2>2, <2>3, <2>4
<1>6. Placed' /\ Following'
  BY <1>2, <1>3 DEF IInv, Placed, Following, Raisable, Unrunnable
<1>7. FailureIsTold' /\ HookSeesTheEnd'
  BY <1>2, <1>3 DEF IInv, FailureIsTold, HookSeesTheEnd, Failures
<1>8. Agree(db)' /\ Agree(mark)'
  BY DEF IInv, EffectivelyOnce, Agree
<1> QED
  BY <1>4, <1>5, <1>6, <1>7, <1>8 DEF IInv, EffectivelyOnce

LEMMA RaiseKeeps == ASSUME IInv, NEW e \in Raisable, Raise(e) PROVE IInv'
BY UndoKeeps DEF Raise, Raised

LEMMA AcknowledgeKeeps == ASSUME IInv, Acknowledge PROVE IInv'
<1>1. CASE ~Owned
  <2>1. exc = "none"
    BY DEF Acknowledge, IInv, Following
  <2> QED
    BY <1>1, <2>1, UndoKeeps DEF Acknowledge
<1>2. CASE Owned
  <2>1. /\ view \in Database /\ mark \in Database /\ db \in Database /\ seen \in Nat
        /\ view = [mark EXCEPT !.work = mark.work + 1] /\ exc = "none" /\ told = "no"
        /\ view.row = db.row /\ db.row.status \in Writable
        /\ view.ours = "none" /\ view.note = "none"
    BY <1>2, OwnedIsWritable DEF Acknowledge, IInv, TypeOK, Marked, Following, Unwritten, Working
  <2>2. /\ mark.row = db.row /\ mark.ours = "none" /\ mark.note = "none"
        /\ view.work = mark.work + 1
    BY <2>1 DEF Database
  <2>3. mark.work = 0
    BY <2>1, <2>2, StatusType DEF IInv, Agree
  <2> DEFINE count == seen + 1
             row == [view.row EXCEPT !.status = "succeeded", !.attempts = count]
  <2>4. row \in Row /\ row.status = "succeeded"
    <3>1. view.row \in Row /\ count \in Nat /\ "succeeded" \in Statuses
      BY <2>1, StatusType DEF Database, Settled
    <3> HIDE DEF count
    <3> QED
      BY <3>1 DEF Row
  <2>5. view' = [view EXCEPT !.row = row, !.ours = "succeeded"] /\ pc' = "committing"
    BY <1>2, <2>1 DEF Acknowledge, Acknowledged, Database, Row
  <2> HIDE DEF row
  <2>6. /\ view' \in Database /\ view'.row = row /\ view'.work = 1
        /\ view'.ours = "succeeded" /\ view'.note = "none"
    <3>1. "succeeded" \in Statuses /\ view.work = 1
      BY <2>2, <2>3, StatusType DEF Settled
    <3> QED
      BY <2>1, <2>4, <2>5, <3>1 DEF Database
  <2>7. UNCHANGED <<db, mark, outer, fence, hand, seen, exc, hook, told>>
    BY DEF Acknowledge
  <2>8. TypeOK'
    BY <2>5, <2>6, <2>7 DEF IInv, TypeOK, Phases
  <2>9. Held' /\ Unwritten' /\ Marked' /\ Standing'
    BY <2>1, <2>2, <2>4, <2>5, <2>6, <2>7
    DEF Acknowledge, IInv, Held, Unwritten, Marked, Standing, Working
  <2>10. Placed' /\ Following'
    BY <2>1, <2>4, <2>5, <2>6, <2>7 DEF Acknowledge, IInv, Placed, Following, Unrunnable
  <2>11. FailureIsTold' /\ HookSeesTheEnd'
    BY <2>1, <2>5, <2>6, <2>7 DEF Acknowledge, IInv, FailureIsTold, HookSeesTheEnd
  <2> QED
    BY <2>7, <2>8, <2>9, <2>10, <2>11, SameVersions DEF IInv, EffectivelyOnce, Agree
<1> QED
  BY <1>1, <1>2

LEMMA CommitKeeps == ASSUME IInv, Commit PROVE IInv'
<1>1. /\ pc = "committing" /\ exc = "none" /\ told = "no" /\ view \in Database
      /\ view.row.status = "succeeded" /\ view.work = 1
      /\ view.ours = "succeeded" /\ view.note = "none"
      /\ hook = IF Hooked THEN "open" ELSE "none"
      /\ db' = IF outer THEN db ELSE view
      /\ pc' = IF outer THEN "leaving" ELSE "callbacks"
      /\ mark' = view /\ UNCHANGED <<view, outer, fence, hand, seen, exc, hook, told>>
  BY DEF Commit, IInv, TypeOK, Marked, Following, HookSeesTheEnd
<1>2. TypeOK'
  BY <1>1 DEF IInv, TypeOK, Phases
<1>3. Held' /\ Unwritten' /\ Marked' /\ Standing'
  BY <1>1 DEF IInv, Held, Unwritten, Marked, Standing, Working
<1>4. Placed' /\ Following'
  BY <1>1 DEF IInv, Placed, Following, Unrunnable
<1>5. Agree(db)' /\ Agree(mark)'
  BY <1>1 DEF IInv, EffectivelyOnce, Agree
<1>6. FailureIsTold' /\ HookSeesTheEnd'
  BY <1>1, StatusType DEF IInv, FailureIsTold, HookSeesTheEnd, Failures
<1> QED
  BY <1>2, <1>3, <1>4, <1>5, <1>6 DEF IInv, EffectivelyOnce

LEMMA CommitRaisesKeeps == ASSUME IInv, ~AnswerLost, CommitRaises PROVE IInv'
<1>1. /\ pc = "committing" /\ pc' = "recording" /\ exc' = "failure"
      /\ ~outer /\ mark = db /\ db \in Database
      /\ db' = db /\ view' = db /\ mark' = db /\ told = "no"
      /\ db.row.status \in Writable
      /\ db.ours = "none" /\ db.note = "none"
      /\ UNCHANGED <<outer, fence, hand, seen, hook, told>>
      /\ hook = IF Hooked THEN "open" ELSE "none"
  BY DEF CommitRaises, Raised, IInv, TypeOK, Marked, Standing, HookSeesTheEnd
<1>2. TypeOK'
  BY <1>1 DEF IInv, TypeOK, Phases, Raisable
<1>3. Held' /\ Unwritten' /\ Marked' /\ Standing'
  <2>1. Held'
    BY <1>1 DEF IInv, Held, Working
  <2> QED
    BY <1>1, <2>1 DEF Unwritten, Marked, Standing
<1>4. Placed' /\ Following'
  BY <1>1 DEF IInv, Placed, Following, Unrunnable
<1>5. Agree(db)' /\ Agree(mark)'
  BY <1>1 DEF IInv, EffectivelyOnce, Agree
<1>6. FailureIsTold' /\ HookSeesTheEnd'
  BY <1>1 DEF FailureIsTold, HookSeesTheEnd
<1> QED
  BY <1>2, <1>3, <1>4, <1>5, <1>6 DEF IInv, EffectivelyOnce

LEMMA RunCallbacksKeeps == ASSUME IInv, RunCallbacks PROVE IInv'
<1>1. /\ pc = "callbacks" /\ pc' = "leaving" /\ exc = "none" /\ exc' \in {"none", "interrupt"}
      /\ view.ours = "succeeded" /\ view.note = "none" /\ told = "no"
      /\ UNCHANGED <<db, view, mark, outer, fence, hand, seen, hook, told>>
  BY DEF RunCallbacks, IInv, Following
<1>2. TypeOK'
  BY <1>1 DEF IInv, TypeOK, Phases, Raisable
<1>3. Held' /\ Unwritten' /\ Marked' /\ Standing' /\ Placed' /\ Following'
  BY <1>1 DEF IInv, Held, Unwritten, Marked, Standing, Placed, Following, Working, Unrunnable
<1>4. FailureIsTold' /\ HookSeesTheEnd'
  BY <1>1 DEF IInv, FailureIsTold, HookSeesTheEnd, Failures
<1> QED
  BY <1>1, <1>2, <1>3, <1>4, SameVersions DEF IInv, EffectivelyOnce

\* Every verdict is a row of its own, and none of them a success.
LEMMA VerdictType ==
  ASSUME IInv, pc = "recording", NEW r \in Verdict
  PROVE  /\ r \in Row /\ r.status \notin {"succeeded", "absent"}
         /\ r.status \in Failures => exc \notin {"orphan", "not_yet"}
         /\ exc \notin {"orphan", "not_yet"} => r.status \in Failures
<1> DEFINE count == seen + 1
<1>1. /\ view.row \in Row /\ count \in Nat
      /\ {"orphaned", "pending", "failed", "dead"} \subseteq Statuses
  BY StatusType DEF IInv, TypeOK, Database, Settled, Retryable
<1>2. /\ [view.row EXCEPT !.attempts = count] \in Row /\ Counted = [view.row EXCEPT !.attempts = count]
  BY <1>1 DEF Row, Counted
<1> HIDE DEF count
<1>3. CASE exc = "orphan"
  <2>1. r = [view.row EXCEPT !.status = "orphaned"]
    BY <1>3 DEF Verdict
  <2> QED
    BY <1>1, <1>3, <2>1 DEF Row, Failures
<1>4. CASE exc = "not_yet"
  <2>1. r = [view.row EXCEPT !.status = "pending"]
    BY <1>4 DEF Verdict
  <2> QED
    BY <1>1, <1>4, <2>1 DEF Row, Failures
<1>5. CASE exc = "defer"
  <2>1. PICK s \in Failures : r = [view.row EXCEPT !.status = s]
    BY <1>5 DEF Verdict
  <2> QED
    BY <1>1, <1>5, <2>1 DEF Row, Failures
<1>6. CASE exc \notin {"orphan", "not_yet", "defer"}
  <2>1. PICK s \in Failures : r = [Counted EXCEPT !.status = s]
    BY <1>6 DEF Verdict, Failures
  <2> HIDE DEF Counted
  <2> QED
    BY <1>1, <1>2, <1>6, <2>1 DEF Row, Failures
<1> QED
  BY <1>3, <1>4, <1>5, <1>6

LEMMA RecordKeeps == ASSUME IInv, Record PROVE IInv'
<1>1. /\ pc = "recording" /\ mark = view /\ view \in Database /\ db \in Database
      /\ view.row = db.row /\ view.ours = "none" /\ view.note = "none" /\ told = "no"
      /\ exc \notin {"none", "interrupt"}
      /\ UNCHANGED <<outer, fence, hand, seen, exc, hook, told>>
      /\ pc' \in {"telling", "leaving"}
  BY DEF Record, IInv, TypeOK, Marked, Held, Unwritten, Following, Working
<1>2. CASE ~Owned
  <2>1. UNCHANGED <<db, view, mark>> /\ pc' = "leaving"
    BY <1>2 DEF Record
  <2>2. TypeOK'
    BY <1>1, <2>1 DEF IInv, TypeOK, Phases
  <2>3. Held' /\ Unwritten' /\ Marked' /\ Standing' /\ Placed' /\ Following'
    BY <1>1, <2>1 DEF IInv, Held, Unwritten, Marked, Standing, Placed, Following, Working
  <2>4. FailureIsTold' /\ HookSeesTheEnd'
    BY <1>1, <2>1 DEF IInv, FailureIsTold, HookSeesTheEnd, Failures
  <2> QED
    BY <2>1, <2>2, <2>3, <2>4, SameVersions DEF IInv, EffectivelyOnce
<1>3. CASE Owned
  <2>1. PICK r \in Verdict : Writes([view EXCEPT !.row = r, !.ours = r.status])
    BY <1>3 DEF Record
  <2>2. pc' = IF Tells THEN "telling" ELSE "leaving"
    BY <1>3 DEF Record
  <2>3. /\ r \in Row /\ r.status \in Statuses
        /\ r.status \notin {"succeeded", "absent"}
        /\ r.status \in Failures <=> exc \notin {"orphan", "not_yet"}
    BY <1>1, VerdictType DEF Row
  <2>4. view.work = 0
    BY <1>1, <1>3, OwnedIsWritable, StatusType DEF IInv, Agree, Working
  <2> DEFINE new == [view EXCEPT !.row = r, !.ours = r.status]
  <2>5. /\ new \in Database /\ new.row = r /\ new.work = 0
        /\ new.ours = r.status /\ new.note = "none"
    BY <1>1, <2>3, <2>4 DEF Database
  <2>6. view' = new /\ mark' = new /\ db' = IF outer THEN db ELSE new
    BY <2>1 DEF Writes
  <2> HIDE DEF new
  <2>7. TypeOK'
    BY <1>1, <2>5, <2>6 DEF IInv, TypeOK, Phases
  <2>8. Held' /\ Unwritten' /\ Marked' /\ Standing'
    BY <1>1, <2>5, <2>6 DEF IInv, Held, Unwritten, Marked, Standing, Working
  <2>9. Placed' /\ Following'
    <3>1. Placed'
      <4>1. db.row.status \in Writable
        BY <1>1, <1>3, OwnedIsWritable DEF Working
      <4> QED
        BY <1>1, <2>3, <2>5, <2>6, <4>1 DEF IInv, Placed
    <3>2. pc' = "telling" => Tells' /\ r.status \in Failures
      BY <1>1, <2>2, <2>3 DEF Tells
    <3>3. hook = "open" => exc \in Raisable \ {"interrupt"}
      BY <1>1 DEF IInv, TypeOK, Following
    <3> QED
      BY <1>1, <2>3, <2>5, <2>6, <3>1, <3>2, <3>3 DEF IInv, Following
  <2>10. Agree(db)' /\ Agree(mark)'
    BY <2>3, <2>5, <2>6 DEF IInv, EffectivelyOnce, Agree
  <2>11. FailureIsTold' /\ HookSeesTheEnd'
    <3>1. FailureIsTold'
      BY <1>1, <2>2, <2>3, <2>5, <2>6 DEF IInv, FailureIsTold, Standing, Tells
    <3>2. HookSeesTheEnd'
      BY <1>1, <2>5, <2>6 DEF IInv, Following, HookSeesTheEnd
    <3> QED
      BY <3>1, <3>2
  <2> QED
    BY <2>7, <2>8, <2>9, <2>10, <2>11 DEF IInv, EffectivelyOnce
<1> QED
  BY <1>2, <1>3

LEMMA FailToRecordKeeps == ASSUME IInv, FailToRecord PROVE IInv'
<1>1. /\ pc = "recording" /\ pc' = "leaving" /\ view.ours = "none" /\ view.note = "none"
      /\ told = "no" /\ UNCHANGED <<db, view, mark, outer, fence, hand, seen, exc, hook, told>>
  BY DEF FailToRecord, IInv, Held, Unwritten, Working
<1>2. TypeOK'
  BY <1>1 DEF IInv, TypeOK, Phases
<1>3. Held' /\ Unwritten' /\ Marked' /\ Standing' /\ Placed' /\ Following'
  BY <1>1 DEF IInv, Held, Unwritten, Marked, Standing, Placed, Following, Working
<1>4. FailureIsTold' /\ HookSeesTheEnd'
  BY <1>1 DEF IInv, FailureIsTold, HookSeesTheEnd, Failures
<1> QED
  BY <1>1, <1>2, <1>3, <1>4, SameVersions DEF IInv, EffectivelyOnce

LEMMA TellKeeps == ASSUME IInv, Tell PROVE IInv'
<1>1. /\ pc = "telling" /\ pc' = "leaving" /\ mark = view /\ view \in Database
      /\ Tells /\ view.ours \in Failures /\ view.note = "none" /\ told' \in {"kept", "raised"}
      /\ UNCHANGED <<outer, fence, hand, seen, exc, hook>>
  BY DEF Tell, IInv, TypeOK, Marked, Following
<1>2. /\ view' \in Database /\ view'.row = view.row /\ view'.work = view.work
      /\ view'.ours = view.ours /\ view'.note \in {"none", view.ours}
      /\ told' = "kept" => view'.note = view.ours
      /\ mark' = view' /\ db' = IF outer THEN db ELSE view'
  <2>1. CASE Writes([view EXCEPT !.note = view.ours]) /\ told' = "kept"
    <3> DEFINE new == [view EXCEPT !.note = view.ours]
    <3>1. /\ new \in Database /\ new.row = view.row /\ new.work = view.work
          /\ new.ours = view.ours /\ new.note = view.ours
      BY <1>1 DEF Database
    <3>2. view' = new /\ mark' = new /\ db' = IF outer THEN db ELSE new
      BY <2>1 DEF Writes
    <3> HIDE DEF new
    <3> QED
      BY <3>1, <3>2
  <2>2. CASE UNCHANGED <<db, view, mark>> /\ told' = "raised"
    BY <1>1, <2>2 DEF IInv, Standing
  <2> QED
    BY <2>1, <2>2 DEF Tell
<1>3. TypeOK'
  BY <1>1, <1>2 DEF IInv, TypeOK, Phases
<1>4. Held' /\ Unwritten' /\ Marked' /\ Standing'
  BY <1>1, <1>2 DEF IInv, Held, Unwritten, Marked, Standing, Working
<1>5. Placed' /\ Following'
  <2>1. db'.row.status # "absent"
    BY <1>1, <1>2 DEF IInv, Placed, Standing
  <2>2. hook = "open" => exc \in Raisable \ {"interrupt"}
    BY <1>1 DEF IInv, TypeOK, Following
  <2> QED
    BY <1>1, <1>2, <2>1, <2>2, StatusType DEF IInv, Placed, Following, Failures
<1>6. Agree(db)' /\ Agree(mark)'
  BY <1>1, <1>2 DEF IInv, EffectivelyOnce, Agree
<1>7. FailureIsTold' /\ HookSeesTheEnd'
  <2>1. FailureIsTold'
    BY <1>1, <1>2, StatusType DEF IInv, FailureIsTold, Standing, Tells, Failures
  <2>2. HookSeesTheEnd'
    BY <1>1, <1>2 DEF IInv, Following, HookSeesTheEnd
  <2> QED
    BY <2>1, <2>2
<1> QED
  BY <1>3, <1>4, <1>5, <1>6, <1>7 DEF IInv, EffectivelyOnce

LEMMA LeaveKeeps == ASSUME IInv, Leave PROVE IInv'
<1>1. /\ pc = "leaving" /\ pc' \in {"returned", "idle"} /\ fence' = NoToken /\ hand' = FALSE
      /\ pc' = "returned" <=> outer
      /\ hook' = IF hook = "open" THEN "closed" ELSE hook
      /\ UNCHANGED <<db, view, mark, outer, seen, exc, told>>
  BY DEF Leave, IInv, TypeOK
<1>2. TypeOK'
  BY <1>1 DEF IInv, TypeOK, Phases
<1>3. Held' /\ Unwritten' /\ Marked' /\ Standing' /\ Placed' /\ Following'
  BY <1>1 DEF IInv, Held, Unwritten, Marked, Standing, Placed, Following, Working
<1>4. FailureIsTold' /\ HookSeesTheEnd'
  BY <1>1 DEF IInv, FailureIsTold, HookSeesTheEnd, Following
<1> QED
  BY <1>1, <1>2, <1>3, <1>4, SameVersions DEF IInv, EffectivelyOnce

LEMMA CallerEndsKeeps == ASSUME IInv, CallerEnds PROVE IInv'
<1>1. /\ pc = "returned" /\ outer /\ mark = view /\ db.ours = "none" /\ db.note = "none"
      /\ outer' = FALSE /\ pc' = "idle" /\ UNCHANGED <<fence, hand, seen, exc, hook, told>>
  BY DEF CallerEnds, IInv, Placed, Marked, Standing
<1>2. db' = view' /\ mark' = view' /\ view' \in {db, view}
  BY <1>1 DEF CallerEnds, RollBack
<1>3. TypeOK'
  BY <1>1, <1>2 DEF IInv, TypeOK, Phases
<1>4. Held' /\ Unwritten' /\ Marked' /\ Standing' /\ Following'
  BY <1>1, <1>2 DEF IInv, Held, Unwritten, Marked, Standing, Following, Working
<1>5. Placed'
  BY <1>1, <1>2 DEF IInv, Placed
<1>6. Agree(db)' /\ Agree(mark)'
  BY <1>1, <1>2 DEF IInv, EffectivelyOnce, Agree
<1>7. FailureIsTold' /\ HookSeesTheEnd'
  BY <1>1, <1>2 DEF IInv, FailureIsTold, HookSeesTheEnd
<1> QED
  BY <1>3, <1>4, <1>5, <1>6, <1>7 DEF IInv, EffectivelyOnce

LEMMA CrashKeeps == ASSUME IInv, Crash PROVE IInv'
<1>1. /\ db' = db /\ view' = db /\ mark' = db /\ outer' = FALSE /\ pc' = "idle" /\ fence' = NoToken
      /\ exc' = "interrupt" /\ hook' = "none" /\ told' = "no" /\ seen' = seen /\ hand' = FALSE
  BY DEF Crash, RollBack
<1>2. /\ db.note \in {"none", db.ours}
      /\ db.note # "none" => db.note \in Failures
  <2>1. pc = "acknowledging" => mark.ours = view.ours /\ mark.note = view.note
    BY DEF IInv, TypeOK, Marked, Database
  <2> QED
    BY <2>1 DEF IInv, FailureIsTold, Standing, Marked, Held, Unwritten, Working
<1>3. TypeOK'
  BY <1>1 DEF IInv, TypeOK, Phases, Raisable
<1>4. Held' /\ Unwritten' /\ Marked' /\ Standing' /\ Placed' /\ Following'
  BY <1>1 DEF IInv, Held, Unwritten, Marked, Standing, Placed, Following, Working, Unrunnable
<1>5. Agree(db)' /\ Agree(mark)'
  BY <1>1 DEF IInv, EffectivelyOnce, Agree
<1>6. FailureIsTold' /\ HookSeesTheEnd'
  BY <1>1, <1>2 DEF FailureIsTold, HookSeesTheEnd
<1> QED
  BY <1>3, <1>4, <1>5, <1>6 DEF IInv, EffectivelyOnce

-----------------------------------------------------------------------------
(* The theorems.                                                           *)

LEMMA InitKeeps == Init => IInv
<1> SUFFICES ASSUME Init PROVE IInv
  OBVIOUS
<1>1. TypeOK
  BY PendingType DEF Init, TypeOK, Phases
<1>2. /\ db.row.status = "absent" /\ db.work = 0 /\ db.ours = "none" /\ db.note = "none"
  BY DEF Init, Empty, Pending
<1> QED
  BY <1>1, <1>2 DEF Init, IInv, Held, Unwritten, Marked, Standing, Following, Placed, Working,
     EffectivelyOnce, Agree, FailureIsTold, HookSeesTheEnd, Unrunnable

LEMMA StutterKeeps == ASSUME IInv, UNCHANGED vars PROVE IInv'
BY DEF vars, IInv, TypeOK, Held, Unwritten, Marked, Standing, Following, Placed, Owned, Tells,
       EffectivelyOnce, Agree, FailureIsTold, HookSeesTheEnd

LEMMA NextKeeps == ASSUME ~AnswerLost, IInv, [Next]_vars PROVE IInv'
<1>1. CASE Others \/ Claim
  BY <1>1, OthersKeep
<1>2. CASE Skip \/ Enter \/ Receive \/ Acknowledge \/ Commit \/ CommitRaises
  BY <1>2, SkipKeeps, EnterKeeps, ReceiveKeeps, AcknowledgeKeeps, CommitKeeps, CommitRaisesKeeps
<1>3. CASE \E why \in Unrunnable \cup {"none"} : Start(why) \/ Call(why)
  BY <1>3, StartKeeps, CallKeeps
<1>4. CASE \E e \in Raisable : Raise(e)
  BY <1>4, RaiseKeeps
<1>5. CASE RunCallbacks \/ Record \/ FailToRecord \/ Tell \/ Leave \/ CallerEnds \/ Crash
  BY <1>5, RunCallbacksKeeps, RecordKeeps, FailToRecordKeeps, TellKeeps, LeaveKeeps,
     CallerEndsKeeps, CrashKeeps
<1>6. CASE UNCHANGED vars
  BY <1>6, StutterKeeps
<1> QED
  BY <1>1, <1>2, <1>3, <1>4, <1>5, <1>6 DEF Next, Run

\* Where no COMMIT loses its answer, the database, the hook and on_failure
\* agree at every step of a run, of however many workers and attempts.
THEOREM InvariantCorrect == ASSUME ~AnswerLost PROVE Spec => []IInv
<1>1. IInv /\ [Next]_vars => IInv'
  BY NextKeeps
<1> QED
  BY InitKeeps, <1>1, PTL DEF Spec

\* The receiver's work is kept exactly as often as its row says it succeeded.
THEOREM EffectivelyOnceCorrect == ASSUME ~AnswerLost PROVE Spec => []EffectivelyOnce
<1>1. IInv => EffectivelyOnce
  BY DEF IInv
<1> QED
  BY <1>1, InvariantCorrect, PTL

\* on_failure is told of every failure that was recorded, and of no other.
THEOREM FailureIsToldCorrect == ASSUME ~AnswerLost PROVE Spec => []FailureIsTold
<1>1. IInv => FailureIsTold
  BY DEF IInv
<1> QED
  BY <1>1, InvariantCorrect, PTL

\* The hook is open around the receiver and closed on every way out.
THEOREM HookSeesTheEndCorrect == ASSUME ~AnswerLost PROVE Spec => []HookSeesTheEnd
<1>1. IInv => HookSeesTheEnd
  BY DEF IInv
<1> QED
  BY <1>1, InvariantCorrect, PTL

-----------------------------------------------------------------------------
(* The refinement.                                                         *)

\* What a step may do to the delivery, and to the work that stands.
RowLife ==
  \/ Owes' = Owes /\ db'.work = db.work
  \/ Owes = "owed" /\ Owes' = "owed" /\ db'.work = 0
  \/ /\ Owes = "owed" /\ Owes' \in Settled
     /\ db'.work = IF Owes' = "succeeded" THEN 1 ELSE 0
  \/ Owes \in Settled \cup {"absent"} /\ Owes' = "owed" /\ db'.work = 0

\* An owed delivery has no work yet, and the status says what one that is not owes.
LEMMA OwesIs ==
  ASSUME IInv
  PROVE  /\ Owes = "owed" <=> Owing
         /\ Owing => db.row.status \in Writable /\ db.work = 0
         /\ ~Owing => Owes = db.row.status /\ Owes \in Settled \cup {"absent"}
         /\ db.work = IF db.row.status = "succeeded" THEN 1 ELSE 0
<1>1. /\ db.row.status \in Statuses
      /\ db.work = IF db.row.status = "succeeded" THEN 1 ELSE 0
  BY DEF IInv, TypeOK, Database, Row, EffectivelyOnce, Agree
<1>2. Owing => db.row.status \in Writable
  BY DEF Owing, MayBeUndone, Writable
<1>3. ~Owing => db.row.status \in Settled \cup {"absent"}
  BY <1>1 DEF Owing, Statuses
<1> QED
  BY <1>1, <1>2, <1>3, StatusType DEF Owes, Settled

\* A step from a delivery that is owed leads anywhere, with the work that goes with it.
LEMMA OwedMoves == ASSUME IInv, IInv', Owing, db'.row.status # "absent" PROVE RowLife
<1>1. Owes = "owed"
  BY DEF Owes
<1>2. /\ db'.row.status \in Statuses
      /\ db'.work = IF db'.row.status = "succeeded" THEN 1 ELSE 0
  BY DEF IInv, TypeOK, Database, Row, EffectivelyOnce, Agree
<1>3. CASE Owing'
  <2>1. db'.row.status # "succeeded"
    BY <1>3 DEF Owing, MayBeUndone, Retryable
  <2> QED
    BY <1>1, <1>2, <1>3, <2>1 DEF RowLife, Owes
<1>4. CASE ~Owing'
  <2>1. Owes' = db'.row.status
    BY <1>4 DEF Owes
  <2>2. db'.row.status \in Settled
    BY <1>2, <1>4 DEF Owing, Statuses
  <2> QED
    BY <1>1, <1>2, <2>1, <2>2 DEF RowLife
<1> QED
  BY <1>3, <1>4

\* One that leaves the row as it is, and keeps whatever may be undone so.
LEMMA SameRow ==
  ASSUME IInv, IInv', db'.row = db.row, db'.work = db.work, Owing \/ ~MayBeUndone'
  PROVE  RowLife
<1>1. CASE Owing
  <2>1. db'.row.status # "absent"
    BY <1>1, OwesIs, StatusType
  <2> QED
    BY <1>1, <2>1, OwedMoves
<1>2. CASE ~Owing /\ ~MayBeUndone'
  <2>1. Owes = db.row.status /\ Owes' = db'.row.status
    BY <1>2 DEF Owes, Owing
  <2> QED
    BY <2>1 DEF RowLife
<1> QED
  BY <1>1, <1>2

LEMMA RowLives == ASSUME IInv, IInv', ~AnswerLost, [Next]_vars PROVE RowLife
<1>1. db \in Database /\ db' \in Database /\ view \in Database
  BY DEF IInv, TypeOK
<1>2. CASE Overtake \/ Claim
  <2>1. PICK s \in Tokens : Claims(s)
    BY <1>2 DEF Overtake, Claim
  <2>2. db'.row = Claimed(s).row
    BY <1>1, <2>1 DEF Claims, Elsewhere, Database
  <2>3. db'.row.status = "claimed"
    BY <1>1, <2>2 DEF Claimed, Database, Row
  <2> QED
    BY <2>1, <2>3, OwedMoves DEF Claims, Owing
<1>3. CASE OtherRecords
  <2>1. db.row.status = "claimed"
    BY <1>3 DEF OtherRecords
  <2>2. PICK r \in OutcomesElsewhere :
          Elsewhere([db EXCEPT !.row = r, !.work = IF r.status = "succeeded" THEN @ + 1 ELSE @])
    BY <1>3 DEF OtherRecords
  <2>3. db'.row = r
    BY <1>1, <2>2 DEF Elsewhere, Database
  <2>4. r.status # "absent"
    BY <2>1, OutcomesElsewhereType DEF Failures
  <2> QED
    BY <2>1, <2>3, <2>4, OwedMoves DEF Owing
<1>4. CASE Cancel
  <2>1. db'.row = [db.row EXCEPT !.status = "cancelled"]
    BY <1>1, <1>4 DEF Cancel, Elsewhere, Database
  <2>2. db'.row.status = "cancelled"
    BY <1>1, <2>1 DEF Database, Row
  <2> QED
    BY <1>4, <2>2, OwedMoves DEF Cancel, Owing
<1>5. CASE Open
  <2>1. db'.row = Pending /\ db'.work = 0 /\ db.row.status \in Settled \cup {"absent"}
    BY <1>1, <1>5 DEF Open, Elsewhere, Database
  <2>2. Owes' = "owed"
    BY <2>1 DEF Owes, Owing, Pending, Retryable
  <2> QED
    BY <2>1, <2>2, OwesIs DEF RowLife
<1>6. CASE \E why \in Unrunnable \cup {"none"} : Start(why) \/ Call(why)
  <2>1. PICK why \in Unrunnable \cup {"none"} : Load(why)
    BY <1>6 DEF Start, Call
  <2>2. db'.row = db.row /\ db'.work = db.work
    BY <1>1, <2>1 DEF Load, Database
  <2>3. Owing
    BY <1>1, <1>6 DEF Start, Call, Owing, IInv, Placed, Database, Row, Statuses
  <2> QED
    BY <2>2, <2>3, SameRow
<1>7. CASE Commit \/ CallerEnds
  <2>1. CASE db' = db /\ view' = view
    <3>1. MayBeUndone' => MayBeUndone
      BY <1>7, <2>1 DEF Commit, CallerEnds, MayBeUndone, Working, Owned
    <3> QED
      BY <2>1, <3>1, SameRow DEF Owing
  <2>2. CASE db' = view' /\ view' \in {db, view}
    <3>1. ~MayBeUndone'
      BY <1>7, <2>2 DEF Commit, CallerEnds, MayBeUndone, Working
    <3>2. CASE db'.row = db.row /\ db'.work = db.work
      BY <3>1, <3>2, SameRow
    <3>3. CASE view.row # db.row /\ db' = view
      <4>1. Owing
        BY <3>3 DEF IInv, Placed, Owing, MayBeUndone, Writable
      <4>2. db'.row.status # "absent"
        BY <1>7, <3>3 DEF IInv, Placed, Commit, CallerEnds
      <4> QED
        BY <4>1, <4>2, OwedMoves
    <3>4. view.row = db.row => view.work = db.work
      BY <1>7 DEF Commit, CallerEnds, IInv, Marked, Agree, EffectivelyOnce
    <3> QED
      BY <2>2, <3>2, <3>3, <3>4
  <2> QED
    BY <1>7, <2>1, <2>2 DEF Commit, CallerEnds, RollBack
<1>8. CASE CommitRaises
  <2>1. db' = db
    BY <1>8 DEF CommitRaises, IInv, Standing
  <2>2. view.row # db.row /\ db.row.status \in Writable
    BY <1>8, StatusType DEF CommitRaises, IInv, Marked
  <2>3. Owing
    BY <2>2 DEF Owing, MayBeUndone, Writable
  <2> QED
    BY <2>1, <2>3, SameRow
<1>9. CASE Record
  <2>1. /\ view.row = db.row /\ pc \in Working /\ pc' \notin Working
        /\ UNCHANGED <<outer, fence, hand>>
    BY <1>9 DEF Record, IInv, Held, Unwritten, Working
  <2>2. CASE ~Owned
    <3>1. UNCHANGED <<db, view>>
      BY <1>9, <2>2 DEF Record
    <3>2. ~MayBeUndone'
      BY <2>1, <3>1 DEF MayBeUndone
    <3> QED
      BY <3>1, <3>2, SameRow
  <2>3. CASE Owned
    <3>1. Owing
      <4>1. db.row.token = fence
        BY <2>1, <2>3 DEF Owned
      <4>2. db.row.status \in IF hand THEN Retryable \cup {"cancelled"} ELSE {"claimed"}
        BY <2>1, <4>1 DEF IInv, Held
      <4> QED
        BY <2>1, <2>3, <4>2 DEF Owing, MayBeUndone
    <3>2. db'.row.status # "absent"
      BY <1>9, <2>1, <3>1, OwesIs, StatusType DEF Record, IInv, Placed, Writes
    <3> QED
      BY <3>1, <3>2, OwedMoves
  <2> QED
    BY <2>2, <2>3
<1>10. CASE Tell
  <2>1. /\ view'.row = view.row /\ db'.row = db.row /\ db'.work = db.work
        /\ UNCHANGED <<fence, hand>> /\ pc' \notin Working
    <3>1. ~outer => db = view
      BY <1>10 DEF Tell, IInv, Marked, Standing
    <3> QED
      BY <1>1, <1>10, <3>1 DEF Tell, Writes, Database, Working
  <2>2. MayBeUndone' => MayBeUndone
    BY <2>1 DEF MayBeUndone
  <2> QED
    BY <2>1, <2>2, SameRow DEF Owing
<1>11. CASE Skip \/ Enter \/ Receive \/ Acknowledge \/ RunCallbacks \/ FailToRecord \/ Leave \/ Crash
            \/ \E e \in Raisable : Raise(e)
  <2>1. db' = db
    BY <1>11 DEF Skip, Enter, Receive, Acknowledge, RunCallbacks, FailToRecord, Leave, Crash,
                 RollBack, Raise
  <2>2. MayBeUndone' => MayBeUndone
    <3>1. CASE Skip \/ Enter \/ RunCallbacks \/ FailToRecord \/ Leave
      BY <3>1 DEF Skip, Enter, Raised, RunCallbacks, FailToRecord, Leave, MayBeUndone, Working, Owned
    <3>2. CASE Receive
      <4>1. view'.row = view.row
        BY <1>1, <3>2 DEF Receive, Database
      <4> QED
        BY <2>1, <3>2, <4>1 DEF Receive, MayBeUndone, Working, Owned
    <3>3. CASE Crash
      BY <2>1, <3>3 DEF Crash, RollBack, MayBeUndone
    <3>4. CASE pc = "acknowledging" /\ view' = mark /\ UNCHANGED <<fence, hand>>
      <4>1. view'.row = view.row /\ pc \in Working
        BY <1>1, <3>4 DEF IInv, TypeOK, Marked, Database, Working
      <4> QED
        BY <2>1, <3>4, <4>1 DEF MayBeUndone, Owned
    <3>5. CASE Acknowledge /\ Owned
      <4>1. /\ pc = "acknowledging" /\ view.row = db.row /\ pc \in Working /\ fence = db.row.token
        BY <3>5 DEF Acknowledge, Owned, IInv, Held, Unwritten, Working
      <4>2. db.row.status = "cancelled" => hand
        BY <4>1 DEF IInv, Held
      <4> QED
        BY <2>1, <3>5, <4>1, <4>2 DEF MayBeUndone
    <3> QED
      BY <1>11, <3>1, <3>2, <3>3, <3>4, <3>5 DEF Acknowledge, Raise
  <2> QED
    BY <2>1, <2>2, SameRow DEF Owing
<1>12. CASE UNCHANGED vars
  BY <1>12, SameRow DEF vars, Owing, MayBeUndone, Owned
<1> QED
  BY <1>2, <1>3, <1>4, <1>5, <1>6, <1>7, <1>8, <1>9, <1>10, <1>11, <1>12
  DEF Next, Others, Run

LEMMA PromiseStep == ASSUME IInv, IInv', ~AnswerLost, [Next]_vars PROVE Promise!Next
<1>1. /\ [r \in {1} |-> Owes][1] = Owes /\ [r \in {1} |-> Owes]'[1] = Owes'
      /\ [r \in {1} |-> db.work][1] = db.work /\ [r \in {1} |-> db.work]'[1] = db'.work
  OBVIOUS
<1>2. Owes = "owed" => db.work = 0
  BY OwesIs
<1>3. RowLife
  BY RowLives
<1>4. CASE Owes' = Owes /\ db'.work = db.work
  BY <1>1, <1>4 DEF Promise!Next, Promise!Stay
<1>5. CASE Owes = "owed" /\ Owes' = "owed" /\ db'.work = 0
  BY <1>1, <1>2, <1>5 DEF Promise!Next, Promise!Stay
<1>6. CASE /\ Owes = "owed" /\ Owes' \in Settled
           /\ db'.work = IF Owes' = "succeeded" THEN 1 ELSE 0
  BY <1>1, <1>2, <1>6 DEF Promise!Next, Promise!Discharge, Promise!Drop, Promise!Settled, Settled
<1>7. CASE Owes \in Settled \cup {"absent"} /\ Owes' = "owed" /\ db'.work = 0
  BY <1>1, <1>7 DEF Promise!Next, Promise!Open, Promise!Settled, Settled
<1> QED
  BY <1>3, <1>4, <1>5, <1>6, <1>7 DEF RowLife

\* However a run ends and whoever claims, settles, withdraws or reopens its row
\* meanwhile, the delivery is discharged at most once per opening, with the
\* receiver's work and the verdict in one step; a withdrawal stands once no direct
\* call is left that had loaded the row before it, and at once against any other.
THEOREM Refinement == ASSUME ~AnswerLost PROVE Spec => ImplementsObligation
<1>1. Init => Promise!Init
  BY DEF Init, Empty, Pending, Promise!Init, Owes, Owing, MayBeUndone, Retryable
<1>2. IInv /\ IInv' /\ [Next]_vars => [Promise!Next]_(Promise!vars)
  BY PromiseStep
<1> QED
  BY <1>1, <1>2, InvariantCorrect, PTL DEF Spec, ImplementsObligation, Promise!Spec
=============================================================================
