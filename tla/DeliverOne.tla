---------------------------- MODULE DeliverOne -----------------------------
(***************************************************************************)
(* One run of a delivery, from the load of its row to the close of its     *)
(* AROUND_DELIVERY hook: the part of _deliver_one that Delivery takes in   *)
(* one step.  Three things have to agree when it ends, however it ends:    *)
(* what the database kept, what the hook saw, and what on_failure was      *)
(* told.                                                                   *)
(*                                                                         *)
(* The run may be inside a transaction of its caller, so there are up to   *)
(* three versions of the database: what is committed (db), what this       *)
(* connection sees (view), and what a rollback of the receiver's block     *)
(* returns to (mark).  Other sessions claim, settle, withdraw and reopen    *)
(* the row while this one has not written it; afterwards they wait for its *)
(* row lock.                                                               *)
(*                                                                         *)
(* A fencing token stands for (claimed_by, claimed_at).  A direct call is  *)
(* made on a row nobody holds claimed, one at a time; the README says what *)
(* becomes of others.  Nothing keeps an operator from withdrawing the row  *)
(* under it: a cancel leaves the token, and the call writes over it.       *)
(***************************************************************************)
EXTENDS Integers

CONSTANTS
  MaxAttempts,  \* max_attempts of the row
  Tokens,       \* fencing tokens a claim may stamp
  NoToken,      \* claimed_by = "" and claimed_at NULL
  Hooked,       \* whether AROUND_DELIVERY is set
  Listening,    \* whether the receiver declares on_failure
  Nested,       \* whether a direct call may be inside the caller's atomic()
  AnswerLost    \* whether a COMMIT may succeed and its answer be lost

ASSUME ConstantsAssumption ==
  /\ MaxAttempts \in Nat \ {0} /\ NoToken \notin Tokens
  /\ Hooked \in BOOLEAN /\ Listening \in BOOLEAN
  /\ Nested \in BOOLEAN /\ AnswerLost \in BOOLEAN

VARIABLES
  db,     \* committed: the row, the receiver's work, this run's outcome and note
  view,   \* the same as this connection sees it
  mark,   \* the same at the start of the receiver's block
  outer,  \* inside the caller's transaction
  pc,     \* where _deliver_one is
  fence,  \* the token this worker claimed the row with, or read from it
  hand,   \* whether the run is a direct call, of a row it did not claim
  seen,   \* the attempts it read
  exc,    \* the exception the run ended with, or why it ran nothing
  hook,   \* the AROUND_DELIVERY context manager
  told    \* what became of the call of on_failure

vars == <<db, view, mark, outer, pc, fence, hand, seen, exc, hook, told>>

Retryable == {"pending", "failed"}
Settled   == {"succeeded", "dead", "orphaned", "cancelled"}
Failures  == {"failed", "dead"}
Statuses  == Retryable \cup Settled \cup {"absent", "claimed"}

\* What a receiver, or a hook being entered, may raise.  A RetryAfter that
\* counts is a failure; an interrupt is a BaseException and no verdict.
Raisable == {"failure", "permanent", "defer", "not_yet", "interrupt"}

\* Why a run may reach no receiver.
Unrunnable == {"orphan", "no_event", "undecodable"}

Row == [status: Statuses, attempts: Nat, token: Tokens \cup {NoToken}]

\* work: receiver runs kept since the row was opened.  ours and note: the
\* outcome this run recorded, and what its on_failure wrote down.
Database == [row: Row, work: Nat, ours: Statuses \cup {"none"},
             note: Statuses \cup {"none"}]

Phases == {"idle", "entering", "opening", "acknowledging", "committing",
           "callbacks", "recording", "telling", "leaving", "returned"}

TypeOK ==
  /\ db \in Database /\ view \in Database /\ mark \in Database
  /\ outer \in BOOLEAN /\ pc \in Phases
  /\ fence \in Tokens \cup {NoToken} /\ hand \in BOOLEAN /\ seen \in Nat
  /\ exc \in Raisable \cup Unrunnable \cup {"none"}
  /\ hook \in {"none", "open", "closed", "failed"}
  /\ told \in {"no", "kept", "raised"}

Pending == [status |-> "pending", attempts |-> 0, token |-> NoToken]

Empty == [row |-> [Pending EXCEPT !.status = "absent"], work |-> 0, ours |-> "none", note |-> "none"]

Init ==
  /\ db = Empty /\ view = Empty /\ mark = Empty
  /\ outer = FALSE /\ pc = "idle" /\ fence = NoToken /\ hand = FALSE /\ seen = 0
  /\ exc = "none" /\ hook = "none" /\ told = "no"

-----------------------------------------------------------------------------
(* The other sessions.                                                     *)

\* A statement of another session: it waits for a row this one has written.
Elsewhere(new) ==
  /\ view.row = db.row
  /\ db' = [db EXCEPT !.row = new.row, !.work = new.work]
  /\ view' = [view EXCEPT !.row = new.row, !.work = @ + new.work - db.work]
  /\ mark' = [mark EXCEPT !.row = new.row, !.work = @ + new.work - db.work]
  /\ UNCHANGED <<outer, pc, hand, seen, exc, hook, told>>

\* claim_batch, of an owed row or of one whose lease has run out.
Claimed(s) == [db EXCEPT !.row.status = "claimed", !.row.token = s]

Claims(s) ==
  /\ db.row.status \in Retryable \cup {"claimed"}
  /\ s \notin {db.row.token, fence}
  /\ Elsewhere(Claimed(s))

Overtake == \E s \in Tokens : Claims(s) /\ UNCHANGED fence

\* The worker of this run claims the row.
Claim ==
  /\ pc = "idle" /\ fence = NoToken
  /\ \E s \in Tokens : Claims(s) /\ fence' = s

CountedElsewhere(s) ==
  [db.row EXCEPT !.status = s, !.attempts = IF @ < MaxAttempts THEN @ + 1 ELSE @]

\* What another worker may make of a row: a success or a failure counts, an
\* orphan, a NotYet and a deferral do not.
OutcomesElsewhere ==
  {CountedElsewhere(s) : s \in Failures \cup {"succeeded"}} \cup
  {[db.row EXCEPT !.status = s] : s \in Failures \cup {"pending", "orphaned"}}

\* Another worker records its outcome of a row it holds, with its receiver's
\* work.
OtherRecords ==
  /\ db.row.status = "claimed" /\ db.row.token # fence
  /\ \E r \in OutcomesElsewhere :
       Elsewhere([db EXCEPT !.row = r, !.work = IF r.status = "succeeded" THEN @ + 1 ELSE @])
  /\ UNCHANGED fence

\* cancel_deliveries withdraws a row nobody holds claimed; its token stays.
Cancel ==
  /\ db.row.status \in Retryable
  /\ Elsewhere([db EXCEPT !.row = [@ EXCEPT !.status = "cancelled"]])
  /\ UNCHANGED fence

\* fire records the row; replay_events or requeue_dead opens it again.
Open ==
  /\ db.row.status \in Settled \cup {"absent"}
  /\ Elsewhere([db EXCEPT !.row = Pending, !.work = 0])
  /\ UNCHANGED fence

-----------------------------------------------------------------------------
(* The run.                                                                *)

\* A write of this connection commits at once, unless a transaction is open.
Writes(new) ==
  /\ view' = new
  /\ mark' = new
  /\ db' = IF outer THEN db ELSE new

\* Mutant: the write is fenced by the primary key alone.
OwnedByKey == view.row.status # "absent"

\* The row still carries this run's token.
Owned == view.row.token = fence

Load(why) ==
  /\ seen' = db.row.attempts
  /\ exc' = why /\ hook' = "none" /\ told' = "no"
  /\ pc' = IF why = "none" THEN "entering" ELSE "recording"
  /\ db' = [db EXCEPT !.ours = "none", !.note = "none"]
  /\ view' = db' /\ mark' = db'

\* The worker starts the row it claimed: one it lost is left alone while
\* another holds it, and run when it is owed again.
Start(why) ==
  /\ pc = "idle" /\ fence # NoToken
  /\ db.row.status \notin Settled
  /\ db.row.status = "claimed" => Owned
  /\ Load(why)
  /\ hand' = FALSE
  /\ UNCHANGED <<outer, fence>>

\* deliver_one on a row nobody holds, perhaps inside a transaction.
Call(why) ==
  /\ pc = "idle" /\ fence = NoToken
  /\ db.row.status \in Retryable
  /\ Load(why)
  /\ hand' = TRUE /\ fence' = db.row.token
  /\ outer' \in {FALSE, Nested}

\* Not owed any more, or lost.
Skip ==
  /\ pc = "idle" /\ fence # NoToken
  /\ db.row.status \in Settled \/ (db.row.status = "claimed" /\ ~Owned)
  /\ fence' = NoToken
  /\ UNCHANGED <<db, view, mark, outer, pc, hand, seen, exc, hook, told>>

\* The exception a step ends with: a verdict is recorded, an interrupt goes up.
Raised(e) ==
  /\ exc' = e
  /\ pc' = IF e = "interrupt" THEN "leaving" ELSE "recording"

\* _Around.enter: a hook that cannot be entered fails the attempt.
Enter ==
  /\ pc = "entering"
  /\ \/ /\ hook' = IF Hooked THEN "open" ELSE "none"
        /\ pc' = "opening" /\ UNCHANGED exc
     \/ Hooked /\ hook' = "failed" /\ \E e \in Raisable : Raised(e)
  /\ UNCHANGED <<db, view, mark, outer, fence, hand, seen, told>>

\* The receiver's block opens, and the receiver works in it.
Receive ==
  /\ pc = "opening"
  /\ mark' = view
  /\ view' = [view EXCEPT !.work = @ + 1]
  /\ pc' = "acknowledging"
  /\ UNCHANGED <<db, outer, fence, hand, seen, exc, hook, told>>

\* The receiver raises: its block is rolled back.
Raise(e) ==
  /\ pc = "acknowledging"
  /\ view' = mark
  /\ Raised(e)
  /\ UNCHANGED <<db, mark, outer, fence, hand, seen, hook, told>>

Acknowledged == [view EXCEPT !.row.status = "succeeded",
                             !.row.attempts = seen + 1, !.ours = "succeeded"]

\* The fenced acknowledgement.  One that matches nothing takes the receiver's
\* work back with it (set_rollback).
Acknowledge ==
  /\ pc = "acknowledging"
  /\ IF Owned THEN view' = Acknowledged /\ pc' = "committing"
              ELSE view' = mark /\ pc' = "leaving"
  /\ UNCHANGED <<db, mark, outer, fence, hand, seen, exc, hook, told>>

\* The block ends.  Only the outermost one commits, and runs its callbacks
\* (mark_committed first among them).
Commit ==
  /\ pc = "committing"
  /\ mark' = view
  /\ IF outer THEN UNCHANGED db /\ pc' = "leaving"
              ELSE db' = view /\ pc' = "callbacks"
  /\ UNCHANGED <<view, outer, fence, hand, seen, exc, hook, told>>

\* COMMIT raises.  The database refused it, a deferred constraint; or it
\* committed and the connection was lost before it could say so: Django drops
\* the connection, no callback runs, and the next statement opens a new one.
CommitRaises ==
  /\ pc = "committing" /\ ~outer
  /\ db' \in IF AnswerLost THEN {mark, view} ELSE {mark}
  /\ view' = db' /\ mark' = db'
  /\ Raised("failure")
  /\ UNCHANGED <<outer, fence, hand, seen, hook, told>>

\* Mutant: what a callback raises is read as the attempt's failure.
RunCallbacksJudged ==
  /\ pc = "callbacks"
  /\ Raised("failure")
  /\ UNCHANGED <<db, view, mark, outer, fence, hand, seen, hook, told>>

\* The on-commit callbacks.  What one raises is logged and swallowed, and the
\* hook is not handed it; an interrupt goes up.
RunCallbacks ==
  /\ pc = "callbacks"
  /\ exc' \in {exc, "interrupt"}
  /\ pc' = "leaving"
  /\ UNCHANGED <<db, view, mark, outer, fence, hand, seen, hook, told>>

-----------------------------------------------------------------------------
(* Recording what was not a success, and telling of it.                    *)

Counted == [view.row EXCEPT !.attempts = seen + 1]

\* The row a verdict leaves; a deferral that does not count either puts the
\* row off or, past give_up_after, ends it.
Verdict ==
  CASE exc = "orphan"  -> {[view.row EXCEPT !.status = "orphaned"]}
    [] exc = "not_yet" -> {[view.row EXCEPT !.status = "pending"]}
    [] exc = "defer"   -> {[view.row EXCEPT !.status = s] : s \in Failures}
    [] exc \in {"permanent", "undecodable"} -> {[Counted EXCEPT !.status = "dead"]}
    [] OTHER -> {[Counted EXCEPT !.status =
                    IF seen + 1 >= MaxAttempts THEN "dead" ELSE "failed"]}

\* Whether the receiver's on_failure hears of this outcome.
Tells == Listening /\ exc \notin {"orphan", "undecodable", "not_yet"}

\* Mutant: a worker that lost the row reports the failure all the same.
RecordTellingAnyway ==
  /\ pc = "recording"
  /\ \/ /\ Owned
        /\ \E r \in Verdict : Writes([view EXCEPT !.row = r, !.ours = r.status])
     \/ ~Owned /\ UNCHANGED <<db, view, mark>>
  /\ pc' = IF Tells THEN "telling" ELSE "leaving"
  /\ UNCHANGED <<outer, fence, hand, seen, exc, hook, told>>

\* The fenced write of _fail, _defer, _reschedule or the terminal verdicts.
Record ==
  /\ pc = "recording"
  /\ \/ /\ Owned
        /\ \E r \in Verdict : Writes([view EXCEPT !.row = r, !.ours = r.status])
        /\ pc' = IF Tells THEN "telling" ELSE "leaving"
     \/ ~Owned /\ UNCHANGED <<db, view, mark>> /\ pc' = "leaving"
  /\ UNCHANGED <<outer, fence, hand, seen, exc, hook, told>>

\* The write raises: nothing is recorded, and the exception goes up.
FailToRecord ==
  /\ pc = "recording"
  /\ pc' = "leaving"
  /\ UNCHANGED <<db, view, mark, outer, fence, hand, seen, exc, hook, told>>

\* _notify_failure: on_failure writes a record of its own, or raises.
Tell ==
  /\ pc = "telling"
  /\ \/ told' = "kept" /\ Writes([view EXCEPT !.note = view.ours])
     \/ told' = "raised" /\ UNCHANGED <<db, view, mark>>
  /\ pc' = "leaving"
  /\ UNCHANGED <<outer, fence, hand, seen, exc, hook>>

-----------------------------------------------------------------------------
(* Leaving.                                                                *)

\* _Around.exit, on every path; what it raises is logged, or goes up, and
\* changes nothing.
Leave ==
  /\ pc = "leaving"
  /\ hook' = IF hook = "open" THEN "closed" ELSE hook
  /\ pc' = IF outer THEN "returned" ELSE "idle"
  /\ fence' = NoToken /\ hand' = FALSE
  /\ UNCHANGED <<db, view, mark, outer, seen, exc, told>>

\* Everything falls back to what is committed.
RollBack == view' = db /\ mark' = db /\ UNCHANGED db

\* The caller's transaction ends, one way or the other.
CallerEnds ==
  /\ pc = "returned"
  /\ RollBack \/ (db' = view /\ mark' = view /\ UNCHANGED view)
  /\ outer' = FALSE /\ pc' = "idle"
  /\ UNCHANGED <<fence, hand, seen, exc, hook, told>>

\* The process dies, and its open transaction with it.
Crash ==
  /\ pc # "idle" \/ fence # NoToken
  /\ RollBack
  /\ outer' = FALSE /\ pc' = "idle" /\ fence' = NoToken /\ hand' = FALSE
  /\ exc' = "interrupt" /\ hook' = "none" /\ told' = "no"
  /\ UNCHANGED seen

-----------------------------------------------------------------------------

Others == Overtake \/ OtherRecords \/ Cancel \/ Open

Run ==
  \/ Claim \/ Skip
  \/ \E why \in Unrunnable \cup {"none"} : Start(why) \/ Call(why)
  \/ Enter \/ Receive \/ Acknowledge \/ Commit \/ CommitRaises \/ RunCallbacks
  \/ \E e \in Raisable : Raise(e)
  \/ Record \/ FailToRecord \/ Tell \/ Leave \/ CallerEnds \/ Crash

Next == Others \/ Run

Spec == Init /\ [][Next]_vars

-----------------------------------------------------------------------------
(* Safety.                                                                 *)

\* Of a receiver that touches only this database, no work is kept twice: "the
\* duplicate at-least-once owes you cannot be observed" (deliver_one).
NoDuplicate == db.work <= 1

\* The work is kept exactly as often as the row says it succeeded.
Agree(d) == d.work = IF d.row.status = "succeeded" THEN 1 ELSE 0
EffectivelyOnce == Agree(db)

\* on_failure is told of a failure this run recorded, and of every one unless
\* the payload never decoded or the process stopped first; what it wrote is
\* kept exactly if the failure is, although the receiver's own work never is.
FailureIsTold ==
  /\ told # "no" => Listening /\ exc # "undecodable"
  /\ pc \in {"leaving", "returned"} =>
       IF Listening /\ view.ours \in Failures /\ exc # "undecodable"
         THEN told # "no" ELSE told = "no"
  /\ view.note \in {"none", view.ours} /\ db.note \in {"none", db.ours}
  /\ told = "kept" => view.note = view.ours /\ db.note = db.ours
  /\ view.note # "none" => view.note \in Failures

\* The hook is open around the receiver, around the record of what it raised
\* and around on_failure, is closed on every way out, and is then handed an
\* exception exactly if the attempt did not succeed.
HookSeesTheEnd ==
  /\ pc \in {"opening", "acknowledging", "committing", "callbacks"} =>
       hook = IF Hooked THEN "open" ELSE "none"
  /\ pc \in {"recording", "telling"} /\ Hooked =>
       hook = "open" \/ hook = "failed" \/ exc \in Unrunnable
  /\ pc \in {"idle", "returned"} => hook # "open"
  /\ hook = "closed" /\ view.ours # "none" =>
       IF view.ours = "succeeded" THEN exc \in {"none", "interrupt"}
                                  ELSE exc \in Raisable \ {"interrupt"}

Working == {"entering", "opening", "acknowledging", "recording"}

\* A withdrawal a direct call may still write over, or has in a transaction
\* that is open: it loaded the row before, and the fence finds its token there.
\* No run of a claimed row has any such right.
MayBeUndone ==
  /\ db.row.status = "cancelled"
  /\ view.row # db.row \/ (hand /\ pc \in Working /\ Owned)

\* The row, opened and settled, and the work that stands.
Owing == db.row.status \in Retryable \cup {"claimed"} \/ MayBeUndone
Owes == IF Owing THEN "owed" ELSE db.row.status

Promise == INSTANCE Obligation WITH
  Rows <- {1},
  state <- [r \in {1} |-> Owes],
  effects <- [r \in {1} |-> db.work]

\* However a run ends, the row is discharged at most once per opening, and a
\* withdrawal stands once no direct call is left that loaded the row before it.
ImplementsObligation == Promise!Spec

-----------------------------------------------------------------------------
(* The inductive invariant of DeliverOne_proofs, where no answer is lost.  *)

\* What a run may write over.
Writable == Retryable \cup {"claimed", "cancelled"}

\* A row this run owns it holds claimed; or it loaded it by hand, and nobody
\* has claimed it since, though an operator may have withdrawn it.
Held ==
  /\ pc = "idle" => ~hand
  /\ pc = "returned" => ~hand /\ fence = NoToken
  /\ pc \in Working \cup {"committing"} => hand \/ fence # NoToken
  /\ pc \in Working \cup {"committing"} \/ (pc = "idle" /\ fence # NoToken) =>
       db.row.token # fence \/
         db.row.status \in IF hand THEN Retryable \cup {"cancelled"} ELSE {"claimed"}

\* Until this run writes its row, what it sees of the row is what is committed.
Unwritten ==
  pc \in Working =>
    view.row = db.row /\ view.ours = "none" /\ view.note = "none" /\ told = "no"

\* What a rollback of the receiver's block returns to.
Marked ==
  /\ pc \notin {"acknowledging", "committing"} => mark = view
  /\ pc = "acknowledging" => view = [mark EXCEPT !.work = @ + 1]
  /\ pc = "committing" =>
       /\ mark.row = db.row /\ mark.row.status \in Writable
       /\ mark.ours = "none" /\ mark.note = "none" /\ told = "no"
       /\ view.row.status = "succeeded" /\ view.work = 1
       /\ view.ours = "succeeded" /\ view.note = "none"

\* Without a transaction of the caller, what a rollback returns to is
\* committed; within one, nothing of this run is.
Standing == IF outer THEN db.ours = "none" /\ db.note = "none" ELSE mark = db

\* How the exception, the hook and the outcome follow from where the run is.
Following ==
  /\ pc \in {"entering", "opening", "acknowledging", "committing", "callbacks"} =>
       exc = "none"
  /\ pc = "callbacks" => view.ours = "succeeded" /\ view.note = "none" /\ told = "no"
  /\ pc \in {"recording", "telling"} => exc \notin {"none", "interrupt"}
  /\ exc \in Unrunnable => hook = "none"
  /\ hook = "closed" => pc \in {"idle", "returned"}
  /\ pc = "telling" => Tells /\ view.ours \in Failures /\ view.note = "none" /\ told = "no"
  /\ pc = "leaving" /\ hook = "open" /\ view.ours # "none" =>
       IF view.ours = "succeeded" THEN exc \in {"none", "interrupt"}
                                  ELSE exc \in Raisable \ {"interrupt"}

\* Where the transactions are, and what this run may have written over in one.
Placed ==
  /\ pc = "returned" => outer
  /\ pc \in {"idle", "callbacks"} => ~outer
  /\ pc # "idle" \/ fence # NoToken => db.row.status # "absent"
  /\ pc # "idle" => view.row.status # "absent"
  /\ view.row = db.row \/ db.row.status \in Writable

IInv == /\ TypeOK /\ Held /\ Unwritten /\ Marked /\ Standing /\ Following /\ Placed
        /\ EffectivelyOnce /\ Agree(mark)
        /\ FailureIsTold /\ HookSeesTheEnd
=============================================================================
