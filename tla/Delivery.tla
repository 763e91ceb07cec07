------------------------------ MODULE Delivery ------------------------------
(***************************************************************************)
(* The delivery rows of the outbox and everyone who writes them: the       *)
(* workers that claim batches and run them (run_relay, deliver_pending and *)
(* the eager attempt of fire), the task workers a row can be handed to,    *)
(* and the operator's cancel, requeue and replay.  A call of deliver_one   *)
(* with no claim is in DeliverOne.                                         *)
(*                                                                         *)
(* Every database statement is one step, so a step of somebody else can    *)
(* fall between the read of a row, the extension of its lease, the run of  *)
(* the receiver and the write of the outcome.                              *)
(*                                                                         *)
(* Time is what has elapsed.  A row does not carry timestamps but whether  *)
(* its available_at and due_at are still ahead, whether its lease has run  *)
(* out, and whether its receiver's give_up_after has been reached; the     *)
(* actions of the section "Time" let each of them elapse at any moment,    *)
(* since nothing bounds how long a worker takes between two statements.    *)
(* claimed_at is the exception: the code only ever compares it for         *)
(* equality, as half of the fencing token, so it is a stamp that differs   *)
(* from every stamp of the same owner somebody still holds for the row.    *)
(***************************************************************************)
EXTENDS Integers, FiniteSets

CONSTANTS
  Events,       \* events that may be fired
  Rows,         \* delivery rows, one per (event, receiver, target)
  EventOf,      \* the event of each row
  TaskRows,     \* rows whose receiver is declared with site="task"
  UnboundedRows,\* rows whose receiver declares no give_up_after
  Workers,      \* processes that claim batches, each under its own worker_id
  Drainers,     \* the workers among them that claim with ignore_backoff
  Eager,        \* the workers among them that run the eager attempt of fire
  Tasks,        \* ids a task worker mints for one take
  Stamps,       \* values of claimed_at
  BatchSize,    \* limit of one claim
  MaxAttempts,  \* max_attempts, copied onto every row by fire
  Verdicts,     \* the ways an attempt may end
  NoRow, Nobody, NoStamp   \* no row; claimed_by = ""; claimed_at NULL

Executors == Workers \cup Tasks

AllVerdicts == {"success", "failure", "permanent", "defer", "not_yet", "orphan"}

ASSUME ConstantsAssumption ==
  /\ EventOf \in [Rows -> Events]
  /\ TaskRows \subseteq Rows /\ UnboundedRows \subseteq Rows
  /\ Drainers \subseteq Workers /\ Eager \subseteq Workers
  /\ Workers \cap Tasks = {}
  /\ Verdicts \subseteq AllVerdicts
  /\ BatchSize \in Nat \ {0} /\ MaxAttempts \in Nat \ {0}
  /\ NoRow \notin Rows /\ Nobody \notin Executors /\ NoStamp \notin Stamps

VARIABLES
  events,    \* the EventRecord table
  row,       \* the DeliveryRecord table
  batch,     \* the rows each worker has claimed and not started (unstarted)
  stamp,     \* the claimed_at of each worker's last claim
  pc,        \* where each executor is in _deliver_one / dispatch_one
  att,       \* the fence and the row values its current attempt read
  messages,  \* task messages in the queue
  commits    \* receiver transactions committed since the row was last opened

vars == <<events, row, batch, stamp, pc, att, messages, commits>>

Retryable == {"pending", "failed"}
Terminal  == {"succeeded", "dead", "orphaned", "cancelled"}
Statuses  == {"absent", "claimed"} \cup Retryable \cup Terminal

\* wait: "backoff" is available_at ahead of now with due_at reached,
\* "schedule" both ahead, "none" neither.  late: give_up_after is reached.
Row == [status: Statuses, attempts: Nat,
        wait: {"none", "backoff", "schedule"}, late: BOOLEAN,
        by: Executors \cup {Nobody}, at: Stamps \cup {NoStamp},
        lease: {"none", "held", "lapsed"}]

Absent == [status |-> "absent", attempts |-> 0, wait |-> "none", late |-> FALSE,
           by |-> Nobody, at |-> NoStamp, lease |-> "none"]

Opened(wait) == [Absent EXCEPT !.status = "pending", !.wait = wait]

Attempt == [row: Rows \cup {NoRow}, by: Executors \cup {Nobody},
            at: Stamps \cup {NoStamp}, attempts: Nat]

NoAttempt == [row |-> NoRow, by |-> Nobody, at |-> NoStamp, attempts |-> 0]

Phases == {"idle", "taken", "extending", "running", "callbacks", "handing_back"}

Message == [row: Rows, by: Executors \cup {Nobody}, at: Stamps \cup {NoStamp}]

TypeOK ==
  /\ events \subseteq Events
  /\ row \in [Rows -> Row]
  /\ batch \in [Workers -> SUBSET Rows]
  /\ stamp \in [Workers -> Stamps \cup {NoStamp}]
  /\ pc \in [Executors -> Phases]
  /\ att \in [Executors -> Attempt]
  /\ \A e \in Executors : pc[e] \notin {"idle", "handing_back"} => att[e].row \in Rows
  /\ messages \subseteq Message
  /\ commits \in [Rows -> Nat]

Init ==
  /\ events = {}
  /\ row = [r \in Rows |-> Absent]
  /\ batch = [w \in Workers |-> {}]
  /\ stamp = [w \in Workers |-> NoStamp]
  /\ pc = [e \in Executors |-> "idle"]
  /\ att = [e \in Executors |-> NoAttempt]
  /\ messages = {}
  /\ commits = [r \in Rows |-> 0]

-----------------------------------------------------------------------------
(* The fence and the clock's stamps.                                       *)

\* Mutant: the fence conditions its writes on the primary key alone.
OwnedUnfenced(e) == row[att[e].row].status # "absent"

\* The row still carries the token this attempt read: _Fence._owned, which
\* does not look at the status.
Owned(e) ==
  /\ row[att[e].row].by = att[e].by
  /\ row[att[e].row].at = att[e].at

\* A worker's clock moves between two of its own claims of a row.
Fresh(e, r, s) ==
  /\ \A m \in messages : m.row = r /\ m.by = e => m.at # s
  /\ \A c \in Executors : att[c].row = r /\ att[c].by = e => att[c].at # s

Rest(e) ==
  /\ pc' = [pc EXCEPT ![e] = "idle"]
  /\ att' = [att EXCEPT ![e] = NoAttempt]

Enters(e, phase, a) ==
  /\ pc' = [pc EXCEPT ![e] = phase]
  /\ att' = [att EXCEPT ![e] = a]

-----------------------------------------------------------------------------
(* Recording events and their rows.                                        *)

RowsOf(v) == {r \in Rows : EventOf[r] = v}

\* fire: the event and the rows of its durable receivers commit together.  A
\* row is due at once or, for a receiver with due=, later.
Fire(v) ==
  /\ v \notin events
  /\ events' = events \cup {v}
  /\ \E S \in SUBSET RowsOf(v), wait \in [RowsOf(v) -> {"none", "schedule"}] :
       row' = [r \in Rows |-> IF r \in S THEN Opened(wait[r]) ELSE row[r]]
  /\ UNCHANGED <<batch, stamp, pc, att, messages, commits>>

-----------------------------------------------------------------------------
(* Claiming, and handing back.                                             *)

Lapsed(r) == row[r].status = "claimed" /\ row[r].lease = "lapsed"

Claimable(w, r) ==
  \/ /\ row[r].status \in Retryable
     /\ IF w \in Drainers THEN row[r].wait # "schedule" ELSE row[r].wait = "none"
  \/ Lapsed(r)

\* Mutant: the claim counts the attempt.
ClaimedCounting(e, s, old) ==
  [old EXCEPT !.status = "claimed", !.by = e, !.at = s, !.lease = "held",
              !.attempts = @ + 1]

ClaimedBy(e, s, old) ==
  [old EXCEPT !.status = "claimed", !.by = e, !.at = s, !.lease = "held"]

\* claim_batch, by a worker between batches.  Which of the claimable rows come
\* first is left open: SKIP LOCKED passes over rows another statement holds.
Claim(w) ==
  /\ pc[w] = "idle" /\ batch[w] = {}
  /\ \E S \in SUBSET {r \in Rows : Claimable(w, r)}, s \in Stamps :
       /\ S # {} /\ Cardinality(S) <= BatchSize
       /\ \A r \in S : Fresh(w, r, s)
       /\ row' = [r \in Rows |-> IF r \in S THEN ClaimedBy(w, s, row[r]) ELSE row[r]]
       /\ batch' = [batch EXCEPT ![w] = S]
       /\ stamp' = [stamp EXCEPT ![w] = s]
  /\ UNCHANGED <<events, pc, att, messages, commits>>

\* Mutant: the rows are found by the claim instead of named.
HandedBackByClaim(w, r) ==
  row[r].status = "claimed" /\ row[r].by = w /\ row[r].at = stamp[w]

\* The rows hand_back's one UPDATE matches.
HandedBack(w, r) ==
  /\ r \in batch[w]
  /\ row[r].status = "claimed" /\ row[r].by = w /\ row[r].at = stamp[w]

\* The rest of a batch is given back after a deferral, or between two rows
\* when the worker is told to stop.
HandBack(w) ==
  /\ \/ pc[w] = "handing_back"
     \/ pc[w] = "idle" /\ batch[w] # {} /\ w \notin Eager
  /\ row' = [r \in Rows |-> IF HandedBack(w, r)
                              THEN [row[r] EXCEPT !.lease = "lapsed"] ELSE row[r]]
  /\ batch' = [batch EXCEPT ![w] = {}]
  /\ pc' = [pc EXCEPT ![w] = "idle"]
  /\ UNCHANGED <<events, stamp, att, messages, commits>>

-----------------------------------------------------------------------------
(* Starting a row.                                                         *)

Owed(r) ==
  /\ row[r].status \notin Terminal \cup {"absent"}
  /\ row[r].status \in Retryable => row[r].wait = "none"

\* dispatch_one enqueues what a worker may not run itself.
HandsOff(e, r) == e \in Workers /\ r \in TaskRows

\* The row is this executor's to run: run the receiver, or hand the row off
\* under the claim the fence read.
Proceed(e, a) ==
  IF HandsOff(e, a.row)
    THEN /\ messages' = messages \cup {[row |-> a.row, by |-> a.by, at |-> a.at]}
         /\ Rest(e)
    ELSE Enters(e, "running", a) /\ UNCHANGED messages

\* The row is loaded and the fence built on what was read.  A claimed row is
\* run without another write only if it is this owner's and its lease is in the
\* band (leased_for); whether a held lease is in the band is left open.  A row
\* that is not claimed skips the ownership check.
Begin(e, r, owner) ==
  LET a == [row |-> r, by |-> owner, at |-> row[r].at, attempts |-> row[r].attempts]
  IN  \/ /\ ~Owed(r) \/ (HandsOff(e, r) /\ row[r].status # "claimed")
         /\ Rest(e) /\ UNCHANGED messages
      \/ /\ Owed(r) /\ row[r].status # "claimed" /\ ~HandsOff(e, r)
         /\ Proceed(e, a)
      \/ /\ row[r].status = "claimed" /\ row[r].by = owner /\ row[r].lease = "held"
         /\ Proceed(e, a)
      \/ /\ row[r].status = "claimed"
         /\ Enters(e, "extending", a) /\ UNCHANGED messages

\* The next row of a worker's batch.
Start(w, r) ==
  /\ pc[w] = "idle" /\ r \in batch[w]
  /\ batch' = [batch EXCEPT ![w] = @ \ {r}]
  /\ Begin(w, r, w)
  /\ UNCHANGED <<events, row, stamp, commits>>

\* The row is still claimed under exactly the claim message m carries.
Current(m) ==
  row[m.row].status = "claimed" /\ row[m.row].by = m.by /\ row[m.row].at = m.at

\* _take, as a task worker receives message m.  The queue may keep the message
\* and deliver it again.
Take(t, m) ==
  /\ pc[t] = "idle" /\ Current(m)
  /\ \E s \in Stamps :
       /\ Fresh(t, m.row, s)
       /\ row' = [row EXCEPT ![m.row].by = t, ![m.row].at = s]
  /\ messages' \in {messages, messages \ {m}}
  /\ Enters(t, "taken", [NoAttempt EXCEPT !.row = m.row])
  /\ UNCHANGED <<events, batch, stamp, commits>>

\* The take matches nothing: the message is consumed and nothing runs.
TurnAway(m) ==
  /\ ~Current(m)
  /\ messages' = messages \ {m}
  /\ UNCHANGED <<events, row, batch, stamp, pc, att, commits>>

StartTaken(t) ==
  /\ pc[t] = "taken"
  /\ Begin(t, att[t].row, t)
  /\ UNCHANGED <<events, row, batch, stamp, commits>>

\* extend_lease; a worker that finds the row gone has lost it.
Extend(e) ==
  /\ pc[e] = "extending"
  /\ IF Owned(e)
       THEN /\ row' = [row EXCEPT ![att[e].row].lease = "held"]
            /\ Proceed(e, att[e])
       ELSE Rest(e) /\ UNCHANGED <<row, messages>>
  /\ UNCHANGED <<events, batch, stamp, commits>>

-----------------------------------------------------------------------------
(* Recording an outcome.                                                   *)

\* Mutant: nothing is ever given up.
GivenUpNever(r) == r \notin Rows

Exhausted(seen) == seen + 1 >= MaxAttempts

\* give_up_after is reached.
GivenUp(r) == row[r].late

\* A recorded deferral: the attempt is not counted.
PutOff(r) == [row[r] EXCEPT !.status = "failed", !.wait = "backoff"]

\* A deferral that does not count, which needs a bound on its waiting.
Defers(v, r) == v = "defer" /\ r \notin UnboundedRows

\* What an attempt that read `seen` attempts writes on its row for a verdict.
Verdict(v, r, seen) ==
  LET counted == [row[r] EXCEPT !.attempts = seen + 1]
  IN  CASE v = "success"   -> [counted EXCEPT !.status = "succeeded"]
        [] v = "permanent" -> [counted EXCEPT !.status = "dead"]
        [] v = "orphan"    -> [row[r] EXCEPT !.status = "orphaned"]
        [] v = "not_yet"   -> [row[r] EXCEPT !.status = "pending",
                                 !.wait = "schedule", !.late = FALSE]
        [] Defers(v, r)    -> IF GivenUp(r)
                                THEN [row[r] EXCEPT !.status = "dead"] ELSE PutOff(r)
        [] OTHER           -> IF Exhausted(seen)
                                THEN [counted EXCEPT !.status = "dead"]
                                ELSE [counted EXCEPT !.status = "failed", !.wait = "backoff"]

\* After a recorded deferral, a worker gives back its batch; the eager attempt
\* and a task have nobody to tell of it.
SetsAside(e, v, r) == e \in Workers \ Eager /\ Defers(v, r) /\ ~GivenUp(r)

\* The fenced write of the outcome.  The receiver's own work commits with a
\* success and rolls back with everything else.
Finish(e, v) ==
  LET r == att[e].row
  IN  /\ pc[e] = "running" /\ Owned(e)
      /\ row' = [row EXCEPT ![r] = Verdict(v, r, att[e].attempts)]
      /\ commits' = [commits EXCEPT ![r] = IF v = "success" THEN @ + 1 ELSE @]
      /\ IF v = "success" THEN Enters(e, "callbacks", att[e])
         ELSE IF SetsAside(e, v, r) THEN Enters(e, "handing_back", NoAttempt)
         ELSE Rest(e)
      /\ UNCHANGED <<events, batch, stamp, messages>>

\* Mutant: the receiver's work is kept although its acknowledgement matched
\* nothing.
LoseKeepingWork(e) ==
  /\ pc[e] = "running" /\ ~Owned(e)
  /\ Rest(e)
  /\ commits' = [commits EXCEPT ![att[e].row] = @ + 1]
  /\ UNCHANGED <<events, row, batch, stamp, messages>>

\* The write matches nothing: whatever the verdict was, nothing is recorded
\* and the receiver's work is rolled back.
Lose(e) ==
  /\ pc[e] = "running" /\ ~Owned(e)
  /\ Rest(e)
  /\ UNCHANGED <<events, row, batch, stamp, messages, commits>>

\* Mutant: what a callback raises is read as the receiver's failure.
RunCallbacksJudged(e) ==
  /\ pc[e] = "callbacks"
  /\ row' = [r \in Rows |-> IF r = att[e].row /\ Owned(e)
                              THEN [row[r] EXCEPT !.status = "failed"] ELSE row[r]]
  /\ Rest(e)
  /\ UNCHANGED <<events, batch, stamp, messages, commits>>

\* The receiver's on-commit callbacks.  One that raises is logged, and the
\* recorded success stands.
RunCallbacks(e) ==
  /\ pc[e] = "callbacks"
  /\ Rest(e)
  /\ UNCHANGED <<events, row, batch, stamp, messages, commits>>

-----------------------------------------------------------------------------
(* What goes wrong.                                                        *)

\* An exception outside the receiver's verdict; the relay logs it and goes on
\* with its batch (_deliver_or_survive).
Survive(w) ==
  /\ pc[w] \in {"extending", "running"}
  /\ Rest(w)
  /\ UNCHANGED <<events, row, batch, stamp, messages, commits>>

\* A process dies, or a signal interrupts it.  Its uncommitted work is rolled
\* back; its rows stay claimed until their lease lapses.
Crash(e) ==
  /\ pc[e] # "idle" \/ (e \in Workers /\ batch[e] # {})
  /\ Rest(e)
  /\ batch' = [w \in Workers |-> IF w = e THEN {} ELSE batch[w]]
  /\ UNCHANGED <<events, row, stamp, messages, commits>>

\* The queue loses a message.
Drop(m) ==
  /\ messages' = messages \ {m}
  /\ UNCHANGED <<events, row, batch, stamp, pc, att, commits>>

-----------------------------------------------------------------------------
(* Time.                                                                   *)

LeaseLapses(r) ==
  /\ row[r].status = "claimed" /\ row[r].lease = "held"
  /\ row' = [row EXCEPT ![r].lease = "lapsed"]
  /\ UNCHANGED <<events, batch, stamp, pc, att, messages, commits>>

WaitElapses(r) ==
  /\ row[r].status \in Retryable \cup {"claimed"} /\ row[r].wait # "none"
  /\ row' = [row EXCEPT ![r].wait = "none"]
  /\ UNCHANGED <<events, batch, stamp, pc, att, messages, commits>>

GiveUpReached(r) ==
  /\ row[r].status \in Retryable \cup {"claimed"}
  /\ r \notin UnboundedRows /\ ~row[r].late /\ row[r].wait # "schedule"
  /\ row' = [row EXCEPT ![r].late = TRUE]
  /\ UNCHANGED <<events, batch, stamp, pc, att, messages, commits>>

-----------------------------------------------------------------------------
(* The operator.                                                           *)

Withdrawable(r) == row[r].status \in Retryable

\* cancel_deliveries over some rows of an event.
Cancel(v, S) ==
  /\ v \in events
  /\ row' = [r \in Rows |->
               IF r \in S /\ Withdrawable(r)
                 THEN [row[r] EXCEPT !.status = "cancelled"] ELSE row[r]]
  /\ UNCHANGED <<events, batch, stamp, pc, att, messages, commits>>

\* requeue_dead over some rows.
Requeue(S) ==
  LET dead == {r \in S : row[r].status = "dead"}
  IN  /\ row' = [r \in Rows |-> IF r \in dead THEN Opened("none") ELSE row[r]]
      /\ commits' = [r \in Rows |-> IF r \in dead THEN 0 ELSE commits[r]]
      /\ UNCHANGED <<events, batch, stamp, pc, att, messages>>

\* Mutant: the rows read as settled are opened, whatever has become of them.
ReplayStale(v, S) ==
  /\ v \in events
  /\ \E wait \in [Rows -> {"none", "schedule"}] :
       row' = [r \in Rows |-> IF r \in S THEN Opened(wait[r]) ELSE row[r]]
  /\ commits' = [r \in Rows |-> IF r \in S THEN 0 ELSE commits[r]]
  /\ UNCHANGED <<events, batch, stamp, pc, att, messages>>

\* replay_events of one event, whose receivers' targets are now the rows S:
\* settled rows are opened again, missing ones added, the rest left alone.  It
\* reads the statuses before it writes, so that S may be rows that were settled
\* and are in somebody's hands; the write asks for the status again.
Replay(v, S) ==
  LET opened == {r \in S : row[r].status \in Terminal \cup {"absent"}}
  IN  /\ v \in events
      /\ \E wait \in [Rows -> {"none", "schedule"}] :
           row' = [r \in Rows |-> IF r \in opened THEN Opened(wait[r]) ELSE row[r]]
      /\ commits' = [r \in Rows |-> IF r \in opened THEN 0 ELSE commits[r]]
      /\ UNCHANGED <<events, batch, stamp, pc, att, messages>>

-----------------------------------------------------------------------------

Work ==
  \/ \E w \in Workers : Claim(w) \/ HandBack(w) \/ Survive(w)
  \/ \E w \in Workers, r \in Rows : Start(w, r)
  \/ \E t \in Tasks, m \in messages : Take(t, m)
  \/ \E t \in Tasks : StartTaken(t)
  \/ \E e \in Executors, v \in Verdicts : Finish(e, v)
  \/ \E e \in Executors : Extend(e) \/ Lose(e) \/ RunCallbacks(e) \/ Crash(e)
  \/ \E m \in messages : TurnAway(m) \/ Drop(m)

Time == \E r \in Rows : LeaseLapses(r) \/ WaitElapses(r) \/ GiveUpReached(r)

Operate ==
  \/ \E v \in Events : Fire(v)
  \/ \E v \in Events : \E S \in SUBSET RowsOf(v) : Cancel(v, S) \/ Replay(v, S)
  \/ \E S \in SUBSET Rows : Requeue(S)

Next == Work \/ Time \/ Operate

Spec == Init /\ [][Next]_vars

-----------------------------------------------------------------------------
(* Safety.                                                                 *)

\* A receiver's database work is committed exactly as often as the row says
\* it succeeded: once for a succeeded row, never for any other, however many
\* workers ran the receiver (the "effectively once" of deliver_one).
CommittedOnce ==
  \A r \in Rows : commits[r] = IF row[r].status = "succeeded" THEN 1 ELSE 0

\* Somebody works on row r under the token the row carries now.
Holds(e, r) ==
  pc[e] \in {"extending", "running"} /\ att[e].row = r /\ Owned(e)

\* A worker's unstarted row, or a queued message, under that token.
Waits(w, r) == r \in batch[w] /\ row[r].by = w /\ row[r].at = stamp[w]
Queued(r) == \E m \in messages : m.row = r /\ m.by = row[r].by /\ m.at = row[r].at

\* The fencing token of a row is in one pair of hands: an attempt, a batch or
\* the queue, and then the row is claimed.  This is what lets every write be
\* conditioned on the token alone, without the status.
OneHolder ==
  \A r \in Rows :
    /\ \A e \in Executors : Holds(e, r) =>
         /\ row[r].status = "claimed" /\ ~Queued(r)
         /\ \A f \in Executors \ {e} : ~Holds(f, r)
         /\ \A w \in Workers : ~Waits(w, r)
    /\ \A w \in Workers : Waits(w, r) => row[r].status = "claimed" /\ ~Queued(r)
    /\ Queued(r) => row[r].status = "claimed"

\* An owed row always has an attempt left, and no row is charged for more than
\* its budget: neither a lost row, a deferral nor a stale count overdraws it.
BudgetKept ==
  \A r \in Rows :
    /\ row[r].attempts <= MaxAttempts
    /\ row[r].status \in Retryable \cup {"claimed"} => row[r].attempts < MaxAttempts

\* A settled row leaves its verdict only by being opened again, whatever a
\* worker that held it before still writes.
VerdictStands ==
  [][\A r \in Rows :
       row[r].status \in Terminal /\ row'[r] # row[r] =>
         \E wait \in {"none", "schedule"} : row'[r] = Opened(wait)]_row

\* An attempt is counted by the outcome of an attempt, one at a time, and by
\* nothing else: not by a claim, a deferral, a reschedule or a lost row.
AttemptsCountOutcomes ==
  [][\A r \in Rows :
       row'[r].attempts # row[r].attempts =>
         \/ /\ row[r].status = "claimed"
            /\ row'[r].status \in {"succeeded", "failed", "dead"}
            /\ row'[r].attempts = row[r].attempts + 1
         \/ row'[r].status = "pending" /\ row'[r].attempts = 0]_row

\* A row under a live lease changes hands only by its own hand-off: it is not
\* claimed away or opened under its holder by an operator who read it settled,
\* and a copy of a message that is not the current one does not take it.
LiveClaimsAreKept ==
  [][\A r \in Rows :
       row[r].status = "claimed" /\ row[r].lease = "held" /\ row'[r].by # row[r].by =>
         Queued(r) /\ row'[r].by \in Tasks]_row

\* No receiver starts on a row that has been settled, although the extension
\* that precedes the start does not look at the status.
StartsOnlyOwed ==
  [][\A e \in Executors :
       pc[e] # "running" /\ pc'[e] = "running" =>
         row[att'[e].row].status \in Retryable \cup {"claimed"}]_<<pc, att>>

\* Giving a batch back ends no lease but those of its own unstarted rows: not
\* one of a row running, handed to the queue, or claimed since by another.
HandBackTakesNothing ==
  [][\A w \in Workers, r \in Rows :
       batch'[w] # batch[w] /\ row[r].lease = "held" /\ row'[r].lease = "lapsed" =>
         /\ row[r].by = w /\ row[r].status = "claimed" /\ ~Queued(r)
         /\ \A e \in Executors : ~Holds(e, r)]_<<row, batch>>

-----------------------------------------------------------------------------
(* The inductive invariant the theorems of Delivery_proofs rest on.        *)

Busy(e) == pc[e] \in {"extending", "running"}

\* What each phase remembers; an attempt is its own owner.
Phased ==
  \A e \in Executors :
    /\ pc[e] \in {"extending", "running", "callbacks"} => att[e].by = e
    /\ pc[e] = "taken" => e \in Tasks
    /\ pc[e] = "handing_back" => e \in Workers
    /\ e \in Workers /\ Busy(e) => att[e].row \notin batch[e]

\* A message carries a worker's claim.
Carried == \A m \in messages : m.by \in Workers

\* A row named after its holder is claimed, and its token is in one place.
Placed(r) ==
  /\ \A e \in Executors : Holds(e, r) =>
       /\ row[r].status = "claimed" /\ ~Queued(r)
       /\ att[e].attempts = row[r].attempts
  /\ \A t \in Tasks : pc[t] = "taken" /\ att[t].row = r /\ row[r].by = t =>
       row[r].status = "claimed"
  /\ \A w \in Workers : r \in batch[w] /\ row[r].by = w =>
       row[r].status = "claimed" /\ row[r].at = stamp[w] /\ ~Queued(r)
  /\ Queued(r) => row[r].status = "claimed"

TokenHeld == \A r \in Rows : Placed(r)

\* An event that has not been fired has no rows.
RowsOfEvents == \A r \in Rows : EventOf[r] \notin events => row[r].status = "absent"

\* Where every writer holds a claim: who is where in an attempt, which token it
\* holds, and what the row owes agree in every state.
IInv == /\ TypeOK /\ Phased /\ Carried /\ TokenHeld /\ RowsOfEvents
        /\ CommittedOnce /\ BudgetKept

-----------------------------------------------------------------------------
(* Liveness.                                                               *)

\* Time passes; a process does the next step it has; and whoever is again and
\* again in a position to claim a row, or to take, start, extend or record one
\* while it still holds it, some time does so before it crashes or is overtaken.
Fairness ==
  /\ \A r \in Rows :
       /\ WF_vars(LeaseLapses(r)) /\ WF_vars(WaitElapses(r)) /\ WF_vars(GiveUpReached(r))
       /\ SF_vars(\E w \in Workers : Claim(w) /\ r \in batch'[w])
       /\ SF_vars(\E t \in Tasks, m \in messages : m.row = r /\ Take(t, m))
       /\ \A w \in Workers : SF_vars(Start(w, r) /\ Waits(w, r))
       /\ \A e \in Executors :
            /\ SF_vars(Holds(e, r) /\ Extend(e))
            /\ SF_vars(Holds(e, r) /\ \E v \in Verdicts : Finish(e, v))
  /\ \A e \in Executors : WF_vars(Extend(e) \/ Lose(e) \/ RunCallbacks(e))
  /\ \A t \in Tasks :
       /\ SF_vars(StartTaken(t) /\ row[att[t].row].by = t)
       /\ WF_vars(StartTaken(t))
  /\ \A w \in Workers :
       WF_vars((\E r \in Rows : Start(w, r)) \/ (pc[w] = "handing_back" /\ HandBack(w)))
  /\ WF_vars(\E m \in messages : TurnAway(m))

FairSpec == Spec /\ Fairness

\* Work that is owed is settled, though workers crash, leases lapse, messages
\* are lost and receivers fail and defer.
OwedIsSettled ==
  \A r \in Rows :
    row[r].status \in Retryable \cup {"claimed"} ~> row[r].status \in Terminal

-----------------------------------------------------------------------------
(* What all of it implements.                                              *)

Owes(r) ==
  IF row[r].status \in Retryable \cup {"claimed"} THEN "owed" ELSE row[r].status

Outbox == INSTANCE Obligation WITH
  state <- [r \in Rows |-> Owes(r)], effects <- commits

\* The whole protocol is an obligation discharged at most once per opening.
ImplementsObligation == Outbox!Spec
=============================================================================
