--------------------------- MODULE DeliverPending ----------------------------
(***************************************************************************)
(* One call of deliver_pending, as drain_outbox and deliver_events --once  *)
(* make it: it rotates over the lanes, a claim each, sharing its limit     *)
(* between those still open, until a rotation claims nothing.              *)
(*                                                                         *)
(* A call may be told a moment, `now`, to make its claims at instead of    *)
(* the clock.  Times are then of three kinds: 0 has come on the clock, 1   *)
(* lies between the clock and the moment told, 2 beyond it.  No time       *)
(* passes on the clock during the call, and nobody else claims; other      *)
(* claimers are Delivery's and Relay's.                                    *)
(***************************************************************************)
EXTENDS Naturals, FiniteSets, FiniteSetsExt, Functions

CONSTANTS
  Lanes,       \* lanes, in the order of their names
  Rows,        \* delivery rows
  LaneOf,      \* the lane of each row's receiver
  TaskRows,    \* rows whose receiver is declared with site="task"
  Deferring,   \* rows whose receiver may defer without counting
  Calls,       \* the ways the call may be made
  SizeOf,      \* batch_size and lane_batch_sizes
  MaxAttempts, \* max_attempts of every row
  NoLimit      \* limit=None

ASSUME ConstantsAssumption ==
  /\ Lanes \subseteq Nat /\ IsFiniteSet(Lanes) /\ Lanes # {}
  /\ IsFiniteSet(Rows) /\ LaneOf \in [Rows -> Lanes] /\ TaskRows \subseteq Rows
  /\ Deferring \subseteq Rows
  /\ NoLimit \notin Nat
  /\ Calls \subseteq [limit: Nat \cup {NoLimit}, told: BOOLEAN, ignore_backoff: BOOLEAN]
  /\ SizeOf \in [Lanes -> Nat \ {0}] /\ MaxAttempts \in Nat \ {0}

VARIABLES
  row,       \* the DeliveryRecord table
  call,      \* how the call was made
  at,        \* where the call is
  lane,      \* this_lane
  todo,      \* the lanes left in this rotation
  claimed,   \* whether the rotation has claimed anything
  size,      \* how many rows the claim asked for
  took,      \* how many it got; both 0 between turns
  batch,     \* unstarted
  remaining, \* what is left of the limit
  closed,    \* closed
  set_aside, \* set_aside
  started,   \* how often the call started each row
  put_off,   \* how often its receiver deferred or answered NotYet in the call
  fired      \* the rows fired during the call

vars == <<row, call, at, lane, todo, claimed, size, took, batch, remaining,
          closed, set_aside, started, put_off, fired>>

Row == [status: {"absent", "pending", "failed", "claimed", "settled"},
        attempts: 0..MaxAttempts, available: 0..2, due: 0..2, lease: 0..2]

Absent == [status |-> "absent", attempts |-> 0, available |-> 0, due |-> 0, lease |-> 0]
Owed(status, due, available) ==
  [Absent EXCEPT !.status = status, !.due = due, !.available = available]

TypeOK ==
  /\ row \in [Rows -> Row] /\ call \in Calls
  /\ at \in {"turn", "starting", "done"}
  /\ lane \in Lanes /\ todo \subseteq Lanes /\ claimed \in BOOLEAN
  /\ size \in Nat /\ took \in Nat /\ batch \subseteq Rows
  /\ \A r \in batch : LaneOf[r] = lane /\ row[r].status = "claimed"
  /\ remaining \in Nat \cup {NoLimit}
  /\ closed \subseteq Lanes /\ set_aside \subseteq Rows
  /\ started \in [Rows -> Nat] /\ put_off \in [Rows -> Nat] /\ fired \subseteq Rows

\* Nothing owed, owed, scheduled, or held by a worker that died.
Init ==
  /\ row \in [Rows -> {Absent, Owed("pending", 0, 0), Owed("pending", 1, 1),
                       Owed("claimed", 0, 0)}]
  /\ call \in Calls
  /\ at = "turn" /\ lane = Min(Lanes) /\ todo = Lanes /\ claimed = FALSE
  /\ size = 0 /\ took = 0 /\ batch = {} /\ remaining = call.limit
  /\ closed = {} /\ set_aside = {}
  /\ started = [r \in Rows |-> 0] /\ put_off = [r \in Rows |-> 0] /\ fired = {}

\* The kind of time the claims are made at.
Moment == IF call.told THEN 1 ELSE 0

-----------------------------------------------------------------------------
(* Rotating and claiming.                                                  *)

\* Due for this claim: the backoff is read unless it is ignored, the schedule
\* always.
Due(r) ==
  IF call.ignore_backoff THEN row[r].due <= Moment ELSE row[r].available <= Moment

Open(r) ==
  /\ r \notin set_aside
  /\ \/ row[r].status \in {"pending", "failed"} /\ Due(r)
     \/ row[r].status = "claimed" /\ row[r].lease <= Moment

\* Mutant: a claim for the default lane takes every lane's rows.
ClaimableAnywhere(l) == {r \in Rows : (LaneOf[r] = l \/ l = Min(Lanes)) /\ Open(r)}

Claimable(l) == {r \in Rows : LaneOf[r] = l /\ Open(r)}

\* Mutant: the first lane may take everything.
ShareWhole(n, m) == n

\* n divided by m, rounded up.
Share(n, m) == (n + m - 1) \div m

\* What the next claim asks for: the lane's size, or its share of what is left
\* of the limit among the lanes left in the rotation.
Asked(l) == IF remaining = NoLimit THEN SizeOf[l] ELSE Share(remaining, Cardinality(todo))

\* The limit is spent.
Spent ==
  /\ at = "turn" /\ todo # {} /\ remaining = 0
  /\ at' = "done"
  /\ UNCHANGED <<row, call, lane, todo, claimed, size, took, batch, remaining,
                 closed, set_aside, started, put_off, fired>>

\* Mutant: the last lane of a rotation speaks for all of it.
LastClaimed(S) == S # {}

\* Whether the rotation has claimed anything, S included.
AnyClaimed(S) == claimed \/ S # {}

\* A claim under a lease that lasts beyond its own moment.
Held(r) == [row[r] EXCEPT !.status = "claimed", !.lease = 2]

Claim ==
  /\ at = "turn" /\ todo # {} /\ remaining # 0
  /\ LET l == Min(todo)
         free == Claimable(l)
     IN  /\ lane' = l /\ todo' = todo \ {l}
         /\ size' = Asked(l)
         /\ \E S \in SUBSET free :
              /\ Cardinality(S) = Min({Asked(l), Cardinality(free)})
              /\ row' = [r \in Rows |-> IF r \in S THEN Held(r) ELSE row[r]]
              /\ batch' = S /\ took' = Cardinality(S)
              /\ claimed' = AnyClaimed(S)
  /\ at' = "starting"
  /\ UNCHANGED <<call, remaining, closed, set_aside, started, put_off, fired>>

\* Mutant: a rotation is taken to have claimed something because one has.
RotateOn ==
  /\ at = "turn" /\ todo = {}
  /\ IF claimed THEN todo' = Lanes \ closed /\ UNCHANGED at
     ELSE at' = "done" /\ UNCHANGED todo
  /\ UNCHANGED <<row, call, claimed, lane, size, took, batch, remaining, closed,
                 set_aside, started, put_off, fired>>

\* The rotation ends: the next one, over the lanes still open, or the answer.
Rotate ==
  /\ at = "turn" /\ todo = {}
  /\ IF claimed THEN at' = "turn" /\ todo' = Lanes \ closed /\ claimed' = FALSE
     ELSE at' = "done" /\ UNCHANGED <<todo, claimed>>
  /\ UNCHANGED <<row, call, lane, size, took, batch, remaining, closed, set_aside,
                 started, put_off, fired>>

-----------------------------------------------------------------------------
(* Running the rows of a batch.                                            *)

\* Mutant: what is handed back spends the limit as well.
AttemptedAll(left) == took

\* How many rows of the batch were attempted, `left` being handed back.
Attempted(left) == took - Cardinality(left)

\* The batch is over: what was attempted comes off the limit, and a lane that
\* had less than its share is drained.
EndBatch(left, shut) ==
  /\ at' = "turn" /\ batch' = {} /\ size' = 0 /\ took' = 0
  /\ IF remaining = NoLimit THEN closed' = shut /\ UNCHANGED remaining
     ELSE /\ remaining' = remaining - Attempted(left)
          /\ closed' = IF took < size THEN shut \cup {lane} ELSE shut

BatchRun ==
  /\ at = "starting" /\ batch = {}
  /\ EndBatch({}, closed)
  /\ UNCHANGED <<row, call, lane, todo, claimed, set_aside, started, put_off, fired>>

\* Row r of the batch is given to dispatch_one, which leaves it as `new`.
Starts(r, new) ==
  /\ at = "starting" /\ r \in batch
  /\ row' = [row EXCEPT ![r] = new]
  /\ started' = [started EXCEPT ![r] = @ + 1]
  /\ UNCHANGED <<call, lane, todo, claimed, fired>>

GoesOn(r) ==
  /\ batch' = batch \ {r}
  /\ UNCHANGED <<at, size, took, remaining, closed>>

\* A success, or a failure with its backoff, which a moment told may be beyond.
Judged(r) ==
  LET counted == [row[r] EXCEPT !.attempts = @ + 1]
  IN  {[counted EXCEPT !.status = "settled"]} \cup
      IF counted.attempts = MaxAttempts THEN {}
      ELSE {[counted EXCEPT !.status = "failed", !.available = t] : t \in {1, 2}}

\* A time the receiver names, ahead of the clock, for a run when it is due.
Rescheduled(r) ==
  {[row[r] EXCEPT !.status = "pending", !.available = t, !.due = t] : t \in {1, 2}}

\* A deferral that does not count; past give_up_after the row is settled, as Judged has it.
Deferred(r) == {[row[r] EXCEPT !.status = "failed", !.available = t] : t \in {1, 2}}

Judge(r) ==
  /\ r \notin TaskRows
  /\ \E new \in Judged(r) : Starts(r, new)
  /\ GoesOn(r)
  /\ UNCHANGED <<set_aside, put_off>>

\* Rows kept out of the claims of a call that was told a moment.
Aside(r) == IF call.told THEN set_aside \cup {r} ELSE set_aside

\* The receiver answers NotYet.
NotYet(r) ==
  /\ r \notin TaskRows
  /\ \E new \in Rescheduled(r) : Starts(r, new)
  /\ set_aside' = Aside(r)
  /\ put_off' = [put_off EXCEPT ![r] = @ + 1]
  /\ GoesOn(r)

\* A deferral sets the lane aside, and the rest of the batch is handed back.
Defer(r) ==
  /\ r \in Deferring \ TaskRows
  /\ \E new \in Deferred(r) :
       /\ at = "starting" /\ r \in batch
       /\ row' = [q \in Rows |-> IF q = r THEN new
                                  ELSE IF q \in batch THEN [row[q] EXCEPT !.lease = 0]
                                  ELSE row[q]]
  /\ started' = [started EXCEPT ![r] = @ + 1]
  /\ put_off' = [put_off EXCEPT ![r] = @ + 1]
  /\ EndBatch(batch \ {r}, closed \cup {LaneOf[r]})
  /\ UNCHANGED <<call, lane, todo, claimed, set_aside, fired>>

\* Mutant: only what the hand-off left in the queue is unfinished.
LeftQueued(new) == new.status = "claimed"

\* _left_unfinished, of a row that came back without an outcome.
LeftUnfinished(new) == new.status \in {"claimed", "pending"}

\* A row handed to a task backend comes back without an outcome: it is in the
\* queue under a lease extended on the clock, or the backend has run it before
\* answering, and a deferral is then recorded as any other and told to nobody.
HandOff(r) ==
  /\ r \in TaskRows
  /\ \E new \in {[row[r] EXCEPT !.lease = t] : t \in {1, 2}} \cup Judged(r) \cup Rescheduled(r)
                 \cup (IF r \in Deferring THEN Deferred(r) ELSE {}) :
       /\ Starts(r, new)
       /\ set_aside' = IF LeftUnfinished(new) THEN Aside(r) ELSE set_aside
       /\ put_off' = [put_off EXCEPT
            ![r] = IF new.status # "settled" /\ new.attempts = row[r].attempts THEN @ + 1 ELSE @]
  /\ GoesOn(r)

-----------------------------------------------------------------------------
(* Meanwhile.                                                              *)

\* fire, by a receiver or anybody else.
Fire(r) ==
  /\ at # "done" /\ row[r].status = "absent" /\ fired' = fired \cup {r}
  /\ \E t \in 0..2 : row' = [row EXCEPT ![r] = Owed("pending", t, t)]
  /\ UNCHANGED <<call, at, lane, todo, claimed, size, took, batch, remaining,
                 closed, set_aside, started, put_off>>

Step ==
  \/ Spent \/ Claim \/ Rotate \/ BatchRun
  \/ \E r \in Rows : Judge(r) \/ NotYet(r) \/ Defer(r) \/ HandOff(r)

Next == Step \/ \E r \in Rows : Fire(r)

Spec == Init /\ [][Next]_vars

-----------------------------------------------------------------------------
(* Safety.                                                                 *)

\* How many rows of S the call started, each as often as it did.
StartsOf(S) == SumFunctionOnSet(started, S)

\* The limit caps what is attempted, and is spent by nothing else: what a
\* deferral hands back is not.
LimitSpentByAttempts ==
  call.limit # NoLimit =>
    /\ StartsOf(Rows) <= call.limit
    /\ at = "turn" => remaining = call.limit - StartsOf(Rows)

RowsOf(l) == {r \in Rows : LaneOf[r] = l}

\* "A lane with work gets at least limit // n of a call serving n lanes": one
\* that was neither drained nor set aside has had its share, in whatever order
\* the others were drained.
LanesGetTheirShare ==
  at = "done" /\ call.limit # NoLimit =>
    \A l \in Lanes \ closed :
      StartsOf(RowsOf(l)) >= call.limit \div Cardinality(Lanes)

\* A call that ends with limit to spend leaves nothing in the lanes it has not
\* closed but rows fired after it had passed: what failed is run to its dead
\* letter when the backoff is ignored, and no rotation ends it early.
NothingIsLeft ==
  at = "done" /\ remaining # 0 =>
    \A l \in Lanes \ closed : \A r \in Claimable(l) : r \in fired /\ started[r] = 0

\* A receiver that put a row off is not asked again by the same call: not one
\* that deferred, and not one that answered NotYet, whenever the claims are
\* told they are made.
PutOffOnce == \A r \in Rows : put_off[r] <= 1

-----------------------------------------------------------------------------
(* The inductive invariant.                                                *)

Limited == call.limit # NoLimit

RowKept(r) ==
  /\ row[r].status \in {"pending", "failed", "claimed"} => row[r].attempts < MaxAttempts
  /\ row[r].status = "absent" => started[r] = 0 /\ put_off[r] = 0

\* A turn is over when its batch is; a lane has no more turns once it is closed.
TurnKept ==
  /\ at # "starting" => batch = {} /\ size = 0 /\ took = 0
  /\ at = "starting" => lane \notin todo \cup closed
  /\ batch # {} => claimed
  /\ todo \cap closed = {}
  /\ at = "done" => remaining = 0 \/ (todo = {} /\ ~claimed)

\* What the batch still holds is taken and not yet started.
LimitKept ==
  IF Limited
  THEN /\ remaining \in Nat /\ took <= size /\ size <= remaining
       /\ remaining + StartsOf(Rows) + Cardinality(batch) = call.limit + took
  ELSE remaining = NoLimit

Least == call.limit \div Cardinality(Lanes)

\* A lane short of its share gets it from this batch, or has its turn to come
\* with as much left for each lane before it and after it.
ShareKept(l) ==
  \/ StartsOf(RowsOf(l)) >= Least
  \/ at = "starting" /\ l = lane
       /\ (took < size \/ StartsOf(RowsOf(l)) + Cardinality(batch) >= Least)
  \/ l \in todo /\ remaining >= took + Cardinality(todo) * Least

SharesKept == Limited => \A l \in Lanes \ closed : ShareKept(l)

\* A lane whose turn claimed nothing has nothing, while the rotation goes on so.
NothingFound ==
  ~claimed => \A l \in Lanes \ (closed \cup todo) : \A r \in Claimable(l) :
                r \in fired /\ started[r] = 0

\* No claim of the call takes a row that was put off.
NotAgain(r) ==
  /\ put_off[r] <= 1
  /\ put_off[r] = 1 => r \notin batch /\ (LaneOf[r] \in closed \/ ~Open(r))

PutOffKept == \A r \in Rows \ (Deferring \cap TaskRows) : NotAgain(r)

IInv ==
  /\ TypeOK /\ \A r \in Rows : RowKept(r)
  /\ TurnKept /\ LimitKept /\ SharesKept /\ NothingFound /\ PutOffKept

-----------------------------------------------------------------------------
(* Liveness.                                                               *)

FairSpec == Spec /\ WF_vars(Step)

\* The call ends, whatever the receivers answer and with the backoff ignored:
\* a deferral, a NotYet and a hand-off are not tried again for ever.
CallEnds == <>(at = "done")
=============================================================================
