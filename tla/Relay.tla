-------------------------------- MODULE Relay --------------------------------
(***************************************************************************)
(* run_relay: the loop that serves lanes in turn, claims a batch of one    *)
(* lane, runs it row by row, pauses the lane of a receiver that defers,    *)
(* and stops between two rows.  Several relays share the rows and the      *)
(* table LanePauseRecord; what each has paused is its own.                 *)
(*                                                                         *)
(* Delivery has what happens to one row, so that here an attempt is one    *)
(* step, and a row is "free" (a claim may take it), "waiting" for its      *)
(* backoff, "settled", or claimed under a live lease:                      *)
(*   "held"    in the hands of whoever claimed it;                         *)
(*   "queued"  under the relay's token, in a message of a task queue;      *)
(*   "left"    in nobody's hands: a claim lost its answer, an attempt or a *)
(*             hand-back failed, or the relay died.                        *)
(* A queued row whose lease lapses is "overdue": a claim may take it, and  *)
(* until one has, its message still may.  Any other that lapses is free,   *)
(* and one in somebody's hands still names who held it.  Whose name a row  *)
(* bears that is in nobody's hands is not kept: only a relay that has it   *)
(* in its batch, or the task that took it, writes to it under that name.   *)
(*                                                                         *)
(* Of a pause is kept what is left of it, which Tick lessens everywhere at *)
(* once: until > now is "something is left".                               *)
(***************************************************************************)
EXTENDS Naturals, FiniteSets, FiniteSetsExt, Functions

CONSTANTS
  Relays,     \* relay processes, each under its own worker_id
  Daemons,    \* the relays that run without a number of passes
  Lanes,      \* lanes, in the order of their names
  Served,     \* the lanes each relay serves
  SizeOf,     \* how many rows a claim of each lane takes
  Rows,       \* delivery rows
  LaneOf,     \* the lane of each row's receiver
  Deferring,  \* rows whose receiver may defer without counting
  TaskRows,   \* rows whose receiver runs in a task queue (site = "task")
  MaxPause,   \* the longest delay a deferral may ask for
  Tasks,      \* the workers of the task queue, as one claimant
  Nobody      \* claimed_by = ""

ASSUME ConstantsAssumption ==
  /\ Daemons \subseteq Relays /\ Nobody \notin Relays /\ Tasks \notin Relays
  /\ Lanes \subseteq Nat /\ IsFiniteSet(Lanes)
  /\ Served \in [Relays -> (SUBSET Lanes) \ {{}}]
  /\ SizeOf \in [Lanes -> Nat \ {0}]
  /\ IsFiniteSet(Rows) /\ LaneOf \in [Rows -> Lanes]
  /\ Deferring \subseteq Rows /\ TaskRows \subseteq Rows
  /\ MaxPause \in Nat \ {0}

VARIABLES
  row,       \* the DeliveryRecord table
  record,    \* the LanePauseRecord table: what is left of each relay's pauses
  at,        \* where each relay is in its loop
  lane,      \* this_lane
  todo,      \* the lanes whose turn in the pass is still to come
  claimed,   \* whether the pass has claimed anything
  batch,     \* unstarted
  paused,    \* paused: what is left of the pause of each lane in it
  stopping,  \* what stop() answers
  waited,    \* rows of other lanes started since each lane's last turn
  refused    \* lanes whose record the relay failed to write or to delete, or died with

vars == <<row, record, at, lane, todo, claimed, batch, paused, stopping, waited, refused>>

Pauses == UNION {[S -> 0..MaxPause] : S \in SUBSET Lanes}

NoPauses == [l \in {} |-> 0]

DeliveryRecord ==
  [status: {"free", "held", "queued", "overdue", "left", "waiting", "settled"},
   by: Relays \cup {Nobody, Tasks}]

TypeOK ==
  /\ row \in [Rows -> DeliveryRecord]
  /\ record \in [Relays -> Pauses] /\ paused \in [Relays -> Pauses]
  /\ at \in [Relays -> {"turn", "unpausing", "claiming", "starting", "recording", "clearing",
                        "setting_aside", "handing_back", "idle", "returning", "returned"}]
  /\ lane \in [Relays -> Lanes] /\ todo \in [Relays -> SUBSET Lanes]
  /\ claimed \in [Relays -> BOOLEAN] /\ batch \in [Relays -> SUBSET Rows]
  /\ \A w \in Relays : \A r \in batch[w] : LaneOf[r] = lane[w]
  /\ stopping \in [Relays -> BOOLEAN]
  /\ refused \in [Relays -> SUBSET Lanes]
  /\ waited \in [Relays -> [Lanes -> Nat]]

Init ==
  /\ row = [r \in Rows |-> [status |-> "settled", by |-> Nobody]]
  /\ record = [w \in Relays |-> NoPauses]
  /\ at = [w \in Relays |-> "returned"]
  /\ lane = [w \in Relays |-> Min(Served[w])]
  /\ todo = [w \in Relays |-> {}]
  /\ claimed = [w \in Relays |-> FALSE]
  /\ batch = [w \in Relays |-> {}]
  /\ paused = [w \in Relays |-> NoPauses]
  /\ stopping = [w \in Relays |-> FALSE]
  /\ waited = [w \in Relays |-> [l \in Lanes |-> 0]]
  /\ refused = [w \in Relays |-> {}]

Goes(w, phase) == at' = [at EXCEPT ![w] = phase]

\* The records of some lanes are written or deleted, or the database refuses.
Writes(w, S, new) == record' = [record EXCEPT ![w] = new] /\ refused' = [refused EXCEPT ![w] = @ \ S]
Refuses(w, S) == refused' = [refused EXCEPT ![w] = @ \cup S] /\ UNCHANGED record

\* A dictionary of pauses without some lanes, and with one more.
Without(p, S) == Restrict(p, DOMAIN p \ S)
With(p, l, s) == [x \in DOMAIN p \cup {l} |-> IF x = l THEN s ELSE p[x]]

-----------------------------------------------------------------------------
(* Passes and turns.                                                       *)

NewPass(w) ==
  /\ Goes(w, "turn")
  /\ todo' = [todo EXCEPT ![w] = Served[w]]
  /\ claimed' = [claimed EXCEPT ![w] = FALSE]

\* The process starts, for the first time or again under the same worker_id.
Launch(w) ==
  /\ at[w] = "returned"
  /\ NewPass(w)
  /\ stopping' = [stopping EXCEPT ![w] = FALSE]
  /\ waited' = [waited EXCEPT ![w] = [l \in Lanes |-> 0]]
  /\ UNCHANGED <<row, record, lane, batch, paused, refused>>

\* The passes asked for are spent: the last one claimed something, or its wait
\* is over.
PassesSpent(w) ==
  /\ (at[w] = "turn" /\ todo[w] = {} /\ claimed[w]) \/ at[w] = "idle"
  /\ w \notin Daemons
  /\ Goes(w, "returning")
  /\ UNCHANGED <<row, record, lane, todo, claimed, batch, paused, stopping, waited, refused>>

\* A pass that claimed nothing is idle; one that did is followed by the next.
EndPass(w) ==
  /\ at[w] = "turn" /\ todo[w] = {}
  /\ IF claimed[w] THEN NewPass(w) ELSE Goes(w, "idle") /\ UNCHANGED <<todo, claimed>>
  /\ UNCHANGED <<row, record, lane, batch, paused, stopping, waited, refused>>

\* The sweep, if its interval has passed, and the wait; whether either fails
\* changes nothing here.
Idle(w) ==
  /\ at[w] = "idle"
  /\ NewPass(w)
  /\ UNCHANGED <<row, record, lane, batch, paused, stopping, waited, refused>>

\* Mutants: the end of a pause is not looked at; a pause is over at once.
AheadForEver(w, l) == l \in DOMAIN paused[w]
AheadNever(w, l) == l \in DOMAIN paused[w] /\ paused[w][l] > MaxPause

\* until > claimed_at.
Ahead(w, l) == l \in DOMAIN paused[w] /\ paused[w][l] > 0

\* Mutant: stop() is read between two rows and not between two turns.
ToldBetweenRows(w) == batch[w] # {} /\ stopping[w]

\* stop().
Told(w) == stopping[w]

\* The next lane's turn: a paused lane is passed over, one whose pause has
\* ended is forgotten first.
Turn(w) ==
  /\ at[w] = "turn" /\ todo[w] # {}
  /\ LET l == Min(todo[w])
         over == l \in DOMAIN paused[w] /\ ~Ahead(w, l)
     IN  IF Told(w)
           THEN Goes(w, "returning") /\ UNCHANGED <<lane, todo, paused, waited>>
           ELSE /\ lane' = [lane EXCEPT ![w] = l]
                /\ todo' = [todo EXCEPT ![w] = @ \ {l}]
                /\ waited' = [waited EXCEPT ![w][l] = 0]
                /\ paused' = IF over THEN [paused EXCEPT ![w] = Without(@, {l})] ELSE paused
                /\ Goes(w, IF Ahead(w, l) THEN "turn" ELSE IF over THEN "unpausing" ELSE "claiming")
  /\ UNCHANGED <<row, record, claimed, batch, stopping, refused>>

\* Its record is deleted, or stays because the database refuses.
Unpause(w) ==
  /\ at[w] = "unpausing"
  /\ Goes(w, "claiming")
  /\ Writes(w, {lane[w]}, Without(record[w], {lane[w]})) \/ Refuses(w, {lane[w]})
  /\ UNCHANGED <<row, lane, todo, claimed, batch, paused, stopping, waited>>

-----------------------------------------------------------------------------
(* Claiming and running a batch.                                           *)

\* What a claim of the lane takes; which rows are the oldest is left open.
Batches(w) ==
  LET free == {r \in Rows : LaneOf[r] = lane[w] /\ row[r].status \in {"free", "overdue"}}
  IN  {S \in SUBSET free : Cardinality(S) = Min({SizeOf[lane[w]], Cardinality(free)})}

ClaimedFor(S, status, hands) ==
  row' = [r \in Rows |-> IF r \in S THEN [status |-> status, by |-> hands] ELSE row[r]]

Claim(w, S) ==
  /\ at[w] = "claiming" /\ S \in Batches(w)
  /\ ClaimedFor(S, "held", w)
  /\ batch' = [batch EXCEPT ![w] = S]
  /\ claimed' = [claimed EXCEPT ![w] = @ \/ S # {}]
  /\ Goes(w, "starting")
  /\ UNCHANGED <<record, lane, todo, paused, stopping, waited, refused>>

\* A claim that fails ends the pass after a backoff, and with the last pass the
\* relay.  It may have committed although its answer was lost.
ClaimFails(w) ==
  /\ at[w] = "claiming"
  /\ \E S \in Batches(w) \cup {{}} : ClaimedFor(S, "left", Nobody)
  /\ NewPass(w) \/ (w \notin Daemons /\ Goes(w, "returning") /\ UNCHANGED <<todo, claimed>>)
  /\ waited' = [waited EXCEPT ![w] = [l \in Lanes |-> 0]]
  /\ UNCHANGED <<record, lane, batch, paused, stopping, refused>>

\* Mutant: a lane is served until nothing of it may be claimed.
AfterBatchAgain(w) == IF Batches(w) = {{}} THEN "turn" ELSE "claiming"

AfterBatch(w) == "turn"

\* Mutant: a relay told to stop ends without giving its batch back.
LeaveKeeping(w) ==
  /\ at[w] = "starting"
  /\ \/ batch[w] = {} /\ Goes(w, AfterBatch(w))
     \/ batch[w] # {} /\ Told(w) /\ Goes(w, "returning")
  /\ UNCHANGED <<row, record, lane, todo, claimed, batch, paused, stopping, waited, refused>>

\* The batch is run, or stop() is true before its next row.
Leave(w) ==
  /\ at[w] = "starting"
  /\ \/ batch[w] = {} /\ Goes(w, AfterBatch(w))
     \/ batch[w] # {} /\ Told(w) /\ Goes(w, "handing_back")
  /\ UNCHANGED <<row, record, lane, todo, claimed, batch, paused, stopping, waited, refused>>

\* The next row of the batch is given to dispatch_one.
Starts(w, r) ==
  /\ at[w] = "starting" /\ r \in batch[w] /\ ~Told(w)
  /\ batch' = [batch EXCEPT ![w] = @ \ {r}]
  /\ waited' = [waited EXCEPT ![w] =
                  [l \in Lanes |-> IF l = lane[w] THEN @[l] ELSE @[l] + 1]]
  /\ UNCHANGED <<record, lane, todo, claimed, stopping>>

\* The row is started, is still this relay's, and goes from its hands.
Ends(w, r, status) ==
  /\ Starts(w, r) /\ row[r].by = w
  /\ row' = [row EXCEPT ![r] = [status |-> status, by |-> Nobody]]

\* The outcome is recorded: the row is settled or to be tried again.
Deliver(w, r) ==
  /\ r \notin TaskRows /\ \E status \in {"settled", "waiting"} : Ends(w, r, status)
  /\ UNCHANGED <<at, paused, refused>>

\* A deferral that does not count was recorded: the lane is paused.
Defer(w, r) ==
  /\ r \in Deferring \ TaskRows /\ Ends(w, r, "waiting")
  /\ \E s \in 1..MaxPause : paused' = [paused EXCEPT ![w] = With(@, LaneOf[r], s)]
  /\ Goes(w, "recording")
  /\ UNCHANGED refused

\* The row is enqueued, its lease extended and the claim in the message, and the
\* relay goes on without it.
HandOff(w, r) ==
  /\ r \in TaskRows /\ Ends(w, r, "queued")
  /\ UNCHANGED <<at, paused, refused>>

\* Another worker has the row by now.
Lose(w, r) ==
  /\ Starts(w, r) /\ row[r].by # w
  /\ UNCHANGED <<row, at, paused, refused>>

\* dispatch_one raises: a row that is the relay's is left to its lease, which may
\* have lapsed and not been extended; a message may have got through.
Survive(w, r) ==
  /\ \/ Starts(w, r) /\ row[r].by # w /\ UNCHANGED row
     \/ Ends(w, r, "left")
     \/ row[r].status = "free" /\ Ends(w, r, "free")
     \/ r \in TaskRows /\ Ends(w, r, "queued")
  /\ UNCHANGED <<at, paused, refused>>

-----------------------------------------------------------------------------
(* A pause, and the way out.                                               *)

\* update_or_create of the pause's record.  If the database refuses, the
\* deletion that follows is not tried either.
RecordPause(w) ==
  /\ at[w] = "recording"
  /\ \/ Writes(w, {lane[w]}, With(record[w], lane[w], paused[w][lane[w]])) /\ Goes(w, "clearing")
     \/ Refuses(w, {lane[w]}) /\ Goes(w, "setting_aside")
  /\ UNCHANGED <<row, lane, todo, claimed, batch, paused, stopping, waited>>

\* Mutant: the records of one's own lane are deleted, passed or not.
PassedAny(w, v) == {l \in DOMAIN record[v] : w # v /\ l = lane[w]}

\* The records of v that have passed; not the one w has just written.
Passed(w, v) == {l \in DOMAIN record[v] : record[v][l] = 0 /\ <<v, l>> # <<w, lane[w]>>}

\* Whoever wrote them, the records that had passed when the pause began are
\* deleted; one that passes only now may stay, and all of them if the database
\* refuses.
ClearPassed(w) ==
  /\ at[w] = "clearing" /\ Goes(w, "setting_aside")
  /\ \E S \in [Relays -> SUBSET Lanes] :
       /\ \A v \in Relays : S[v] \subseteq Passed(w, v)
       /\ record' = [v \in Relays |-> Without(record[v], S[v])]
  /\ UNCHANGED <<row, lane, todo, claimed, batch, paused, stopping, waited, refused>>

\* Mutant: a batch is given back only on the way out.
GivenBackLeaving(w, r) == at[w] = "handing_back" /\ r \in batch[w] /\ row[r].by = w

GivenBack(w, r) == r \in batch[w] /\ row[r].by = w

\* The rows of the batch that are still the relay's go from its hands.
GivenUp(w, status) ==
  row' = [r \in Rows |->
    IF GivenBack(w, r)
      THEN [status |-> IF row[r].status = "held" THEN status ELSE "free", by |-> Nobody]
      ELSE row[r]]

\* hand_back of the unstarted rows, after a deferral or on the way out.  If it
\* fails they are left to their lease.
HandBack(w) ==
  /\ at[w] \in {"setting_aside", "handing_back"}
  /\ GivenUp(w, "free") \/ GivenUp(w, "left")
  /\ batch' = [batch EXCEPT ![w] = {}]
  /\ Goes(w, IF at[w] = "setting_aside" THEN "turn" ELSE "returning")
  /\ UNCHANGED <<record, lane, todo, claimed, paused, stopping, waited, refused>>

\* The records of its pauses are deleted, and the process ends.
Return(w) ==
  /\ at[w] = "returning" /\ Goes(w, "returned")
  /\ record' \in {record, [record EXCEPT ![w] = Without(@, DOMAIN paused[w])]}
  /\ refused' = [refused EXCEPT ![w] = DOMAIN record'[w]]
  /\ paused' = [paused EXCEPT ![w] = NoPauses]
  /\ UNCHANGED <<row, lane, todo, claimed, batch, stopping, waited>>

\* The process dies; its rows keep their lease and its records stay.
Crash(w) ==
  /\ at[w] # "returned" /\ Goes(w, "returned")
  /\ GivenUp(w, "left")
  /\ refused' = [refused EXCEPT ![w] = DOMAIN record[w]]
  /\ batch' = [batch EXCEPT ![w] = {}]
  /\ paused' = [paused EXCEPT ![w] = NoPauses]
  /\ UNCHANGED <<record, lane, todo, claimed, stopping, waited>>

\* SIGTERM or SIGINT.
AskStop(w) ==
  /\ at[w] # "returned" /\ ~stopping[w]
  /\ stopping' = [stopping EXCEPT ![w] = TRUE]
  /\ UNCHANGED <<row, record, at, lane, todo, claimed, batch, paused, waited, refused>>

-----------------------------------------------------------------------------
(* Work arriving, and time.                                                *)

Becomes(r, new) ==
  /\ row' = [row EXCEPT ![r] = new]
  /\ UNCHANGED <<record, at, lane, todo, claimed, batch, paused, stopping, waited, refused>>

\* fire: a row comes to be owed, in place of one settled before.
Fire(r) == row[r].status = "settled" /\ Becomes(r, [status |-> "free", by |-> Nobody])

LeaseLapses(r) ==
  \/ row[r].status \in {"held", "left"} /\ Becomes(r, [row[r] EXCEPT !.status = "free"])
  \/ row[r].status = "queued" /\ Becomes(r, [row[r] EXCEPT !.status = "overdue"])

BackoffElapses(r) == row[r].status = "waiting" /\ Becomes(r, [row[r] EXCEPT !.status = "free"])

\* A worker of the queue moves the row from the claim its message carries to
\* itself; a second message, or one that outlived the claim, does nothing.
TaskTakes(r) ==
  row[r].status \in {"queued", "overdue"} /\ Becomes(r, [status |-> "held", by |-> Tasks])

\* It records the outcome, a deferral too, if the row is still its own.
TaskEnds(r) ==
  /\ row[r].status \in {"held", "free"} /\ row[r].by = Tasks
  /\ \E status \in {"settled", "waiting"} : Becomes(r, [status |-> status, by |-> Nobody])

Lessened(p) == [l \in DOMAIN p |-> IF p[l] = 0 THEN 0 ELSE p[l] - 1]

\* A second passes, on every clock.
Tick ==
  /\ paused' = [w \in Relays |-> Lessened(paused[w])]
  /\ record' = [w \in Relays |-> Lessened(record[w])]
  /\ <<paused, record>>' # <<paused, record>>
  /\ UNCHANGED <<row, at, lane, todo, claimed, batch, stopping, waited, refused>>

-----------------------------------------------------------------------------

Claims(w) == \E S \in SUBSET Rows : Claim(w, S)
Attempts(w, r) == Deliver(w, r) \/ Defer(w, r) \/ HandOff(w, r)

\* What the process does next of its own accord.
Onward(w) ==
  \/ PassesSpent(w) \/ EndPass(w) \/ Idle(w) \/ Turn(w) \/ Unpause(w)
  \/ Claims(w) \/ ClaimFails(w) \/ Leave(w)
  \/ (\E r \in Rows : Attempts(w, r) \/ Lose(w, r) \/ Survive(w, r))
  \/ RecordPause(w) \/ ClearPassed(w) \/ HandBack(w) \/ Return(w)

Next ==
  \/ \E w \in Relays : Onward(w) \/ Launch(w) \/ AskStop(w) \/ Crash(w)
  \/ \E r \in Rows : Fire(r) \/ LeaseLapses(r) \/ BackoffElapses(r) \/ TaskTakes(r) \/ TaskEnds(r)
  \/ Tick

Spec == Init /\ [][Next]_vars

-----------------------------------------------------------------------------
(* Safety.                                                                 *)

\* Where a relay may hold a batch.
Holding == {"starting", "recording", "clearing", "setting_aside", "handing_back"}

\* A pause lasts as long as the deferral asked for, and while it lasts the relay
\* neither claims of that lane nor starts a row of it that it holds: what one
\* deferral said is not asked for again by the next row.
PausedLaneRests ==
  [][\A w \in Relays : \A l \in DOMAIN paused[w] :
       paused[w][l] > 0 /\ at'[w] # "returned" =>
         /\ l \in DOMAIN paused'[w] /\ paused'[w][l] <= paused[w][l]
         /\ lane[w] = l => at[w] # "claiming"
         /\ lane[w] = l /\ at[w] = "starting" => batch'[w] = batch[w]]_vars

\* "No batch is held between turns": of the rows claimed in its name a relay
\* between two turns, idle or gone holds none, in any lane.  They are in a task
\* queue, or were left to their lease by something that failed; stopped, what it
\* had not started is "claimable by any worker at once".
HoldsNothingBetweenTurns ==
  \A w \in Relays : at[w] \notin Holding =>
    \A r \in Rows : row[r] # [status |-> "held", by |-> w]

\* The records tell operators exactly the pauses a relay is under, until when
\* included, whichever relay cleaned the table in the meantime: missing are only
\* those that have passed or are being written, too many only those being deleted.
\* It is so for every lane but one whose record the database refused to take or
\* give up, or that a relay died with, until the next write to it goes through: a
\* relay started again tells its new pauses as they are.
RecordsTell(w) ==
  LET written(l) == ~(at[w] = "recording" /\ l = lane[w])
  IN  /\ \A l \in DOMAIN paused[w] \ refused[w] : written(l) =>
           /\ paused[w][l] > 0 => l \in DOMAIN record[w]
           /\ l \in DOMAIN record[w] => record[w][l] = paused[w][l]
      /\ \A l \in DOMAIN record[w] \ refused[w] :
           l \in DOMAIN paused[w] \/ (at[w] = "unpausing" /\ l = lane[w])

RecordsTellThePauses == \A w \in Relays : RecordsTell(w)

\* "A lane waits for the others at most one batch of each other unpaused lane
\* it shares the relay with": between two turns of a lane, and between two
\* claims that fail, the rows of other lanes started are bounded by the sizes of
\* their claims, whatever the others are owed.
LanesShareTheRelay ==
  \A w \in Relays : \A l \in Served[w] :
    waited[w][l] <= SumFunctionOnSet(SizeOf, Served[w] \ {l})

-----------------------------------------------------------------------------
(* The inductive invariant.                                                *)

\* Elsewhere it has no batch.
EmptyBetweenTurns(w) == at[w] \notin Holding => batch[w] = {}

\* It has no row in its hands but those of its batch, leased or lapsed.
KnowsWhatItHolds(w) == \A r \in Rows : row[r].by = w => r \in batch[w]

\* A lane it claims of, or runs the rows of, is not paused; one whose pause it
\* records is.
LaneIsOpen(w) == at[w] \in {"unpausing", "claiming", "starting"} => lane[w] \notin DOMAIN paused[w]
PauseIsThere(w) == at[w] = "recording" => lane[w] \in DOMAIN paused[w]

Steady(w) ==
  EmptyBetweenTurns(w) /\ KnowsWhatItHolds(w) /\ LaneIsOpen(w) /\ PauseIsThere(w) /\ RecordsTell(w)

IInv == TypeOK /\ \A w \in Relays : Steady(w)

\* Turns are taken in the order of the lanes: those to come are the last, and
\* the lane being served is the last that had its turn.
InOrder(w) ==
  /\ todo[w] \subseteq Served[w]
  /\ \A l \in todo[w], m \in Served[w] : l < m => m \in todo[w]
  /\ at[w] = "idle" => todo[w] = {}
  /\ at[w] \in {"unpausing", "claiming"} \cup Holding =>
       lane[w] \in Served[w] \ todo[w] /\ \A m \in Served[w] \ todo[w] : m <= lane[w]

\* The lanes that have had a turn since l's last one, in this pass or the one before.
Since(w, l) ==
  {m \in Served[w] : IF l \in todo[w] THEN l < m \/ m \notin todo[w] ELSE l < m /\ m \notin todo[w]}

\* Each of them a batch, started or in hand; the one about to claim none yet.
Waits(w, l) ==
  IF at[w] \in {"unpausing", "claiming"} /\ l # lane[w]
    THEN waited[w][l] <= SumFunctionOnSet(SizeOf, Since(w, l) \ {lane[w]})
    ELSE waited[w][l] + (IF l = lane[w] THEN 0 ELSE Cardinality(batch[w]))
           <= SumFunctionOnSet(SizeOf, Since(w, l))

TurnsKept == \A w \in Relays : InOrder(w) /\ \A l \in Served[w] : Waits(w, l)

-----------------------------------------------------------------------------
(* Liveness.                                                               *)

Interrupted ==
  \E w \in Relays :
    AskStop(w) \/ Crash(w) \/ ClaimFails(w) \/ (\E r \in Rows : Survive(w, r))

\* A process does its next step, and is started again; time passes; and in the
\* end no relay is stopped or dies any more, and no claim or attempt fails.
Fairness ==
  /\ \A w \in Relays : WF_vars(Onward(w)) /\ WF_vars(Launch(w))
  /\ WF_vars(Tick)
  /\ \A r \in Rows : WF_vars(LeaseLapses(r)) /\ WF_vars(BackoffElapses(r))

FairSpec == Spec /\ Fairness /\ <>[][~Interrupted]_vars

\* Of the claims that may take a row, and of the attempts of it, some succeed.
HasItsTurn(r) ==
  /\ SF_vars(\E w \in Relays : Claims(w) /\ r \in batch'[w])
  /\ SF_vars(\E w \in Relays : Attempts(w, r))

\* A row that may be claimed is attempted in the end, or handed to a queue that
\* may lose it, though another lane of the relay is never empty, though receivers
\* defer again and again, and whatever becomes of the other rows.
NoLaneStarves ==
  \A r \in Rows : HasItsTurn(r) =>
    (row[r].status \in {"free", "held", "left", "overdue"}
       ~> row[r].status \in {"waiting", "settled", "queued"})

\* A relay told to stop returns, though the writes of its pauses and hand-backs
\* may be refused.
StopEnds == \A w \in Relays : stopping[w] ~> at[w] = "returned"
=============================================================================
