----------------------------- MODULE Retention ------------------------------
(***************************************************************************)
(* prune_events against everyone who makes events owed again: several      *)
(* prunes at once (every idle relay sweeps), the operator's replay,        *)
(* requeue and cancel, and the workers that settle rows meanwhile.         *)
(*                                                                         *)
(* Every statement of a prune is a step.  Reads see what is committed; a   *)
(* transaction's own writes are applied by its last step, and until then   *)
(* others meet only its locks: on event rows (SELECT ... FOR UPDATE) and   *)
(* on the rows of ReceiverLastSuccess it has written.                      *)
(*                                                                         *)
(* Of a delivery row the prune tells apart its status, where everything    *)
(* not terminal is "owed" and "dead" stands for orphaned too, and          *)
(* succeeded_at.  Of an event's age it tells whether the ordinary window   *)
(* has passed, and whether its own has.                                    *)
(***************************************************************************)
EXTENDS Naturals, FiniteSets, Sequences, FiniteSetsExt, Functions

CONSTANTS
  Events,     \* primary keys of events
  Rows,       \* primary keys of delivery rows
  Keys,       \* receiver keys, in the order of their strings
  EventOf,    \* the event of each row
  KeyOf,      \* the receiver of each row
  Policy,     \* the retention each event is recorded under
  Pruners,    \* processes running prune_events
  Operators,  \* processes running replay_events, requeue_dead, cancel_deliveries
  Readers,    \* processes running quiet_receivers
  Size,       \* batch_size, PRUNE_BATCH_ROWS
  Times,      \* values of succeeded_at
  Nobody      \* no process

Procs == Pruners \cup Operators

ASSUME ConstantsAssumption ==
  /\ Events \subseteq Nat /\ Rows \subseteq Nat /\ Keys \subseteq Nat
  /\ IsFiniteSet(Events) /\ IsFiniteSet(Rows) /\ IsFiniteSet(Keys)
  /\ EventOf \in [Rows -> Events] /\ KeyOf \in [Rows -> Keys]
  /\ Policy \in [Events -> {"succeeded", "settled", "window", "ordinary"}]
  /\ Pruners \cap Operators = {} /\ Nobody \notin Procs
  /\ Size \in Nat \ {0} /\ Times \subseteq Nat \ {0}

VARIABLES
  event,    \* the EventRecord table
  row,      \* the DeliveryRecord table
  aged,     \* which windows have passed for each event
  last,     \* the ReceiverLastSuccess table
  lock,     \* who holds each event row's lock
  klock,    \* who holds each ReceiverLastSuccess row's lock
  pc,       \* where each prune and each operator is
  job,      \* what it has read
  report    \* what each quiet_receivers call has read

vars == <<event, row, aged, last, lock, klock, pc, job, report>>

Terminal == {"succeeded", "cancelled", "dead"}

Row == [status: {"absent", "owed"} \cup Terminal, succ: Times \cup {0}]
Absent == [status |-> "absent", succ |-> 0]

\* The four queries of a prune, in their order.
Arms == <<"succeeded", "settled", "window", "ordinary">>

\* arm: which query; ids: the events named; locked: those among them locked;
\* chunk: a part of one event's rows goes; doomed: what the delete will name;
\* newest: the newest success of each receiver among the doomed; written: the
\* receivers whose last-success rows are done with; rows: those to write.
Job == [arm: 1..Len(Arms), ids: SUBSET Events, locked: SUBSET Events, chunk: BOOLEAN,
        doomed: SUBSET Rows, newest: [Keys -> Times \cup {0}], written: SUBSET Keys,
        rows: SUBSET Rows, write: {"none", "replay", "requeue", "cancel"}]

NoJob == [arm |-> 1, ids |-> {}, locked |-> {}, chunk |-> FALSE, doomed |-> {},
          newest |-> [k \in Keys |-> 0], written |-> {}, rows |-> {}, write |-> "none"]

TypeOK ==
  /\ event \in [Events -> {"absent", "live", "gone"}]
  /\ row \in [Rows -> Row]
  /\ aged \in [Events -> SUBSET {"own", "ordinary"}]
  /\ last \in [Keys -> Times \cup {0}]
  /\ lock \in [Events -> Procs \cup {Nobody}]
  /\ klock \in [Keys -> Procs \cup {Nobody}]
  /\ pc \in [Procs -> {"idle", "selecting", "counting", "locking",
                       "gathering", "inserting", "updating", "deleting"}]
  /\ job \in [Procs -> Job]
  /\ report \in [Readers -> [phase: {"idle", "reading"}, pruned: [Keys -> Times \cup {0}],
                             known: [Keys -> Times \cup {0}]]]

Init ==
  /\ event = [e \in Events |-> "absent"]
  /\ row = [r \in Rows |-> Absent]
  /\ aged = [e \in Events |-> {}]
  /\ last = [k \in Keys |-> 0]
  /\ lock = [e \in Events |-> Nobody]
  /\ klock = [k \in Keys |-> Nobody]
  /\ pc = [p \in Procs |-> "idle"]
  /\ job = [p \in Procs |-> NoJob]
  /\ report = [q \in Readers |-> [phase |-> "idle", pruned |-> [k \in Keys |-> 0],
                                  known |-> [k \in Keys |-> 0]]]

-----------------------------------------------------------------------------
(* Firing, delivering, ageing.                                             *)

RowsOf(e) == {r \in Rows : EventOf[r] = e}
Live(e) == {r \in RowsOf(e) : row[r].status # "absent"}

\* fire: an event and the rows it owes, if any, commit together.
Fire(e) ==
  /\ event[e] = "absent"
  /\ event' = [event EXCEPT ![e] = "live"]
  /\ \E S \in SUBSET RowsOf(e) :
       row' = [r \in Rows |-> IF r \in S THEN [Absent EXCEPT !.status = "owed"] ELSE row[r]]
  /\ UNCHANGED <<aged, last, lock, klock, pc, job, report>>

\* A worker records the outcome of an owed row; it takes no event lock.
Deliver(r) ==
  /\ row[r].status = "owed"
  /\ \/ \E t \in Times : t > row[r].succ /\ row' = [row EXCEPT ![r] = [status |-> "succeeded", succ |-> t]]
     \/ row' = [row EXCEPT ![r].status = "dead"]
  /\ UNCHANGED <<event, aged, last, lock, klock, pc, job, report>>

\* One of the windows that may apply to an event passes.
Age(e, window) ==
  /\ event[e] = "live" /\ window \notin aged[e]
  /\ window = "own" => Policy[e] = "window"
  /\ aged' = [aged EXCEPT ![e] = @ \cup {window}]
  /\ UNCHANGED <<event, row, last, lock, klock, pc, job, report>>

-----------------------------------------------------------------------------
(* What is due.                                                            *)

Settled(e) == \A r \in Live(e) : row[r].status \in Terminal

\* Mutant: an orphaned or dead delivery counts as consumed.
ConsumedSettled(e) == \A r \in Live(e) : row[r].status # "owed"

Consumed(e) == \A r \in Live(e) : row[r].status \in {"succeeded", "cancelled"}

\* retention_seconds IS NULL, whatever delete_when says.
Ordinary(e) == Policy[e] # "window"

Due(arm, e) ==
  /\ event[e] = "live"
  /\ \/ arm = "succeeded" /\ Policy[e] = "succeeded" /\ Consumed(e)
     \/ arm = "settled" /\ Policy[e] = "settled" /\ Settled(e)
     \/ arm = "window" /\ Policy[e] = "window" /\ "own" \in aged[e] /\ Settled(e)
     \/ arm = "ordinary" /\ Ordinary(e) /\ "ordinary" \in aged[e] /\ Settled(e)

-----------------------------------------------------------------------------
(* Locks.                                                                  *)

\* Mutant: nobody waits for an event's lock.
FreeAlways(e) == e \in Events

Free(e) == lock[e] = Nobody

\* Mutant: events are locked in any order.
FirstAny(x, S) == x \in S

\* Both kinds of row are locked in the order of their keys.
First(x, S) == x \in S /\ \A y \in S : x <= y

\* What a process still has to lock, and to write of the last successes.
ToLock(p) == job[p].ids \ job[p].locked
ToWrite(p) == {k \in Keys : job[p].newest[k] # 0} \ job[p].written

\* The transaction ends, committed or rolled back, and its locks with it.
Release(p) ==
  /\ lock' = [e \in Events |-> IF lock[e] = p THEN Nobody ELSE lock[e]]
  /\ klock' = [k \in Keys |-> IF klock[k] = p THEN Nobody ELSE klock[k]]

\* SELECT ... FOR UPDATE ... ORDER BY pk, one row of it; an event deleted in
\* the meantime is not returned.
Lock(p, e) ==
  /\ pc[p] = "locking" /\ First(e, ToLock(p)) /\ Free(e)
  /\ IF event[e] = "live"
       THEN /\ lock' = [lock EXCEPT ![e] = p]
            /\ job' = [job EXCEPT ![p].locked = @ \cup {e}]
       ELSE /\ job' = [job EXCEPT ![p].ids = @ \ {e}]
            /\ UNCHANGED lock
  /\ UNCHANGED <<event, row, aged, last, klock, pc, report>>

\* A process dies or loses its connection: its transaction is rolled back.
Crash(p) ==
  /\ pc[p] # "idle"
  /\ pc' = [pc EXCEPT ![p] = "idle"]
  /\ job' = [job EXCEPT ![p] = NoJob]
  /\ Release(p)
  /\ UNCHANGED <<event, row, aged, last, report>>

-----------------------------------------------------------------------------
(* Making events owed again, and withdrawing what is owed.                 *)

\* An operation of one transaction names events, and locks them before it
\* writes; replay_events runs one transaction per event.
Ask(o, write, ids, rows) ==
  /\ pc[o] = "idle" /\ ids # {}
  /\ pc' = [pc EXCEPT ![o] = "locking"]
  /\ job' = [job EXCEPT ![o] = [NoJob EXCEPT !.write = write, !.ids = ids, !.rows = rows]]
  /\ UNCHANGED <<event, row, aged, last, lock, klock, report>>

Replay(o, e) == event[e] = "live" /\ Ask(o, "replay", {e}, {})

Requeue(o, S) ==
  /\ \A r \in S : row[r].status = "dead"
  /\ Ask(o, "requeue", {EventOf[r] : r \in S}, S)

Cancel(o, E) == Ask(o, "cancel", E, {})

\* What an operation's write makes of the rows, under its locks: settled rows
\* of a replay's receivers are reopened and missing ones added; the dead rows
\* named are requeued if they are still dead; of the owed rows those no worker
\* has claimed are cancelled.  succeeded_at is never cleared.
Reach(o, statuses) ==
  {r \in Rows : EventOf[r] \in job[o].locked /\ row[r].status \in statuses}

Becoming(S, status) ==
  [r \in Rows |-> IF r \in S THEN [row[r] EXCEPT !.status = status] ELSE row[r]]

Written(o) ==
  \/ /\ job[o].write = "replay"
     /\ \E S \in SUBSET Reach(o, Terminal \cup {"absent"}) : row' = Becoming(S, "owed")
  \/ /\ job[o].write = "requeue"
     /\ row' = Becoming(job[o].rows \cap Reach(o, {"dead"}), "owed")
  \/ /\ job[o].write = "cancel"
     /\ \E S \in SUBSET Reach(o, {"owed"}) : row' = Becoming(S, "cancelled")

\* The write, and the commit.
Write(o) ==
  /\ pc[o] = "locking" /\ ToLock(o) = {}
  /\ Written(o)
  /\ pc' = [pc EXCEPT ![o] = "idle"]
  /\ job' = [job EXCEPT ![o] = NoJob]
  /\ Release(o)
  /\ UNCHANGED <<event, aged, last, report>>

-----------------------------------------------------------------------------
(* prune_events.                                                           *)

Goes(p, phase, j) ==
  /\ pc' = [pc EXCEPT ![p] = phase]
  /\ job' = [job EXCEPT ![p] = j]

\* The next of the queries, or the end of the call.
NextArm(p) ==
  IF job[p].arm < Len(Arms)
    THEN Goes(p, "selecting", [NoJob EXCEPT !.arm = job[p].arm + 1])
    ELSE Goes(p, "idle", NoJob)

Prune(p) ==
  /\ pc[p] = "idle"
  /\ Goes(p, "selecting", NoJob)
  /\ UNCHANGED <<event, row, aged, last, lock, klock, report>>

DueNow(p) == {e \in Events : Due(Arms[job[p].arm], e)}

\* _candidates: some of the due events; which are the oldest is left open, and
\* so is what is left of the limit.
Select(p) ==
  /\ pc[p] = "selecting"
  /\ \E S \in SUBSET DueNow(p) :
       /\ S # {} /\ Cardinality(S) <= Size
       /\ Goes(p, "counting", [job[p] EXCEPT !.ids = S])
  /\ UNCHANGED <<event, row, aged, last, lock, klock, report>>

NothingDue(p) ==
  /\ pc[p] = "selecting" /\ DueNow(p) = {}
  /\ NextArm(p)
  /\ UNCHANGED <<event, row, aged, last, lock, klock, report>>

\* stop() is true, or the limit is reached, before a batch.
Stop(p) ==
  /\ pc[p] = "selecting"
  /\ Goes(p, "idle", NoJob)
  /\ UNCHANGED <<event, row, aged, last, lock, klock, report>>

RowCount(e) == Cardinality(Live(e))

\* How many of the first Size rows of the events S, in event order, are e's.
Counted(S, e) ==
  LET before == SumFunctionOnSet([f \in S |-> RowCount(f)], {f \in S : f < e})
  IN  IF before >= Size THEN 0 ELSE Min({RowCount(e), Size - before})

\* Mutant: an event's own row is left out of the budget.
CostRowsOnly(S, e) == Counted(S, e)

Cost(S, e) == 1 + Counted(S, e)

\* Mutant: only an event with more rows than a batch is sent to be chunked.
ChunkedAbove(S) == Counted(S, Min(S)) > Size

\* Every row read belongs to the first event.
Chunked(S) == Counted(S, Min(S)) = Size

\* _fitting: the leading events whose rows, their own included, fit.
Fitting(S) ==
  {e \in S : SumFunctionOnSet([f \in S |-> Cost(S, f)], {f \in S : f <= e}) <= Size}

Count(p) ==
  /\ pc[p] = "counting"
  /\ LET S == job[p].ids
         chunked == Chunked(S)
     IN  Goes(p, "locking", [job[p] EXCEPT !.chunk = chunked,
                               !.ids = IF chunked THEN {Min(S)} ELSE Fitting(S)])
  /\ UNCHANGED <<event, row, aged, last, lock, klock, report>>

StillDue(p) == {e \in job[p].locked : Due(Arms[job[p].arm], e)}

\* Under the locks, whether the events are due is read again.  A chunk of an
\* event no longer due ends the query.
Recheck(p) ==
  /\ p \in Pruners /\ pc[p] = "locking" /\ ToLock(p) = {}
  /\ IF job[p].chunk /\ StillDue(p) = {}
       THEN NextArm(p) /\ Release(p)
       ELSE /\ Goes(p, "gathering", [job[p] EXCEPT !.ids = StillDue(p)])
            /\ UNCHANGED <<lock, klock>>
  /\ UNCHANGED <<event, row, aged, last, report>>

\* The first Size rows of the one event of a chunk, if it has as many.
Chunk(e) == {r \in Live(e) : Cardinality({q \in Live(e) : q <= r}) <= Size}

\* The rows the delete will name.
Doomed(p) ==
  IF job[p].chunk
    THEN LET e == CHOOSE e \in job[p].ids : TRUE
         IN  IF RowCount(e) >= Size THEN Chunk(e) ELSE {}
    ELSE {r \in Rows : EventOf[r] \in job[p].ids /\ row[r].status # "absent"}

\* The newest success of receiver k among the rows S.
NewestOf(k, S) == Max({0} \cup {row[r].succ : r \in {q \in S : KeyOf[q] = k}})

\* _record_last_successes reads what to record.
Gather(p) ==
  /\ pc[p] = "gathering"
  /\ LET S == Doomed(p)
     IN  Goes(p, "inserting", [job[p] EXCEPT !.doomed = S,
                                 !.newest = [k \in Keys |-> NewestOf(k, S)]])
  /\ UNCHANGED <<event, row, aged, last, lock, klock, report>>

KeyFree(p, k) == klock[k] \in {Nobody, p}

Wrote(p, k) == job' = [job EXCEPT ![p].written = @ \cup {k}]

\* INSERT ... ON CONFLICT DO NOTHING: a receiver that has a row is passed over,
\* another's uncommitted insert is waited for.
Insert(p, k) ==
  /\ pc[p] = "inserting" /\ First(k, ToWrite(p))
  /\ IF last[k] # 0 THEN UNCHANGED klock
     ELSE KeyFree(p, k) /\ klock' = [klock EXCEPT ![k] = p]
  /\ Wrote(p, k)
  /\ UNCHANGED <<event, row, aged, last, lock, pc, report>>

Inserted(p) ==
  /\ pc[p] = "inserting" /\ ToWrite(p) = {}
  /\ Goes(p, "updating", [job[p] EXCEPT !.written = {}])
  /\ UNCHANGED <<event, row, aged, last, lock, klock, report>>

\* UPDATE ... WHERE last_succeeded_at < at, which waits only for a row it matches.
Update(p, k) ==
  /\ pc[p] = "updating" /\ First(k, ToWrite(p))
  /\ IF last[k] >= job[p].newest[k] THEN UNCHANGED klock
     ELSE KeyFree(p, k) /\ klock' = [klock EXCEPT ![k] = p]
  /\ Wrote(p, k)
  /\ UNCHANGED <<event, row, aged, last, lock, pc, report>>

\* Mutant: the last success is recorded when the event goes, not with its chunks.
RecordedAtTheEnd(p, k) ==
  IF ~job[p].chunk /\ klock[k] = p /\ job[p].newest[k] > last[k]
    THEN job[p].newest[k] ELSE last[k]

\* The last success of k once p commits.
Recorded(p, k) ==
  IF klock[k] = p /\ job[p].newest[k] > last[k] THEN job[p].newest[k] ELSE last[k]

\* The delete, with every row an event has by now, and the commit.  A chunk
\* that deleted nothing ends the query.
Delete(p) ==
  /\ pc[p] = "updating" /\ ToWrite(p) = {}
  /\ LET events == IF job[p].chunk THEN {} ELSE job[p].ids
         rows == IF job[p].chunk THEN job[p].doomed ELSE {r \in Rows : EventOf[r] \in events}
     IN  /\ event' = [e \in Events |-> IF e \in events THEN "gone" ELSE event[e]]
         /\ row' = [r \in Rows |-> IF r \in rows THEN Absent ELSE row[r]]
  /\ last' = [k \in Keys |-> Recorded(p, k)]
  /\ Release(p)
  /\ IF job[p].chunk /\ job[p].doomed = {} THEN NextArm(p)
     ELSE Goes(p, "selecting", [NoJob EXCEPT !.arm = job[p].arm])
  /\ UNCHANGED <<aged, report>>

-----------------------------------------------------------------------------
(* quiet_receivers.                                                        *)

\* The newest success there has been of receiver k, as the tables have it.
Newest(k) == Max({last[k], NewestOf(k, Rows)})

\* It reads the pruned successes of every receiver first.
ReadPruned(q) ==
  /\ report[q].phase = "idle"
  /\ report' = [report EXCEPT ![q] = [phase |-> "reading", pruned |-> last,
                                      known |-> [k \in Keys |-> Newest(k)]]]
  /\ UNCHANGED <<event, row, aged, last, lock, klock, pc, job>>

\* What it would answer for k, reading k's live rows now.
Answer(q, k) == Max({report[q].pruned[k], NewestOf(k, Rows)})

Reported(q) ==
  /\ report[q].phase = "reading"
  /\ report' = [report EXCEPT ![q].phase = "idle"]
  /\ UNCHANGED <<event, row, aged, last, lock, klock, pc, job>>

-----------------------------------------------------------------------------

Sweep(p) ==
  \/ Prune(p) \/ Select(p) \/ NothingDue(p) \/ Stop(p) \/ Count(p)
  \/ \E e \in Events : Lock(p, e)
  \/ Recheck(p) \/ Gather(p)
  \/ \E k \in Keys : Insert(p, k) \/ Update(p, k)
  \/ Inserted(p) \/ Delete(p) \/ Crash(p)

Operate(o) ==
  \/ \E e \in Events : Replay(o, e) \/ Lock(o, e)
  \/ \E S \in SUBSET Rows : Requeue(o, S)
  \/ \E E \in SUBSET Events : Cancel(o, E)
  \/ Write(o) \/ Crash(o)

Next ==
  \/ \E e \in Events : Fire(e) \/ \E window \in {"own", "ordinary"} : Age(e, window)
  \/ \E r \in Rows : Deliver(r)
  \/ \E p \in Pruners : Sweep(p)
  \/ \E o \in Operators : Operate(o)
  \/ \E q \in Readers : ReadPruned(q) \/ Reported(q)

Spec == Init /\ [][Next]_vars

-----------------------------------------------------------------------------
(* Safety.                                                                 *)

\* p waits for a lock q holds.
WaitsFor(p, q) ==
  \/ pc[p] = "locking" /\ \E e \in ToLock(p) : First(e, ToLock(p)) /\ lock[e] = q
  \/ /\ pc[p] \in {"inserting", "updating"}
     /\ \E k \in ToWrite(p) :
          /\ First(k, ToWrite(p)) /\ klock[k] = q /\ q # p
          /\ IF pc[p] = "inserting" THEN last[k] = 0 ELSE last[k] < job[p].newest[k]

\* Sweeps and operations never wait for each other in a circle: each takes
\* events before last successes, and each kind in one order ("two sweeps
\* cannot deadlock over it").
NoWaitCycle ==
  \A S \in (SUBSET Procs) \ {{}} : \E p \in S : \A q \in S : ~WaitsFor(p, q)

\* What the delete names: rows, and, but for a chunk, the events' own.
Names(p) == Cardinality(job[p].doomed) + (IF job[p].chunk THEN 0 ELSE Cardinality(job[p].ids))

\* A transaction of the prune deletes at most Size rows, the events' own
\* included, although it counts no further than Size rows.
BatchBounded ==
  \A p \in Pruners : pc[p] \in {"inserting", "updating"} => Names(p) <= Size

\* What its retention allows: an event goes once nothing is owed on it, and
\* then on consumption if it was recorded so, past its own window if it has
\* one, and past the ordinary one otherwise.
Allowed(e) ==
  /\ \A r \in RowsOf(e) : row[r].status # "owed"
  /\ CASE Policy[e] = "window" -> "own" \in aged[e]
       [] Policy[e] = "settled" -> TRUE
       [] Policy[e] = "succeeded" ->
            "ordinary" \in aged[e] \/ \A r \in RowsOf(e) : row[r].status # "dead"
       [] Policy[e] = "ordinary" -> "ordinary" \in aged[e]

\* No event and no row of one is deleted before its retention allows, whatever
\* was replayed, requeued or settled since the prune selected it.
DeletedOnlyWhenDue ==
  [][\A e \in Events :
       \/ event[e] = "live" /\ event'[e] = "gone"
       \/ \E r \in RowsOf(e) : row[r].status # "absent" /\ row'[r].status = "absent"
       => Allowed(e)]_<<event, row>>

\* A report of quiet_receivers may miss the success it set out to tell, since it
\* reads the pruned successes before the live rows; but only one that a sweep has
\* moved between the two, so that the next report tells it.
MissesOnlyWhatMoved ==
  \A q \in Readers : report[q].phase = "reading" =>
    \A k \in Keys :
      \/ Answer(q, k) >= report[q].known[k]
      \/ last[k] > report[q].pruned[k] /\ last[k] >= report[q].known[k]

-----------------------------------------------------------------------------
(* The inductive invariant.                                                *)

\* Only an event that is there has rows.
RowsHaveEvents ==
  \A r \in Rows : row[r].status # "absent" => event[EventOf[r]] = "live"

\* A row that was deleted, or never written, has no success.
AbsentIsBlank == \A r \in Rows : row[r].status = "absent" => row[r].succ = 0

\* What a process says it has locked it holds, and it is there.
Holding(p) == \A e \in job[p].locked : lock[e] = p /\ event[e] = "live"

\* A count, and a chunk, have an event to be of.
NamesSome(p) ==
  /\ pc[p] = "counting" => job[p].ids # {}
  /\ pc[p] \in {"gathering", "inserting", "updating"} /\ job[p].chunk => job[p].ids # {}

\* From the moment the locks are held, what the delete names is due and stays so.
NamesDue(p) ==
  pc[p] \in {"gathering", "inserting", "updating"} =>
    \A e \in job[p].ids : e \in job[p].locked /\ Due(Arms[job[p].arm], e)

\* The rows it names are rows of those events, all of them but for a chunk.
DoomsTheirRows(p) ==
  pc[p] \in {"inserting", "updating"} =>
    \A r \in Rows :
      /\ r \in job[p].doomed => EventOf[r] \in job[p].ids
      /\ ~job[p].chunk /\ EventOf[r] \in job[p].ids /\ row[r].status # "absent"
           => r \in job[p].doomed

\* What it will record is the newest success of those rows.
TellsTheNewest(p) ==
  pc[p] \in {"inserting", "updating"} =>
    \A k \in Keys : job[p].newest[k] = NewestOf(k, job[p].doomed)

\* A receiver it is done with has that recorded, or is locked for the commit.
WrittenIsKept(p) ==
  pc[p] = "updating" =>
    \A k \in job[p].written : last[k] >= job[p].newest[k] \/ klock[k] = p

Sound(p) ==
  /\ Holding(p) /\ NamesSome(p) /\ NamesDue(p)
  /\ DoomsTheirRows(p) /\ TellsTheNewest(p) /\ WrittenIsKept(p)

\* What a report set out from is still known.
ReportsAreBehind ==
  \A q \in Readers : report[q].phase = "reading" =>
    \A k \in Keys : report[q].known[k] <= Newest(k) /\ report[q].pruned[k] <= last[k]

Consistent ==
  /\ TypeOK /\ RowsHaveEvents /\ AbsentIsBlank /\ ReportsAreBehind
  /\ \A p \in Procs : Sound(p)

\* The locks a process holds are on what it says, before what it still asks for:
\* the last successes it has inserted, unknown until it commits, and those it
\* has updated.
Orderly(p) ==
  /\ \A e \in Events : lock[e] = p => e \in job[p].locked
  /\ pc[p] \in {"idle", "selecting", "counting"} => job[p].locked = {}
  /\ pc[p] = "locking" => \A e \in job[p].locked, f \in ToLock(p) : e < f
  /\ pc[p] \notin {"inserting", "updating"} =>
       job[p].written = {} /\ \A k \in Keys : klock[k] # p
  /\ \A k \in job[p].written, l \in ToWrite(p) : k < l
  /\ pc[p] = "inserting" =>
       /\ \A k \in Keys : klock[k] = p => k \in job[p].written /\ last[k] = 0
       /\ \A k \in job[p].written : last[k] # 0 \/ klock[k] = p
  /\ pc[p] = "updating" =>
       /\ \A k \in Keys : klock[k] = p => k \in job[p].written \/ last[k] = 0
       /\ \A k \in ToWrite(p) : last[k] # 0 \/ klock[k] = p

Ordered == \A p \in Procs : Orderly(p)

IInv == Consistent /\ Ordered /\ MissesOnlyWhatMoved

\* What BatchBounded rests on: no replay adds rows to an event that is there.
NoneAdded ==
  \A r \in Rows :
    event[EventOf[r]] = "live" /\ row[r].status = "absent" => row'[r].status = "absent"

NoRowsAdded == [][NoneAdded]_<<event, row>>

\* The events a batch names are within its budget with their rows before their
\* locks are held, and those of them still due are when they are locked.
RowsThereOf(E) == {r \in Rows : EventOf[r] \in E /\ row[r].status # "absent"}

Budgeted(p) ==
  /\ \A e \in job[p].ids : event[e] # "absent"
  /\ pc[p] = "locking" => job[p].locked \subseteq job[p].ids
  /\ pc[p] \in {"locking", "gathering"} /\ ~job[p].chunk =>
       Cardinality(RowsThereOf(job[p].ids)) + Cardinality(job[p].ids) <= Size
  /\ pc[p] \in {"inserting", "updating"} => Names(p) <= Size

BatchesKept == \A p \in Pruners : Budgeted(p)

-----------------------------------------------------------------------------

\* Retention keeps its promise: nothing owed is deleted, nothing deleted comes
\* back, and no receiver's newest success is forgotten with its rows.
Kept(e) ==
  IF event[e] # "live" THEN event[e]
  ELSE IF \E r \in RowsOf(e) : row[r].status = "owed" THEN "owed" ELSE "settled"

Promise == INSTANCE Ledger WITH
  kept <- [e \in Events |-> Kept(e)], newest <- [k \in Keys |-> Newest(k)]

KeepsPromise == Promise!Spec

-----------------------------------------------------------------------------
(* Liveness.                                                               *)

Onward(p) ==
  \/ Prune(p) \/ Select(p) \/ NothingDue(p) \/ Count(p) \/ (\E e \in Events : Lock(p, e))
  \/ Recheck(p) \/ Gather(p) \/ (\E k \in Keys : Insert(p, k) \/ Update(p, k))
  \/ Inserted(p) \/ Delete(p)

Interrupted(p) == (Stop(p) \/ Crash(p)) /\ ~Onward(p)

\* Relays go on sweeping, and in the end none is stopped or dies any more.
FairSpec ==
  /\ Spec
  /\ \A p \in Pruners : WF_vars(Onward(p))
  /\ <>[][\A p \in Pruners : ~Interrupted(p)]_vars

\* What retention allows to go does go, in chunks where it must.
DueIsDeleted ==
  \A e \in Events : event[e] = "live" /\ Allowed(e) ~> event[e] = "gone" \/ ~Allowed(e)
=============================================================================
