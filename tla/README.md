# django-domain-events in TLA+

A verification project for `django_domain_events`, a transactional outbox for
Django: an event and the delivery rows it owes are written in the caller's
transaction, and workers claim the rows, run the receivers and record what
became of them. The modules here model the part of the package where several
processes meet over the same rows, TLC checks them on small instances, and
TLAPS proves the properties that matter most for every size.

All source paths below are relative to `django_domain_events/`.

## Inventory

| Component | State it keeps | Operations | Interacts with | What makes it correct |
|---|---|---|---|---|
| Delivery rows and the fenced attempt (`delivery/deliver.py`) | one `DeliveryRecord` per event, receiver and target: status, attempts, `available_at`, `due_at`, the token `claimed_by`/`claimed_at`, the lease | `deliver_one`, `dispatch_one`, the fence, the verdicts | every other writer of the rows | work commits once and with its row, the token has one holder, the budget is kept; the hook and `on_failure` are told how it ended |
| Claim and hand-back (`delivery/claim_batch.py`, `delivery/hand_back.py`) | the same rows | claim of a batch, giving back its rest | workers, operator actions | a live claim is not taken, a hand-back ends only its own leases |
| Firing (`delivery/fire.py`) | the event, its rows, the callbacks registered | `fire`, the eager attempt | caller's transaction, claim | owed iff the business change committed |
| Operator actions (`operations/`) | the same rows, event locks | cancel, requeue, replay | prune, workers | a row in somebody's hands is left alone |
| Task backends (`delivery/*_backend.py`) | a queue outside the database | enqueue, redelivery | `dispatch_one`, task workers | a message is good for one take |
| Relay loop (`delivery/run_relay.py`) | lanes paused, the unstarted rest of a batch, the sweep's clock | pass, pause, stop, sweep, wait | claim, hand-back, prune, wake | no lane starves, nothing is kept on stop |
| Delivery pass and drain (`deliver_pending`, `delivery/drain_outbox.py`) | limit left, lanes closed, rows set aside | one pass | claim | ends, and shares its limit |
| Retention and prune (`operations/prune_events.py`) | events, rows, the remembered last success | candidates, locked and chunked deletion | replay, requeue, firing | nothing owed is deleted, nothing reopened is lost |
| Waking (`delivery/wake.py`) | the notification channel | notify, wait | firing, relay | a lost wake-up costs one poll |
| Attribution, causation, suppression (`scope/`) | context variables | enter, exit | firing, every receiver | stacks are balanced, causes and chains are right |
| Registry, declarations and checks (`declaration/`, `checks.py`, `apps.py`) | what a release declares | register, the checks of a deployment | fire, claim, attempt, in processes of several releases at once | no declaration is lost, what a release orphans is announced, every row is in some lane |
| Introspection, codecs, catalogue, admin, commands, settings | none, or constant after start-up | queries, conversions, rendering | - | pure |

The interactions in one paragraph: `fire` writes an event and its rows inside the
caller's transaction and, after commit, may attempt the rows itself and wakes a
relay. A relay (or one `deliver_pending`) claims a batch of a lane under a lease,
runs each row through `dispatch_one`, and hands the unstarted rest back when it
stops or a receiver defers. A row of a `site="task"` receiver goes to a queue with
its claim in the message, and the task worker must take it under that claim.
Operators withdraw, reopen and replay rows; an idle relay sweeps events away.
Nobody holds a lock while a receiver runs: what keeps them apart is the token
`claimed_by`/`claimed_at`, which every write is conditioned on.

What is hard here: a lease that lapses under a running receiver; a token that is
compared without the status; counts and statuses read before a receiver runs and
written after it; task messages lost, kept and repeated; a worker dying between
any two statements; a COMMIT that raises, before or after it took effect; lanes,
pauses and limits that must end without starving anybody; a prune that selects,
locks, re-reads and deletes while rows are reopened; context variables read where
the block that set them has ended; rows that outlive the code that wrote them.
`PROJECT.json` lists these hazards line by line with the properties aimed at them.

## Modules

| Module | Models | State |
|---|---|---|
| `Delivery` | the rows and every process that writes them, one step per statement | the tables, each worker's batch and claim stamp, each attempt's phase and fence, the queue, committed effects |
| `DeliverOne` | one run of a row, from its load to the close of its hook, inside `Delivery`'s one step | three versions of the database (committed, seen, to fall back to), the run's place, exception, hook and what `on_failure` was told |
| `Obligation` | what the outbox promises of a row, without claims or leases | owed or settled, effects that stand |
| `Delivery_proofs`, `DeliverOne_proofs` | the theorems about `Delivery` and `DeliverOne` | - |
| `Retention_proofs`, `Relay_proofs`, `DeliverPending_proofs`, `Firing_proofs`, `Rollout_proofs` | the theorems about these modules | - |
| `Extremes` | what the proofs need of `Min`, `Max`, whole division, finite sets of numbers and sums over finite sets | - |
| `Retention` | `prune_events` against replay, requeue, cancel, other sweeps and `quiet_receivers` | tables, event locks, last-success locks, each process's place and what it has read |
| `Ledger` | what retention promises of events and last successes | per event and per receiver |
| `Relay` | the loop of `run_relay`, several relays and their pause records | where each relay is, its pauses, its batch, `LanePauseRecord` |
| `DeliverPending` | one call of `deliver_pending` / `drain_outbox` | rotation, limit left, closed lanes, rows set aside |
| `Firing` | `fire` inside nested transactions, suppressed and attributed blocks, receivers and callbacks of one thread | the event and delivery tables, a stack of what the thread is inside of, the three context variables, the callbacks registered |
| `Rollout` | one outbox under several releases: registration, the checks of a deployment, and what old and new processes make of each other's rows | the release each process runs, what each check named, the tables |
| `MC*` | instances of the above | - |

They fit together by level. `Delivery` is the protocol about one row and knows
nothing of lanes; its claim picks any batch of claimable rows, so whatever `Relay`
and `DeliverPending` do with lanes, sizes and limits is among its behaviours.
`DeliverOne` opens the step of `Delivery` in which a receiver runs, for one run and one
row, with everybody else as single statements. Both implement the same `Obligation`.
`Relay` and `DeliverPending` take an attempt as one step, since what may happen
inside it is `Delivery`'s, and keep the control around it. `Retention` takes a
delivery as one step that settles a row, and keeps the statements of the sweep.
`Firing` is what comes before: it ends where the callback that attempts the eager
rows, or wakes a relay, runs, and says that by then the rows are committed, which
`Delivery!Fire` takes for granted. `Rollout` takes all of it as single steps and varies
what the others hold fixed: the registry that gives a row's names their meaning.

### Code and actions

`Delivery` (`delivery/deliver.py` unless named):

| Code | Action |
|---|---|
| `fire.py`, rows written with the event | `Fire`; the eager attempt is a worker in `Eager` |
| `claim_batch.py` | `Claim`, also of rows whose lease has lapsed |
| `hand_back.py` | `HandBack` |
| `deliver_pending`'s and `run_relay`'s call of `dispatch_one` | `Start` (`Begin`: owed check, ownership of a claimed row, lease band) |
| `_Fence.extend_lease` | `Extend` |
| `dispatch_one` for `site="task"` | the branch `HandsOff` of `Proceed`: a message is queued |
| `_take` and its refusal | `Take`, `TurnAway`, then `StartTaken` |
| the receiver, and the acknowledgement or failure written through the fence | `Finish`, with `Verdict` for each outcome; the receiver's database work commits in the same step |
| the fence finds the row gone | `Lose` (the work is rolled back) |
| on-commit callbacks, which may raise | `RunCallbacks` |
| an exception the relay survives, a process that dies | `Survive`, `Crash` |
| a message the queue loses | `Drop` |
| `cancel_deliveries`, `requeue_dead`, `replay_events` | `Cancel`, `Requeue`, `Replay` |
| the clock | `LeaseLapses`, `WaitElapses`, `GiveUpReached` |

`DeliverOne` (`delivery/deliver.py`; a call with no claim, too):

| Code | Action |
|---|---|
| the load, `_owed`, ownership and decoding | `Start` of a claimed row, `Call` by hand, `Skip` |
| `_Around.enter`, `_Around.exit` | `Enter`, `Leave` |
| the block: `on_commit(mark_committed)`, the receiver, the acknowledgement | `Receive`, `Raise`, `Acknowledge` (a fence that matches nothing rolls the block back) |
| the end of the block | `Commit`, `CommitRaises` |
| `except Exception` with `committed` set; without it | `RunCallbacks`; `Record`, or `FailToRecord` when the write raises too |
| `_notify_failure` | `Tell` |
| the caller's own `atomic()`, kept or rolled back; a process that dies | `CallerEnds`, `Crash` |
| other sessions: a claim; an outcome; `cancel_deliveries`; `fire`, replay and requeue | `Overtake`, `OtherRecords`, `Cancel`, `Open` |

`Retention`: `Prune`, `Select`, `Count`, `Lock`, `Recheck`, `Gather`, `Insert`,
`Inserted`, `Update` and `Delete` are the statements of `_prune_batch` and of the
chunked deletion in `operations/prune_events.py`; `Replay`, `Requeue` and `Cancel`
take the event locks of `operations/` and `Write` applies them; `ReadPruned` and
`Reported` are the two reads of `introspection/quiet_receivers.py`.

`Relay`: each action is one stretch of the loop between two database statements
(`Turn`, `Claim`, `Deliver`, `Defer`, `HandOff`, `Lose`, `RecordPause`, `ClearPassed`,
`HandBack`, `Unpause`, `EndPass`, `PassesSpent`, `Idle`, `Return`), and its failing
counterpart where the code survives the failure (`ClaimFails`, `Survive`, and a refused
branch in the actions of the helpers named `*_or_survive`). `HandOff` is `dispatch_one` of
a `site="task"` row, which leaves the row CLAIMED under the relay's token and the loop going
on; `TaskTakes` and `TaskEnds` are the queue's side of it, `_take` and the fenced write.

`DeliverPending`: `Claim`, `Rotate`, `Spent` and `BatchRun` are the two loops;
`Judge`, `NotYet`, `Defer` and `HandOff` are one pass of the inner one, by outcome.

`Firing` (`delivery/fire.py` unless named):

| Code | Action |
|---|---|
| `transaction.atomic()`, entered, left, rolled back (Django's) | `EnterAtomic`, `LeaveAtomic`, `RollBack` |
| `scope/suppressed.py`, entered, left | `EnterSuppressed`, `LeaveSuppressed` |
| `scope/attributed.py`, entered, left | `EnterAttributed`, `LeaveAttributed` |
| `fire` up to the event's row; the return of a suppressed fire | `Record` |
| the rows, once `targets=` and `due=` have answered; what they raise | `Owe`, `FanOutFails` |
| the loop over the other receivers | `Reach`, which runs an `INLINE` one inside `caused_by` and registers an `ON_COMMIT` one |
| the return of `fire` | `FireReturns` |
| the callbacks after the commit (Django's `robust=True`) | `RunHook`, `HooksRun`, `Survive` |
| a receiver or callback that returns, or an exception that leaves | `LeaveReceiver`, `Raise`, `Unwind`, `Fail` |
| the process dies | `Crash` |

`Rollout`:

| Code | Action or definition |
|---|---|
| `@event` and `@receiver` of a release, in import order | `Registries`, a fold of `Declare` |
| `migrate` and its checks: E001 stops it, W001 and W002 name what they find | `Deploy` |
| a process restarted on the release; `require_lane` | `Start` |
| `fire`: the receivers of the class and the wildcards; name, version and fields written down | `Fire` |
| `claim_batch`'s lane filter; an attempt up to the receiver; `requeue_dead`; `cancel_deliveries` | `Claim`, `Attempt`, `Requeue`, `Cancel` |

### Abstractions

- Time is what has elapsed. Rows carry "still ahead" or "passed", never a
  timestamp; each may pass at any moment. In `Relay` a pause is what is left of it.
- In `Relay` a claimed row says in whose hands it is: a relay's, from the claim until the
  row's outcome, its hand-off or its hand-back; a task worker's, after its take; or nobody's.
  `claimed_by` names the relay in the first case and may in the last, a row in a queue's
  message ("queued") or left to its lease by something that failed ("left"). What it names
  there is not kept, since no relay writes to a row that is not in its batch.
  In `DeliverPending` a time has come, lies before the moment told, or beyond it.
- `claimed_at` is a stamp. `Fresh` says a worker's clock moves between two of its
  own claims of a row that somebody still holds, which is what the code relies on
  when it uses the pair as a token. It does not cover two processes under one
  worker id, nor a call of `deliver_pending(now=...)` repeated with one moment;
  both are documented limits of the package.
- An id stands for an (event, receiver, target) triple, and a lane is a number in
  the order of its name. Payloads, codecs, logging and hooks are left out.
- The database has row locks; on SQLite, where it has none, a claim may be taken
  twice, as the documentation says, and none of this applies.
- `Replay`, `Requeue` and `Cancel` are one step in `Delivery` (one statement or one
  transaction under locks); their locks are in `Retention`. A replay reads the statuses
  before it writes: the rows `Replay` is given are any that may have been settled then, and
  the write, as in the code, asks for the status again.
- In `Firing` an exception is caught around an atomic block or by nobody. A program
  that swallows one inside the block it should roll back commits half a change, which
  Django's documentation warns of and no library can undo. An
  actor is its key and whether it is a user; a block's data is left out. `targets=` and
  `due=` are one row per receiver, or an exception.
- In `DeliverOne` a session waits for a row another one has written and not committed,
  as the row lock has it, and a COMMIT is one step that may raise.
- In `Rollout` a payload is the set of its fields, a claim and an attempt are single
  steps, and a row whose claimant was restarted waits for its lease.
- A receiver that kills its worker, or answers `NotYet` for ever, is a documented
  limit: nothing ends such a row, and no property here claims it does.

## Runs

Every run but the one expected to fail checks deadlock unless its `.cfg` says
otherwise: `calls` and `rollout` do, since a call ends, and rows, deployments and
reopenings run out.

| Run | Instance | Shows |
|---|---|---|
| `claims` | 2 workers, one draining; 1 row in place, budget 2, every verdict, 2 stamps | commit once, verdicts that stand, attempts counted by outcomes only; live claims that neither a worker nor a replay takes over; the whole implements `Obligation` |
| `batch` | 2 workers, one eager; 2 rows, one of them a task's; batch of 2, budget 1 | the inductive invariant, of which `TypeOK`, `OneHolder` and `BudgetKept` are parts; hand-backs take nothing |
| `settles` | 2 workers, 1 task worker, 1 task row, budget 2, fairness | an owed row is settled in the end |
| `attempts` | 1 run at a time, by claim or by hand, perhaps in the caller's transaction, among workers and an operator who withdraws and reopens; 3 tokens, budget 2, a hook and an `on_failure` | the inductive invariant, of which `HookSeesTheEnd` is a part; `on_failure` is told the truth; implements `Obligation` |
| `answer_lost` (violated) | the same, and COMMIT's answer may be lost | see Disagreements |
| `replayed` | 1 sweep, 1 operator, 1 report; an event of 1 row and one without, batch 1 | the inductive invariant, of which what a report may miss is a part; nothing owed goes, nothing goes early, last successes outlive rows |
| `deleted` | 2 sweeps that stop and die; 2 events with windows of their own, 3 rows, 2 receivers, batch 2, fairness | batches within their size where nobody replays, no wait cycle, what may go does go |
| `relays` | 2 relays, 1 lane of 2 rows, one of which defers and one of which goes to a task queue | the inductive invariant; pauses are kept, told and cleaned; between turns nothing is held but what a queue has, or a failure left |
| `turns` | 1 relay, a lane of 2 rows, one deferring for ever, and one of a task's row, fairness | at most a batch of each other lane between two turns; no lane starves; a stop ends |
| `calls` | lanes of 2 rows and of 1 task's row, budget 2; limits 2, 3 and none; told a moment or not; backoff read or not; fairness | the inductive invariant; the call ends, asks nobody twice who put the row off, keeps its limit, shares it, leaves nothing |
| `fired` | 1 thread, 2 events of 2 classes, 2 open blocks besides receivers and callbacks; one class owed to a receiver of each mode, the other to a durable one; a block that marks one class and one that discards all; a request's block and a job's | the inductive invariant, of which `TypeOK` is a part; owed if and only if committed; callbacks once and after the commit; causes, suppressions, actors and chains that are those of the stack |
| `rollout` | 5 releases, of which one cannot be imported and one fails its check; 2 relays, 2 lanes, 2 receivers, 1 event, 3 deployments, budget 2, fairness | the inductive invariant; no declaration is lost, what is orphaned was named, every row ends |

Why the bounds are enough to mean something. The races of `Delivery` are over one
row: two workers and a task worker, a lapse and a re-claim are what every known
hazard needs, and the second row is there for the batch, whose rest is handed back
while the first row is running or queued. Two stamps let a worker claim the same row
again while its own earlier attempt is remembered. A budget of 2 has a failure that
is retried and one that is not. In `attempts` three tokens are the run's own, the
one it is overtaken by and the one after that. In `Retention` an event has exactly as
many rows as a batch in both runs, which is what sends it to be chunked, and the other
event is deleted whole, with its rows or without any. In `Relay` the first lane has as
many rows as its batch, one of which is left to hand back, or is with the queue while the
other defers; the longest pause is 1, which
separates "ahead" from "passed". In `calls` a limit of 3 makes shares of 2 and 1, one of
2 shares of 1 and 1. In `fired` two blocks are a savepoint in a transaction, or an
attributed or suppressed block around or within one, each with receivers and their fires
between, and two events are a cause and its effect, or one committed and one rolled back;
deeper stacks are what the theorems about `Firing` are for, which hold at any depth. In `rollout` the rows of
different events do not meet, so that one event with two receivers, one of them a
wildcard, is enough, and three deployments delete a receiver, move the other, rename
its event and bring any of it back. Every property of a passing run is violated once
the definition its mutant names is changed as the mutant changes it.

## Fairness

`Delivery!Fairness`: time passes, a process takes the next step it has, and whoever
is again and again in a position to claim a row, to take its message, or to extend
or record it while holding its token, some time does. The strong conditions stand
for three facts about deployments and not about code: relays keep being restarted, a
lease is usually longer than a receiver, and the queue delivers some message. Without
them nothing is ever settled; they are per row, so that no single row can be the one
that is always unlucky. `NotYet` is not among the verdicts of `settles`.

`Retention!FairSpec`: an idle relay sweeps again, and in the end sweeps are not
interrupted. `Relay!FairSpec`: a relay is started again after it returned or died, leases
and backoffs run out, and in the end nobody stops or kills a relay and no claim or attempt
fails. `NoLaneStarves` assumes of each row besides that of the claims that may take it, and
of its attempts or hand-offs, some succeed (`HasItsTurn`); nothing is assumed of the other
rows. Claims that fail for ever starve the later lanes, because a failed claim ends the
pass (`delivery/run_relay.py:241`). A row handed to a queue is done with here: the queue may
lose it, and what brings it back is in `Delivery!Fairness`. `DeliverPending!FairSpec`: the call runs on;
nothing is asked of receivers, so `CallEnds` holds whatever they answer, deferrals
inside a hand-off excepted (see Disagreements). `Rollout!FairSpec`: each process is
restarted in the end on the release that is rolled out, and some relay takes the next
step of each row that is open to one; that there is a relay for every lane a release
declares is an assumption on the constants.

## Proved

`Delivery_proofs` proves, for every set of events, rows, workers, task ids and
stamps, every batch size and budget, under `ConstantsAssumption` alone:

- `TypeCorrect`: `TypeOK`;
- `InvariantCorrect`: `IInv`, from which `OneHolderCorrect`, `CommittedOnceCorrect`
  and `BudgetKeptCorrect` follow;
- `VerdictStandsCorrect`, `AttemptsCountCorrect`, `LiveClaimsCorrect`,
  `StartsOnlyOwedCorrect`, `HandBackCorrect`: the action properties, from `IInv`;
- `Refinement`: `Delivery` implements `Obligation`.

The argument. The fence (`_Fence._owned`) compares the token and not the status, so
"my write lands" implies nothing about the row unless the token itself says it.
`CommittedOnce` is not inductive: a settled row with a holder would be acknowledged
again. What makes it so is `TokenHeld`: whoever still holds the row's token - an
attempt, an unstarted place in a batch, a taken message or one queued - holds a
claimed row, no message and attempt share it, and the attempt's count is the row's.
That needs `Phased` (an attempt is its own owner, and a worker's running row is not
also unstarted), `Carried` (messages carry workers' tokens, so a take always changes
the owner), and `RowsOfEvents` (so that `fire` cannot write over a row somebody
holds). A claim, a take, a requeue and a replay change or clear the token;
the cancel leaves it but touches only rows no one holds; everything else forgets. That
two attempts never share a token needs no clause of its own: each is its own owner.

`DeliverOne_proofs` proves, for every budget and set of tokens, with and without a hook,
an `on_failure` and a caller's transaction, where no COMMIT's answer is lost
(`~AnswerLost`): `InvariantCorrect` (`IInv`), `EffectivelyOnceCorrect`,
`FailureIsToldCorrect`, `HookSeesTheEndCorrect`, and `Refinement`, that one run among
the claims, outcomes, withdrawals and openings of everybody else implements `Obligation`.
There a withdrawn row counts as settled once no direct call is left that loaded it before
(`MayBeUndone`): a cancel leaves the token in place, so such a call still owns the row and
may write its outcome over the withdrawal. A run of a claimed row never can.

The argument. That the work stands as often as the row says is a statement about three
databases: it must hold of what is committed, and of what a rollback of the receiver's
block returns to (`Agree(mark)`). `Unwritten` says that until this run writes, what it
sees of the row is what is committed, so that the fence it evaluates is the fence the
others see. `Held` says what a row it owns is: claimed, if the run claimed it; if it was
loaded by hand, owed and unclaimed, or withdrawn since, since a claim, an opening and an
outcome change the token or need another one (`Placed` carries this over the caller's
transaction). `Standing` and `Marked` say which of the
three agree where; `Following` ties the exception and the hook to the place in the code.
A lost answer breaks `Held` and nothing else: the row has succeeded and is still owned.

`Retention_proofs` proves, for every set of events, rows and receivers with any policies,
any number of sweeps, operators and reports, and every batch size: `InvariantHolds`
(`IInv`, and in it `TypeOK`, `Consistent`, `Ordered` and `MissesOnlyWhatMoved`),
`NothingGoesEarly` (`DeletedOnlyWhenDue`), `NobodyWaitsInACircle` (`NoWaitCycle`), and
`PromiseKept`, that `Retention` implements `Ledger`; and, of the behaviours in which no
replay adds rows to an event that is there (`NoRowsAdded`), `BatchesKeepTheirBudget`
(`BatchBounded`).

The argument. `Consistent` is about what a sweep knows when it deletes. Whether its
events are due was read once, under their locks: from then on `NamesDue` holds, because
only the owed rows of a locked event change, and a due event has none. So the rows it
gathered are still all its events have (`DoomsTheirRows`) with the successes it read
(`TellsTheNewest`), and each receiver among them has that success recorded or is locked
until it will be (`WrittenIsKept`). The delete is then the only step that takes rows,
what it takes was due, and no receiver's newest success falls. `Ordered` is about locks
alone: what a process holds comes before what it still asks for, events before
receivers. Less obvious is why the two passes over the receivers do not cross: a row it
has inserted is unseen by others until it commits, so that an update waits only for
another update, whose lock is on a receiver it is done with (`last[k] # 0` tells the two
apart). In a circle of waiting processes the one that holds the greatest key would wait
for a greater one. The sets are finite, but nothing is counted: a greatest member comes
from the subset order being well founded.

`BatchBounded` is about a count that stops early: the sweep reads no more than
`batch_size` rows to learn how many each event has. An event that fits had all of its own
read. Otherwise the rows of the events before it and those read of it are `batch_size`
already, and its own row is one too many (`FittingIsCounted`). So what the fitting events
cost is what they have, rows and events (`FittingFits`), and from there to the delete
(`BatchesKept`) rows only go, since the one statement that could add some to a live event
is a replay. The hypothesis is needed: with an operator that replays, TLC finds a batch
that grew between the count and the lock (see Disagreements).

`Relay_proofs` proves, for every set of relays, lanes and rows, whatever lanes each relay
serves, claims of any size and pauses of any length: `InvariantHolds` (`IInv`, and in it
`TypeOK`), `NothingHeldBetweenTurns` (`HoldsNothingBetweenTurns`), `RecordsAreTrue`
(`RecordsTellThePauses`), `PausedLanesRest` (`PausedLaneRests`) and `LanesAreShared`
(`LanesShareTheRelay`).

The argument. A row in a relay's hands is one it still has unstarted
(`KnowsWhatItHolds`), and outside a turn it has none (`EmptyBetweenTurns`): a row that is
started leaves its hands with its outcome, with the message of its hand-off, or with the
failure the loop survives, and every way out of a turn passes through the hand-back, after
which a row is free, or left to its lease if the statement was refused. So what bears the
relay's name between turns is with a queue or left, and no later step of the relay writes
to it: a hand-back names the rows of the batch, and those are in hand. A lane that is claimed of, or whose rows run,
is not among the paused (`LaneIsOpen`), because its turn forgot its pause first; so a
deferral adds a pause and never overwrites one that lasts, and a pause ends by the clock
and by nothing else. `RecordsTell` is inductive by itself only because a relay
that sweeps the passed records spares the one it has just written, and because those it
may delete have nothing left, also for the relay that still has them. What it exempts,
`refused`, are the lanes whose record a refused statement or a death left untrue, one by
one, and the next write that goes through takes a lane out again: a relay started anew
under its old name tells its new pauses.

`LanesShareTheRelay` bounds a wait by a sum, and is inductive once the sum is over fewer
lanes (`TurnsKept`): a lane has waited at most a batch of each lane that had a turn since
its own last one (`Since`), counting what is started and what is in hand, and for the lane
about to claim nothing yet. Turns go in the order of the lanes (`InOrder`), so a lane
enters `Since` once before the one that waits is served again, also when a claim fails and
ends the pass in the middle.

`DeliverPending_proofs` proves, for every set of lanes and rows, claims of any size, every
budget and every call: `InvariantHolds` (`IInv`, and in it `TypeOK`),
`LimitIsSpentByAttempts` (`LimitSpentByAttempts`), `LanesHaveTheirShare`
(`LanesGetTheirShare`) and `NothingIsLeftBehind` (`NothingIsLeft`); and, where no row of a
task is deferred inside its hand-off (`Deferring \cap TaskRows = {}`), `AskedOnce`
(`PutOffOnce`). The exception is the one under Disagreements, and is why `IInv` speaks of
the other rows (`PutOffKept`); `MCDeliverPending_calls.cfg` meets the hypothesis.

The argument. The batch is what a turn took and has not started, so that the limit left,
the starts and the batch make up the limit given and what was taken (`LimitKept`). A lane
short of its share has it coming (`ShareKept`): in the batch in hand, or in a turn to come
for which `least` times the lanes that have theirs to come is still there. That survives
the turns of the others because a lane is offered its part of what is left, rounded up,
and a rounded-up part of `n` lanes leaves the `n - 1` others at least as much each. A
rotation that claimed nothing has found its lanes empty (`NothingFound`), of all but what
was fired behind it. A row that was put off is in a closed lane or not due when the call
looks (`NotAgain`); it stays so because a call is told one moment, or lets none pass.

`Firing_proofs` proves, for every number of events and open
blocks, all classes, receivers of any mode and all blocks and actors: `InvariantHolds`
(`IInv`), `TypeCorrect`, `OwedOnlyIfCommitted` (`OwedIffCommitted`), `HooksAfterTheCommit`
(`HooksFollowTheCommit`), `HooksRunOnce` (`EachHookOnce`), `ContextIsTheStack`
(`ContextFollowsTheStack`), `CausesStandWithEffects` (`CausesStand`) and `ChainIsKept`
(`SameChain`).

The argument. What a frame will restore, its token, is what the context variables held of
the frames below it, and each kind of frame changes one variable (`ContextsKept`); so an
exit out of turn would show, and a `fire` reads the cause, actor and chain of the
innermost block of each kind. Even `TypeOK` needs this: that a block can be given a chain
nobody has is a count of the chains in use, each of which some event or frame accounts
for. Frames carry the number of events and of callbacks there were when they were entered
(`Dated`), which is how a rollback knows its own: an event is `written` exactly while an
atomic block opened before it is open (`EventsKept`), is `committed` with it, and
`FrameKept` says of each `firing` frame which of the two its event is. The callbacks
registered before a block belong to events before it and stay (`mark`), the others go with
theirs. A cause is an earlier event whose receiver is on the stack, hence committed, or
written in a transaction that the effect is in (`Decided`). Chains only get further in:
a frame's is its predecessor's unless that was none or user code named another (`Inner`,
`Follows`). A callback waits in one place, among those registered or in one list being
run (`Apart`); what a `fire` has to register, it has registered, or the frame has still
to (`Registers`), or it has run once (`HookKept`).

`Rollout_proofs` proves, for every set of releases, whatever each declares in whatever
order, any processes and lanes, and any number of events, deployments and reopenings:
`InvariantHolds` (`IInv`, and in it `TypeOK` and `EveryDeclarationStands`) and
`AnnouncedWhenDeployed` (`AnnouncedAtDeploy`). Its `ConstantsAssumption` gives declarations
their types and says that the first release had passed its own checks and that
`max_attempts` is not 0.

The argument. That no declaration is lost is about a fold: after each declaration that is
not refused every one so far is found under its key or name, and a class's entry is the
one its name leads back to (`Whole`), which the clash checks are just enough for: a name
may be registered again, with another version, but by its own class alone. What runs
passed the checks of its deployment (`Checked`), so its whole list was imported. The
announcement holds because a check and what a release does with a row read the same two
registries, and what they read of the row, its receiver and the name of its event, is
never written again (`Named`); only what counts as owed could tell them apart.

Two things are common to these. Sums, folds and least members of any finite set are dealt
with without an induction theorem: of all the subsets, or places in a sequence, at which a
claim would fail take a smallest one, by the well-foundedness of the subset order, and it
does not fail (`Extremes`, and the first part of `Rollout_proofs`).
No theorem assumes of the constants more than its module's `ConstantsAssumption`,
but for the hypotheses named here (`~AnswerLost`, `NoRowsAdded`, and that of `AskedOnce`).

## Only model-checked

Liveness (`OwedIsSettled`, `DueIsDeleted`, `NoLaneStarves`, `StopEnds`, `CallEnds`,
`RowsDrain`) is beyond the prover. Every other property that a passing run checks is
proved. `BatchBounded` with replays and `PutOffOnce` where a task's row is deferred inside
its hand-off do not hold, as the next section says. `NoDuplicate` fails, which is what
`answer_lost` is for.

## Disagreements with the documentation

- `answer_lost`. When the connection is lost after the server committed and before it
  answered COMMIT, `atomic()` raises and `mark_committed` has not run. `except Exception`
  (`deliver.py:290`) takes it for the receiver's failure, and the failure is written over
  the success, because the fence compares the token, which a success leaves in place, and
  not the status. The row is run again and the work stands twice; `deliver_one` says
  (`deliver.py:61`) that for a receiver touching only this database "the duplicate
  at-least-once owes you cannot be observed", and so does `docs/delivery.md:31`.
- Not a run: `quiet_receivers` reads the remembered successes and then the live rows, in
  statements of their own. A sweep that commits in between moves the newest success from
  the second to the first after the first was read, and the report misses it, although
  `quiet_receivers.py:42` says "a receiver whose every event has been pruned still
  reports when it last ran". The next report has it: `MissesOnlyWhatMoved`.
- Not a run: a direct `deliver_one` takes the owner it reads for its own
  (`deliver.py:514`), so on a row a relay is running, or called twice at once, both
  acknowledgements land. `DeliverOne!Call` is made on a row nobody holds claimed, one at a
  time. One that loaded a PENDING or FAILED row before a cancel writes over the cancellation,
  since the cancel keeps the token and the fence does not read the status:
  `DeliverOne!Cancel` has it, and `MayBeUndone` says until when.
- Not a run: `docs/scope.md:87` says an event a receiver fires "stays in the same chain".
  `fire.py:164` prefers the enclosing scope's chain to the inherited one, so a receiver
  that runs where its caller has named a chain (an `ON_COMMIT` or eager one at the commit
  of another block, or a drain inside one) fires into that chain and not its event's.
  `SameChain` excepts the chains user code names, and holds of all the others.
- Not a run: `docs/operations.md:260` says a relay that lost a row of its batch finds it
  gone when it extends the lease, before running it. The ownership check is inside
  `status == CLAIMED` (`deliver.py:155`); a row the other relay has meanwhile failed or
  rescheduled is run, and lost at its last write. In `Delivery`, `Begin` goes on with a
  row that is owed and not claimed, whoever failed it.
- Not a run: `drain_outbox` and the comment at `deliver.py:1136` say a deferral is not
  claimed again in the call. A task that a backend runs inside the hand-off and that
  defers tells the pass nothing, and with the backoff ignored its row is handed off
  again until `give_up_after`. Put row 3 into `Deferring` in `MCDeliverPending_calls.cfg`
  and `PutOffOnce` and `CallEnds` fail on this path.
- Not a run: `prune_events` "deletes in batches of at most `batch_size` rows ... so one
  transaction's lock and write volume stay bounded" (`operations/prune_events.py:62`). The
  rows are counted before the events are locked (`prune_events.py:209`), so that rows a
  replay adds in between, and workers settle, are deleted on top. Give
  `MCRetention_deleted.cfg` an operator and `BatchBounded` fails on this path; without
  replays it is proved.
- Not a run: what W001 and W002 announce is what is owed when they run. A row an old process fires
  after that, or a dead one requeued later, may be orphaned unannounced, and an old relay
  dead-letters a payload newer than itself that lacks a field it requires; the latter is
  documented, the former is what a check at one moment can say.

## Not modelled

- `delivery/wake.py`: a wake-up only shortens a wait that ends by itself.
- `scope/propagate_scope.py` and threads a program starts itself: values copied at one
  moment, with nothing shared after it.
- The decorators' checks of their own arguments, the checks of settings and of the
  database (`checks.py` but for E001, W001 and W002), `settings.py`, codecs but for what
  they refuse, catalogue, admin, commands, testing helpers, migrations: configuration,
  conversion and rendering, with no state that changes between processes.
- `examples/`: an application that uses the package.
- The adapters of `delivery/*_backend.py`: one call each.

## Plan

Done, in order: `Delivery` with `Obligation` and its proofs; `Retention` with `Ledger`;
`Relay`; `DeliverPending`; `Firing`; `DeliverOne` and its proofs; attribution in `Firing`;
`Rollout`; the proofs about `Retention`, `Relay`, `Firing`, `DeliverPending` and `Rollout`.
Next, most important first:

1. An abstract specification of `Firing` (owed if and only if committed) that its steps
   implement, and of a deployment for `Rollout`.
2. Waking in `Relay`: the notification against the wait it ends.
3. Pure parts as operators against reference definitions: `claim_lease_seconds` with its
   headroom and band, the backoff, replay's choice of rows per target.
4. The schedule of `due=` against replay and health counts.
