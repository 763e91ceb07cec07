-------------------------- MODULE Retention_proofs --------------------------
(* Theorems about Retention, for every set of events, rows, receivers and  *)
(* processes, every policy and every batch size.                           *)
EXTENDS Retention, Extremes

-----------------------------------------------------------------------------
(* The newest success of a receiver.                                       *)

\* NewestOf, for any state of the rows.
NewestIn(table, k, S) == Max({0} \cup {table[r].succ : r \in {q \in S : KeyOf[q] = k}})

LEMMA NewestOfIsNewestIn ==
  ASSUME NEW k, NEW S
  PROVE  NewestOf(k, S) = NewestIn(row, k, S)
BY DEF NewestOf, NewestIn

\* It is one of theirs or 0, and none of theirs is newer.
LEMMA NewestInIs ==
  ASSUME NEW table \in [Rows -> Row], NEW k \in Keys, NEW S \in SUBSET Rows
  PROVE  /\ NewestIn(table, k, S) \in Times \cup {0}
         /\ \A r \in S : KeyOf[r] = k => table[r].succ <= NewestIn(table, k, S)
         /\ \/ NewestIn(table, k, S) = 0
            \/ \E r \in S : KeyOf[r] = k /\ table[r].succ = NewestIn(table, k, S)
<1> DEFINE Q == {q \in S : KeyOf[q] = k}
           Succs == {table[r].succ : r \in Q}
           All == {0} \cup Succs
<1>1. IsFiniteSet(Succs)
  <2>1. IsFiniteSet(Q)
    BY ConstantsAssumption, FS_Subset
  <2>2. [r \in Q |-> table[r].succ] \in Surjection(Q, Succs)
    BY DEF Surjection
  <2> HIDE DEF Q, Succs
  <2> QED
    BY <2>1, <2>2, FS_Surjection
<1>2. IsFiniteSet(All)
  <2>1. IsFiniteSet(Succs \cup {0}) /\ Succs \cup {0} = All
    BY <1>1, FS_AddElement
  <2> HIDE DEF All
  <2> QED
    BY <2>1
<1>3. \A x \in All : x \in Times \cup {0}
  BY DEF Row
<1>4. Numbers(All) /\ All # {}
  <2>1. All # {} /\ \A x \in Times \cup {0} : x \in Nat
    BY ConstantsAssumption
  <2> HIDE DEF All
  <2> QED
    BY <1>3, <2>1 DEF Numbers
<1>5. Max(All) \in All /\ \A y \in All : Max(All) >= y
  <2> HIDE DEF All
  <2> QED
    BY <1>2, <1>4, MaxIsGreatest
<1>6. NewestIn(table, k, S) = Max(All)
  BY DEF NewestIn
<1>7. \A r \in S : KeyOf[r] = k => table[r].succ \in All
  OBVIOUS
<1>8. \A x \in All : x = 0 \/ \E r \in S : KeyOf[r] = k /\ table[r].succ = x
  OBVIOUS
<1> HIDE DEF All
<1>9. All \subseteq Nat
  BY <1>4 DEF Numbers
<1> QED
  BY <1>3, <1>5, <1>6, <1>7, <1>8, <1>9

LEMMA SuccIsTime ==
  ASSUME NEW table \in [Rows -> Row], NEW r \in Rows
  PROVE  table[r].succ \in Times \cup {0} /\ table[r].succ \in Nat
<1>1. table[r].succ \in Times \cup {0}
  BY DEF Row
<1>2. \A x \in Times \cup {0} : x \in Nat
  BY ConstantsAssumption
<1> QED
  BY <1>1, <1>2

LEMMA NewestInAtMost ==
  ASSUME NEW table \in [Rows -> Row], NEW k \in Keys, NEW S \in SUBSET Rows,
         NEW bound \in Nat, \A r \in S : KeyOf[r] = k => table[r].succ <= bound
  PROVE  NewestIn(table, k, S) <= bound
<1> DEFINE newest == NewestIn(table, k, S)
<1>1. newest = 0 \/ \E r \in S : KeyOf[r] = k /\ table[r].succ = newest
  BY NewestInIs
<1>2. CASE newest = 0
  BY <1>2
<1>3. CASE \E r \in S : KeyOf[r] = k /\ table[r].succ = newest
  BY <1>3
<1> QED
  BY <1>1, <1>2, <1>3

LEMMA NewestInNat ==
  ASSUME NEW table \in [Rows -> Row], NEW k \in Keys, NEW S \in SUBSET Rows
  PROVE  NewestIn(table, k, S) \in Nat
<1>1. \A x \in Times \cup {0} : x \in Nat
  BY ConstantsAssumption
<1> QED
  BY <1>1, NewestInIs

\* Rows that stay, or only gain a success, have as new a success.
LEMMA NewestInGrows ==
  ASSUME NEW before \in [Rows -> Row], NEW after \in [Rows -> Row], NEW k \in Keys,
         NEW S \in SUBSET Rows, \A r \in S : before[r].succ <= after[r].succ
  PROVE  NewestIn(before, k, S) <= NewestIn(after, k, S)
<1>1. NewestIn(after, k, S) \in Nat
  BY NewestInNat
<1>2. \A r \in S : before[r].succ \in Nat /\ after[r].succ \in Nat
  BY SuccIsTime
<1>3. \A r \in S : KeyOf[r] = k => before[r].succ <= NewestIn(after, k, S)
  <2> SUFFICES ASSUME NEW r \in S, KeyOf[r] = k PROVE before[r].succ <= NewestIn(after, k, S)
    OBVIOUS
  <2>1. after[r].succ <= NewestIn(after, k, S)
    BY NewestInIs
  <2> QED
    BY <1>1, <1>2, <2>1
<1> QED
  BY <1>1, <1>3, NewestInAtMost

LEMMA NewestInSame ==
  ASSUME NEW before \in [Rows -> Row], NEW after \in [Rows -> Row], NEW k \in Keys,
         NEW S \in SUBSET Rows, \A r \in S : before[r].succ = after[r].succ
  PROVE  NewestIn(before, k, S) = NewestIn(after, k, S)
<1>1. \A r \in S : before[r].succ \in Nat /\ after[r].succ \in Nat
  BY SuccIsTime
<1>2. NewestIn(before, k, S) \in Nat /\ NewestIn(after, k, S) \in Nat
  BY NewestInNat
<1>3. NewestIn(before, k, S) <= NewestIn(after, k, S)
  BY <1>1, NewestInGrows
<1>4. NewestIn(after, k, S) <= NewestIn(before, k, S)
  BY <1>1, NewestInGrows
<1> QED
  BY <1>2, <1>3, <1>4

-----------------------------------------------------------------------------
(* What the steps of others leave alone.                                   *)

\* What is due owes nothing.
LEMMA DueOwesNothing ==
  ASSUME NEW e \in Events, NEW arm, Due(arm, e), NEW r \in RowsOf(e)
  PROVE  row[r].status # "owed"
BY DEF Due, Consumed, Settled, Live, RowsOf, Terminal

\* An event stays due while it is there, no window is taken back and nobody
\* touches a row of it that is not owed.
LEMMA DueStays ==
  ASSUME NEW e \in Events, NEW arm, Due(arm, e),
         event'[e] = "live", aged[e] \subseteq aged'[e],
         \A r \in RowsOf(e) : row[r].status # "owed" => row'[r] = row[r]
  PROVE  Due(arm, e)' /\ \A r \in RowsOf(e) : row'[r] = row[r]
<1>1. \A r \in RowsOf(e) : row'[r] = row[r]
  BY DueOwesNothing
<1>2. Settled(e) => Settled(e)'
  BY <1>1 DEF Settled, Live, RowsOf
<1>3. Consumed(e) => Consumed(e)'
  BY <1>1 DEF Consumed, Live, RowsOf
<1> QED
  BY <1>1, <1>2, <1>3 DEF Due

\* A process is as sound as it was after a step that is not its own, if that
\* leaves alone what it has locked, but for what is owed there, and forgets no
\* success.
LEMMA OthersStaySound ==
  ASSUME TypeOK, TypeOK', NEW p \in Procs, Sound(p), pc'[p] = pc[p], job'[p] = job[p],
         \A e \in job[p].locked : lock'[e] = p /\ event'[e] = "live" /\ aged[e] \subseteq aged'[e],
         \A r \in Rows : EventOf[r] \in job[p].locked /\ row[r].status # "owed" => row'[r] = row[r],
         \A k \in Keys : last[k] <= last'[k] /\ (klock[k] = p => klock'[k] = p)
  PROVE  Sound(p)'
<1>1. job[p] \in Job
  BY DEF TypeOK
<1>2. Holding(p)' /\ NamesSome(p)'
  BY DEF Sound, Holding, NamesSome
<1>3. ASSUME pc[p] \in {"gathering", "inserting", "updating"}, NEW e \in job[p].ids
      PROVE  /\ e \in job[p].locked /\ Due(Arms[job[p].arm], e)'
             /\ \A r \in RowsOf(e) : row'[r] = row[r]
  <2>1. e \in Events /\ e \in job[p].locked /\ Due(Arms[job[p].arm], e)
    BY <1>1, <1>3 DEF Sound, NamesDue, Job
  <2>2. \A r \in RowsOf(e) : row[r].status # "owed" => row'[r] = row[r]
    BY <2>1 DEF RowsOf
  <2>3. event'[e] = "live" /\ aged[e] \subseteq aged'[e]
    BY <2>1
  <2> HIDE DEF Arms
  <2> QED
    BY <2>1, <2>2, <2>3, DueStays
<1>4. NamesDue(p)'
  BY <1>3 DEF NamesDue
<1>5. DoomsTheirRows(p)'
  BY <1>3 DEF Sound, DoomsTheirRows, RowsOf
<1>6. TellsTheNewest(p)'
  <2> SUFFICES ASSUME pc[p] \in {"inserting", "updating"}, NEW k \in Keys
               PROVE  job[p].newest[k] = NewestIn(row', k, job[p].doomed)
    BY NewestOfIsNewestIn DEF TellsTheNewest, NewestOf, NewestIn
  <2>1. job[p].newest[k] = NewestIn(row, k, job[p].doomed)
    BY NewestOfIsNewestIn DEF Sound, TellsTheNewest
  <2>2. \A r \in job[p].doomed : row'[r] = row[r]
    BY <1>1, <1>3 DEF Sound, DoomsTheirRows, RowsOf, Job
  <2>3. job[p].doomed \in SUBSET Rows /\ row \in [Rows -> Row] /\ row' \in [Rows -> Row]
    BY <1>1 DEF TypeOK, Job
  <2> QED
    BY <2>1, <2>2, <2>3, NewestInSame
<1>7. WrittenIsKept(p)'
  <2> SUFFICES ASSUME pc[p] = "updating", NEW k \in job[p].written
               PROVE  last'[k] >= job[p].newest[k] \/ klock'[k] = p
    BY DEF WrittenIsKept
  <2>1. k \in Keys /\ (last[k] >= job[p].newest[k] \/ klock[k] = p)
    BY <1>1 DEF Sound, WrittenIsKept, Job
  <2>2. last[k] \in Nat /\ last'[k] \in Nat /\ job[p].newest[k] \in Nat
    <3>1. \A x \in Times \cup {0} : x \in Nat
      BY ConstantsAssumption
    <3>2. last[k] \in Times \cup {0} /\ last'[k] \in Times \cup {0} /\ job[p].newest[k] \in Times \cup {0}
      BY <1>1, <2>1 DEF TypeOK, Job
    <3> QED
      BY <3>1, <3>2
  <2> QED
    BY <2>1, <2>2
<1> QED
  BY <1>2, <1>4, <1>5, <1>6, <1>7 DEF Sound

\* A step of p: the others are where they were, and keep their locks.
StepOf(p) ==
  /\ \A q \in Procs \ {p} : pc'[q] = pc[q] /\ job'[q] = job[q]
  /\ \A e \in Events : lock[e] \notin {Nobody, p} => lock'[e] = lock[e]
  /\ \A k \in Keys : klock[k] \notin {Nobody, p} => klock'[k] = klock[k]

LEMMA TimesAreNumbers == \A x \in Times \cup {0} : x \in Nat
BY ConstantsAssumption

\* What p has not locked, and no row that is owed, it changes.
LEMMA StepLeavesOthersSound ==
  ASSUME Consistent, TypeOK', NEW p \in Procs, StepOf(p),
         \A e \in Events : lock[e] # p => event'[e] = event[e],
         \A e \in Events : aged[e] \subseteq aged'[e],
         \A r \in Rows : lock[EventOf[r]] # p => row'[r] = row[r],
         \A k \in Keys : last[k] <= last'[k]
  PROVE  \A q \in Procs \ {p} : Sound(q)'
<1> SUFFICES ASSUME NEW q \in Procs \ {p} PROVE Sound(q)'
  OBVIOUS
<1>1. Sound(q) /\ pc'[q] = pc[q] /\ job'[q] = job[q] /\ job[q].locked \subseteq Events
  BY DEF Consistent, StepOf, TypeOK, Job
<1>2. q \notin {Nobody, p}
  BY ConstantsAssumption
<1>3. \A e \in job[q].locked : lock[e] = q /\ event[e] = "live"
  BY <1>1 DEF Sound, Holding
<1>4. \A e \in job[q].locked : lock'[e] = q /\ event'[e] = "live" /\ aged[e] \subseteq aged'[e]
  BY <1>1, <1>2, <1>3 DEF StepOf
<1>5. \A r \in Rows : EventOf[r] \in job[q].locked /\ row[r].status # "owed" => row'[r] = row[r]
  BY <1>2, <1>3
<1>6. \A k \in Keys : last[k] <= last'[k] /\ (klock[k] = q => klock'[k] = q)
  BY <1>2 DEF StepOf
<1> QED
  BY <1>1, <1>4, <1>5, <1>6, OthersStaySound DEF Consistent

\* So it is enough, for a step that touches no table, that its own process is sound.
LEMMA StepKeepsConsistent ==
  ASSUME Consistent, TypeOK', NEW p \in Procs, StepOf(p), Sound(p)',
         UNCHANGED <<event, row, aged, last, report>>
  PROVE  Consistent'
<1>1. \A k \in Keys : last[k] <= last'[k]
  BY TimesAreNumbers DEF Consistent, TypeOK
<1>2. \A q \in Procs \ {p} : Sound(q)'
  BY <1>1, StepLeavesOthersSound
<1>3. RowsHaveEvents' /\ AbsentIsBlank'
  BY DEF Consistent, RowsHaveEvents, AbsentIsBlank
<1>4. ReportsAreBehind'
  BY DEF Consistent, ReportsAreBehind, Newest, NewestOf
<1> QED
  BY <1>2, <1>3, <1>4 DEF Consistent

\* A process that has locked nothing yet, and deletes nothing yet, is sound.
LEMMA FreshIsSound ==
  ASSUME NEW p \in Procs, job'[p].locked = {}, pc'[p] \in {"idle", "selecting", "locking"}
  PROVE  Sound(p)'
BY DEF Sound, Holding, NamesSome, NamesDue, DoomsTheirRows, TellsTheNewest, WrittenIsKept

-----------------------------------------------------------------------------
(* What a process has read.                                                *)

LEMMA NoJobType == NoJob \in Job /\ NoJob.locked = {} /\ NoJob.ids = {}
BY DEF NoJob, Job, Arms

LEMMA GoesIs ==
  ASSUME TypeOK, NEW p \in Procs, NEW j \in Job, NEW phase, Goes(p, phase, j),
         phase \in {"idle", "selecting", "counting", "locking",
                    "gathering", "inserting", "updating", "deleting"}
  PROVE  /\ pc' \in [Procs -> {"idle", "selecting", "counting", "locking",
                               "gathering", "inserting", "updating", "deleting"}]
         /\ job' \in [Procs -> Job]
         /\ pc'[p] = phase /\ job'[p] = j
         /\ \A q \in Procs \ {p} : pc'[q] = pc[q] /\ job'[q] = job[q]
BY DEF TypeOK, Goes

LEMMA NextArmResets ==
  ASSUME TypeOK, NEW p \in Procs, NextArm(p)
  PROVE  /\ pc' \in [Procs -> {"idle", "selecting", "counting", "locking",
                               "gathering", "inserting", "updating", "deleting"}]
         /\ job' \in [Procs -> Job]
         /\ pc'[p] \in {"idle", "selecting"} /\ job'[p].locked = {}
         /\ \A q \in Procs \ {p} : pc'[q] = pc[q] /\ job'[q] = job[q]
<1> DEFINE next == [NoJob EXCEPT !.arm = job[p].arm + 1]
<1>1. CASE job[p].arm < Len(Arms)
  <2>1. next \in Job /\ next.locked = {}
    <3>1. job[p] \in Job /\ Len(Arms) = 4
      BY DEF TypeOK, Arms
    <3>2. job[p].arm + 1 \in 1..Len(Arms)
      BY <1>1, <3>1 DEF Job
    <3> QED
      BY <3>2, NoJobType DEF Job, NoJob
  <2>2. Goes(p, "selecting", next)
    BY <1>1 DEF NextArm
  <2> HIDE DEF next
  <2> QED
    BY <2>1, <2>2, GoesIs
<1>2. CASE ~(job[p].arm < Len(Arms))
  <2>1. Goes(p, "idle", NoJob)
    BY <1>2 DEF NextArm
  <2> QED
    BY <2>1, NoJobType, GoesIs
<1> QED
  BY <1>1, <1>2

LEMMA ReleaseIs ==
  ASSUME TypeOK, NEW p \in Procs, Release(p)
  PROVE  /\ lock' \in [Events -> Procs \cup {Nobody}]
         /\ klock' \in [Keys -> Procs \cup {Nobody}]
         /\ \A e \in Events : lock[e] \notin {Nobody, p} => lock'[e] = lock[e]
         /\ \A k \in Keys : klock[k] \notin {Nobody, p} => klock'[k] = klock[k]
BY DEF TypeOK, Release

-----------------------------------------------------------------------------
(* Init, and the steps that touch no table.                                *)

\* Every initial state is consistent.
THEOREM InitSound == Init => Consistent
<1> SUFFICES ASSUME Init PROVE Consistent
  OBVIOUS
<1>1. TypeOK
  BY NoJobType DEF Init, TypeOK, Row, Absent
<1>2. RowsHaveEvents /\ AbsentIsBlank /\ ReportsAreBehind
  BY DEF Init, RowsHaveEvents, AbsentIsBlank, ReportsAreBehind, Absent
<1>3. \A p \in Procs : Sound(p)
  BY NoJobType DEF Init, Sound, Holding, NamesSome, NamesDue, DoomsTheirRows,
                  TellsTheNewest, WrittenIsKept
<1> QED
  BY <1>1, <1>2, <1>3 DEF Consistent

LEMMA AskSound ==
  ASSUME Consistent, NEW o \in Operators, NEW ids \in SUBSET Events, NEW rows \in SUBSET Rows,
         NEW write \in {"replay", "requeue", "cancel"}, Ask(o, write, ids, rows)
  PROVE  Consistent'
<1> DEFINE j == [NoJob EXCEPT !.write = write, !.ids = ids, !.rows = rows]
<1>1. j \in Job /\ j.locked = {}
  BY NoJobType DEF NoJob, Job
<1>2. o \in Procs /\ Goes(o, "locking", j) /\ UNCHANGED <<event, row, aged, last, lock, klock, report>>
  BY DEF Ask, Goes, Procs
<1> HIDE DEF j
<1>3. TypeOK' /\ StepOf(o) /\ pc'[o] = "locking" /\ job'[o] = j
  BY <1>1, <1>2, GoesIs DEF Consistent, TypeOK, StepOf
<1>4. Sound(o)'
  BY <1>1, <1>2, <1>3, FreshIsSound
<1> QED
  BY <1>2, <1>3, <1>4, StepKeepsConsistent

LEMMA LockSound ==
  ASSUME Consistent, NEW p \in Procs, NEW e \in Events, Lock(p, e)
  PROVE  Consistent'
<1>1. job[p] \in Job /\ pc[p] = "locking" /\ pc' = pc /\ Sound(p)
  BY DEF Consistent, TypeOK, Lock
<1>2. UNCHANGED <<event, row, aged, last, report>>
  BY DEF Lock
<1>3. CASE event[e] = "live"
  <2> DEFINE j == [job[p] EXCEPT !.locked = job[p].locked \cup {e}]
  <2>1. j \in Job /\ j.locked = job[p].locked \cup {e}
    BY <1>1 DEF Job
  <2>2. job' = [job EXCEPT ![p] = j] /\ lock' = [lock EXCEPT ![e] = p] /\ lock[e] = Nobody
    BY <1>3 DEF Lock, Free
  <2> HIDE DEF j
  <2>3. TypeOK' /\ StepOf(p) /\ job'[p] = j /\ lock'[e] = p
    BY <2>1, <2>2 DEF Consistent, TypeOK, StepOf, Lock
  <2>4. \A f \in job[p].locked : lock'[f] = p /\ event[f] = "live"
    BY <1>1, <2>2 DEF Sound, Holding, Consistent, TypeOK, Job
  <2>5. Holding(p)'
    BY <1>2, <1>3, <2>1, <2>3, <2>4 DEF Holding
  <2>6. Sound(p)'
    BY <1>1, <2>5 DEF Sound, NamesSome, NamesDue, DoomsTheirRows, TellsTheNewest, WrittenIsKept
  <2> QED
    BY <1>2, <2>3, <2>6, StepKeepsConsistent
<1>4. CASE event[e] # "live"
  <2> DEFINE j == [job[p] EXCEPT !.ids = job[p].ids \ {e}]
  <2>1. j \in Job /\ j.locked = job[p].locked
    BY <1>1 DEF Job
  <2>2. job' = [job EXCEPT ![p] = j] /\ lock' = lock
    BY <1>4 DEF Lock
  <2> HIDE DEF j
  <2>3. TypeOK' /\ StepOf(p) /\ job'[p] = j
    BY <2>1, <2>2 DEF Consistent, TypeOK, StepOf, Lock
  <2>4. Holding(p)'
    BY <1>1, <1>2, <2>1, <2>2, <2>3 DEF Holding, Sound
  <2>5. Sound(p)'
    BY <1>1, <2>4 DEF Sound, NamesSome, NamesDue, DoomsTheirRows, TellsTheNewest, WrittenIsKept
  <2> QED
    BY <1>2, <2>3, <2>5, StepKeepsConsistent
<1> QED
  BY <1>3, <1>4

LEMMA CrashSound ==
  ASSUME Consistent, NEW p \in Procs, Crash(p)
  PROVE  Consistent'
<1>1. Goes(p, "idle", NoJob) /\ Release(p) /\ UNCHANGED <<event, row, aged, last, report>>
  BY DEF Crash, Goes
<1>2. TypeOK' /\ StepOf(p) /\ pc'[p] = "idle" /\ job'[p] = NoJob
  BY <1>1, NoJobType, GoesIs, ReleaseIs DEF Consistent, TypeOK, StepOf
<1>3. Sound(p)'
  BY <1>2, NoJobType, FreshIsSound
<1> QED
  BY <1>1, <1>2, <1>3, StepKeepsConsistent

LEMMA PruneSound ==
  ASSUME Consistent, NEW p \in Procs, Prune(p) \/ Stop(p)
  PROVE  Consistent'
<1>1. PICK phase \in {"selecting", "idle"} : Goes(p, phase, NoJob)
  BY DEF Prune, Stop
<1>2. UNCHANGED <<event, row, aged, last, lock, klock, report>>
  BY DEF Prune, Stop
<1>3. TypeOK' /\ StepOf(p) /\ pc'[p] = phase /\ job'[p] = NoJob
  BY <1>1, <1>2, NoJobType, GoesIs DEF Consistent, TypeOK, StepOf
<1>4. Sound(p)'
  BY <1>3, NoJobType, FreshIsSound
<1> QED
  BY <1>2, <1>3, <1>4, StepKeepsConsistent

LEMMA NothingDueSound ==
  ASSUME Consistent, NEW p \in Procs, NothingDue(p)
  PROVE  Consistent'
<1>1. NextArm(p) /\ UNCHANGED <<event, row, aged, last, lock, klock, report>>
  BY DEF NothingDue
<1>2. TypeOK' /\ StepOf(p) /\ pc'[p] \in {"idle", "selecting"} /\ job'[p].locked = {}
  BY <1>1, NextArmResets DEF Consistent, TypeOK, StepOf
<1>3. Sound(p)'
  BY <1>2, FreshIsSound
<1> QED
  BY <1>1, <1>2, <1>3, StepKeepsConsistent

LEMMA SelectSound ==
  ASSUME Consistent, NEW p \in Procs, Select(p)
  PROVE  Consistent'
<1>1. PICK S \in SUBSET DueNow(p) : S # {} /\ Goes(p, "counting", [job[p] EXCEPT !.ids = S])
  BY DEF Select
<1> DEFINE j == [job[p] EXCEPT !.ids = S]
<1>2. job[p] \in Job /\ S \subseteq Events /\ Sound(p)
  BY DEF Consistent, TypeOK, DueNow
<1>3. j \in Job /\ j.locked = job[p].locked /\ j.ids = S
  BY <1>2 DEF Job
<1>4. Goes(p, "counting", j) /\ UNCHANGED <<event, row, aged, last, lock, klock, report>>
  BY <1>1 DEF Select
<1> HIDE DEF j
<1>5. TypeOK' /\ StepOf(p) /\ pc'[p] = "counting" /\ job'[p] = j
  BY <1>3, <1>4, GoesIs DEF Consistent, TypeOK, StepOf
<1>6. Sound(p)'
  BY <1>1, <1>2, <1>3, <1>4, <1>5
     DEF Sound, Holding, NamesSome, NamesDue, DoomsTheirRows, TellsTheNewest, WrittenIsKept
<1> QED
  BY <1>4, <1>5, <1>6, StepKeepsConsistent

LEMMA CountSound ==
  ASSUME Consistent, NEW p \in Procs, Count(p)
  PROVE  Consistent'
<1> DEFINE ids == IF Chunked(job[p].ids) THEN {Min(job[p].ids)} ELSE Fitting(job[p].ids)
           j == [job[p] EXCEPT !.chunk = Chunked(job[p].ids), !.ids = ids]
<1>1. job[p] \in Job /\ Sound(p) /\ pc[p] = "counting"
  BY DEF Consistent, TypeOK, Count
<1>2. Min(job[p].ids) \in job[p].ids
  <2>1. IsFiniteSet(job[p].ids) /\ job[p].ids # {}
    <3>1. job[p].ids \in SUBSET Events /\ job[p].ids # {}
      BY <1>1 DEF Sound, NamesSome, Job
    <3> QED
      BY <3>1, ConstantsAssumption, FS_Subset
  <2>2. Numbers(job[p].ids)
    BY <1>1, ConstantsAssumption DEF Numbers, Job
  <2> QED
    BY <2>1, <2>2, MinIsLeast
<1>3. ids \in SUBSET Events
  BY <1>1, <1>2 DEF Fitting, Job
<1>4. Chunked(job[p].ids) \in BOOLEAN
  BY DEF Chunked
<1>5. j \in Job /\ j.locked = job[p].locked
  BY <1>1, <1>3, <1>4 DEF Job
<1>6. Goes(p, "locking", j) /\ UNCHANGED <<event, row, aged, last, lock, klock, report>>
  BY DEF Count
<1> HIDE DEF j
<1>7. TypeOK' /\ StepOf(p) /\ pc'[p] = "locking" /\ job'[p] = j
  BY <1>5, <1>6, GoesIs DEF Consistent, TypeOK, StepOf
<1>8. Sound(p)'
  BY <1>1, <1>5, <1>6, <1>7
     DEF Sound, Holding, NamesSome, NamesDue, DoomsTheirRows, TellsTheNewest, WrittenIsKept
<1> QED
  BY <1>6, <1>7, <1>8, StepKeepsConsistent

LEMMA RecheckSound ==
  ASSUME Consistent, NEW p \in Procs, Recheck(p)
  PROVE  Consistent'
<1>1. UNCHANGED <<event, row, aged, last, report>>
  BY DEF Recheck
<1>2. CASE job[p].chunk /\ StillDue(p) = {}
  <2>1. NextArm(p) /\ Release(p)
    BY <1>2 DEF Recheck
  <2>2. TypeOK' /\ StepOf(p) /\ pc'[p] \in {"idle", "selecting"} /\ job'[p].locked = {}
    BY <1>1, <2>1, NextArmResets, ReleaseIs DEF Consistent, TypeOK, StepOf
  <2>3. Sound(p)'
    BY <2>2, FreshIsSound
  <2> QED
    BY <1>1, <2>2, <2>3, StepKeepsConsistent
<1>3. CASE ~(job[p].chunk /\ StillDue(p) = {})
  <2> DEFINE j == [job[p] EXCEPT !.ids = StillDue(p)]
  <2>1. job[p] \in Job /\ Sound(p)
    BY DEF Consistent, TypeOK
  <2>2. j \in Job /\ j.locked = job[p].locked /\ j.arm = job[p].arm
        /\ j.ids = StillDue(p) /\ j.chunk = job[p].chunk
    BY <2>1 DEF Job, StillDue
  <2>3. Goes(p, "gathering", j) /\ UNCHANGED <<event, row, aged, last, lock, klock, report>>
    BY <1>3 DEF Recheck
  <2> HIDE DEF j
  <2>4. TypeOK' /\ StepOf(p) /\ pc'[p] = "gathering" /\ job'[p] = j
    BY <2>2, <2>3, GoesIs DEF Consistent, TypeOK, StepOf
  <2>5. Holding(p)' /\ NamesSome(p)'
    BY <1>3, <2>1, <2>2, <2>3, <2>4 DEF Sound, Holding, NamesSome
  <2>6. \A e \in StillDue(p) : e \in job[p].locked /\ Due(Arms[job[p].arm], e)
    BY DEF StillDue
  <2>7. NamesDue(p)'
    BY <2>2, <2>3, <2>4, <2>6 DEF NamesDue, Due, Settled, Consumed, Live
  <2>8. Sound(p)'
    BY <2>4, <2>5, <2>7 DEF Sound, DoomsTheirRows, TellsTheNewest, WrittenIsKept
  <2> QED
    BY <2>3, <2>4, <2>8, StepKeepsConsistent
<1> QED
  BY <1>2, <1>3

LEMMA GatherSound ==
  ASSUME Consistent, NEW p \in Procs, Gather(p)
  PROVE  Consistent'
<1> DEFINE S == Doomed(p)
           newest == [k \in Keys |-> NewestOf(k, S)]
           j == [job[p] EXCEPT !.doomed = S, !.newest = newest]
<1>1. job[p] \in Job /\ Sound(p) /\ pc[p] = "gathering" /\ row \in [Rows -> Row]
  BY DEF Consistent, TypeOK, Gather
<1>2. \A r \in S : r \in Rows /\ EventOf[r] \in job[p].ids
  <2>1. CASE job[p].chunk
    <3>1. job[p].ids # {}
      BY <1>1, <2>1 DEF Sound, NamesSome
    <3>2. PICK e \in job[p].ids : S \subseteq Live(e)
      BY <2>1, <3>1 DEF Doomed, Chunk
    <3> QED
      BY <3>2 DEF Live, RowsOf
  <2>2. CASE ~job[p].chunk
    BY <2>2 DEF Doomed
  <2> QED
    BY <2>1, <2>2
<1>3. \A r \in Rows : ~job[p].chunk /\ EventOf[r] \in job[p].ids /\ row[r].status # "absent" => r \in S
  BY DEF Doomed
<1>4. S \in SUBSET Rows
  BY <1>2
<1> HIDE DEF S
<1>5. newest \in [Keys -> Times \cup {0}]
  BY <1>1, <1>4, NewestInIs, NewestOfIsNewestIn
<1>6. j \in Job /\ j.doomed = S /\ j.newest = newest /\ j.locked = job[p].locked
      /\ j.ids = job[p].ids /\ j.arm = job[p].arm /\ j.chunk = job[p].chunk
  <2> HIDE DEF newest
  <2> QED
    BY <1>1, <1>4, <1>5 DEF Job
<1>7. Goes(p, "inserting", j) /\ UNCHANGED <<event, row, aged, last, lock, klock, report>>
  BY DEF Gather, S
<1> HIDE DEF j
<1>8. TypeOK' /\ StepOf(p) /\ pc'[p] = "inserting" /\ job'[p] = j
  BY <1>6, <1>7, GoesIs DEF Consistent, TypeOK, StepOf
<1>9. Holding(p)' /\ NamesSome(p)'
  BY <1>1, <1>6, <1>7, <1>8 DEF Sound, Holding, NamesSome
<1>10. NamesDue(p)'
  BY <1>1, <1>6, <1>7, <1>8 DEF Sound, NamesDue, Due, Settled, Consumed, Live
<1>11. DoomsTheirRows(p)'
  BY <1>2, <1>3, <1>6, <1>7, <1>8 DEF DoomsTheirRows
<1>12. TellsTheNewest(p)'
  BY <1>6, <1>7, <1>8 DEF TellsTheNewest, NewestOf
<1>13. Sound(p)'
  BY <1>8, <1>9, <1>10, <1>11, <1>12 DEF Sound, WrittenIsKept
<1> QED
  BY <1>7, <1>8, <1>13, StepKeepsConsistent

\* Writing of the last successes: only the locks on them change.
LEMMA WrittenSound ==
  ASSUME Consistent, NEW p \in Procs, NEW written \in SUBSET Keys,
         NEW phase \in {"inserting", "updating"}, pc[p] \in {"inserting", "updating"},
         Goes(p, phase, [job[p] EXCEPT !.written = written]),
         klock' \in [Keys -> Procs \cup {Nobody}],
         \A k \in Keys : klock[k] # Nobody => klock'[k] = klock[k],
         phase = "updating" => \A k \in written : last[k] >= job[p].newest[k] \/ klock'[k] = p,
         UNCHANGED <<event, row, aged, last, lock, report>>
  PROVE  Consistent'
<1> DEFINE j == [job[p] EXCEPT !.written = written]
<1>1. job[p] \in Job /\ Sound(p)
  BY DEF Consistent, TypeOK
<1>2. j \in Job /\ j.doomed = job[p].doomed /\ j.newest = job[p].newest /\ j.written = written
      /\ j.locked = job[p].locked /\ j.ids = job[p].ids /\ j.arm = job[p].arm /\ j.chunk = job[p].chunk
  BY <1>1 DEF Job
<1>3. Goes(p, phase, j)
  OBVIOUS
<1> HIDE DEF j
<1>4. TypeOK' /\ StepOf(p) /\ pc'[p] = phase /\ job'[p] = j
  BY <1>2, <1>3, GoesIs DEF Consistent, TypeOK, StepOf
<1>5. Holding(p)' /\ NamesSome(p)'
  BY <1>1, <1>2, <1>4 DEF Sound, Holding, NamesSome
<1>6. NamesDue(p)'
  BY <1>1, <1>2, <1>4 DEF Sound, NamesDue, Due, Settled, Consumed, Live
<1>7. DoomsTheirRows(p)' /\ TellsTheNewest(p)'
  BY <1>1, <1>2, <1>4 DEF Sound, DoomsTheirRows, TellsTheNewest, NewestOf
<1>8. WrittenIsKept(p)'
  BY <1>2, <1>4 DEF WrittenIsKept
<1>9. Sound(p)'
  BY <1>5, <1>6, <1>7, <1>8 DEF Sound
<1> QED
  BY <1>4, <1>9, StepKeepsConsistent

LEMMA InsertSound ==
  ASSUME Consistent, NEW p \in Procs, NEW k \in Keys, Insert(p, k)
  PROVE  Consistent'
<1> DEFINE written == job[p].written \cup {k}
<1>1. job[p] \in Job /\ written \in SUBSET Keys /\ pc[p] = "inserting" /\ pc \in [Procs -> {"idle", "selecting", "counting", "locking", "gathering", "inserting", "updating", "deleting"}]
  BY DEF Consistent, TypeOK, Insert, Job
<1>2. Goes(p, "inserting", [job[p] EXCEPT !.written = written])
  BY <1>1 DEF Insert, Wrote, Goes
<1>3. klock' \in [Keys -> Procs \cup {Nobody}]
      /\ \A l \in Keys : klock[l] # Nobody => klock'[l] = klock[l]
  BY DEF Insert, KeyFree, Consistent, TypeOK
<1> HIDE DEF written
<1> QED
  BY <1>1, <1>2, <1>3, WrittenSound DEF Insert

LEMMA InsertedSound ==
  ASSUME Consistent, NEW p \in Procs, Inserted(p)
  PROVE  Consistent'
<1>1. klock' \in [Keys -> Procs \cup {Nobody}]
      /\ \A l \in Keys : klock[l] # Nobody => klock'[l] = klock[l]
  BY DEF Inserted, Consistent, TypeOK
<1>2. Goes(p, "updating", [job[p] EXCEPT !.written = {}]) /\ pc[p] = "inserting"
      /\ UNCHANGED <<event, row, aged, last, lock, report>>
  BY DEF Inserted
<1>3. {} \in SUBSET Keys /\ \A k \in {} : last[k] >= job[p].newest[k] \/ klock'[k] = p
  OBVIOUS
<1> QED
  BY <1>1, <1>2, <1>3, WrittenSound

LEMMA UpdateSound ==
  ASSUME Consistent, NEW p \in Procs, NEW k \in Keys, Update(p, k)
  PROVE  Consistent'
<1> DEFINE written == job[p].written \cup {k}
<1>1. job[p] \in Job /\ written \in SUBSET Keys /\ pc[p] = "updating" /\ pc \in [Procs -> {"idle", "selecting", "counting", "locking", "gathering", "inserting", "updating", "deleting"}]
  BY DEF Consistent, TypeOK, Update, Job
<1>2. Goes(p, "updating", [job[p] EXCEPT !.written = written])
  BY <1>1 DEF Update, Wrote, Goes
<1>3. klock' \in [Keys -> Procs \cup {Nobody}]
      /\ \A l \in Keys : klock[l] # Nobody => klock'[l] = klock[l]
  BY DEF Update, KeyFree, Consistent, TypeOK
<1>4. last[k] >= job[p].newest[k] \/ klock'[k] = p
  BY DEF Update, Consistent, TypeOK
<1>5. \A l \in job[p].written : last[l] >= job[p].newest[l] \/ klock[l] = p
  BY <1>1 DEF Consistent, Sound, WrittenIsKept
<1>6. \A l \in written : last[l] >= job[p].newest[l] \/ klock'[l] = p
  BY <1>1, <1>3, <1>4, <1>5, ConstantsAssumption
<1> HIDE DEF written
<1> QED
  BY <1>1, <1>2, <1>3, <1>6, WrittenSound DEF Update

-----------------------------------------------------------------------------
(* What is known of each receiver.                                         *)

LEMMA NewestIs ==
  ASSUME NEW table \in [Rows -> Row], NEW k \in Keys, NEW old \in Times \cup {0}
  PROVE  /\ Max({old, NewestIn(table, k, Rows)}) \in Nat
         /\ old <= Max({old, NewestIn(table, k, Rows)})
         /\ NewestIn(table, k, Rows) <= Max({old, NewestIn(table, k, Rows)})
         /\ Max({old, NewestIn(table, k, Rows)}) \in {old, NewestIn(table, k, Rows)}
<1> DEFINE newest == NewestIn(table, k, Rows)
<1>1. old \in Nat /\ newest \in Nat
  BY TimesAreNumbers, NewestInNat
<1> HIDE DEF newest
<1>2. Max({old, newest}) = IF old >= newest THEN old ELSE newest
  BY <1>1, MaxOfTwo
<1>3. /\ Max({old, newest}) \in Nat /\ old <= Max({old, newest}) /\ newest <= Max({old, newest})
      /\ Max({old, newest}) \in {old, newest}
  BY <1>1, <1>2
<1> QED
  BY <1>3 DEF newest

LEMMA NewestOf2 ==
  ASSUME NEW k
  PROVE  Newest(k) = Max({last[k], NewestIn(row, k, Rows)})
BY DEF Newest, NewestOf, NewestIn

\* A step that forgets no success, and takes no record back, leaves reports sound.
LEMMA ReportsStayBehind ==
  ASSUME TypeOK, TypeOK', ReportsAreBehind,
         \A k \in Keys : last[k] <= last'[k] /\ Newest(k) <= Newest(k)',
         UNCHANGED report
  PROVE  ReportsAreBehind'
<1> SUFFICES ASSUME NEW q \in Readers, report[q].phase = "reading", NEW k \in Keys
             PROVE  report[q].known[k] <= Newest(k)' /\ report[q].pruned[k] <= last'[k]
  BY DEF ReportsAreBehind
<1>1. report[q].known[k] <= Newest(k) /\ report[q].pruned[k] <= last[k]
  BY DEF ReportsAreBehind
<1>2. report[q].known[k] \in Nat /\ report[q].pruned[k] \in Nat
  BY TimesAreNumbers DEF TypeOK
<1>3. last[k] \in Nat /\ last'[k] \in Nat
  BY TimesAreNumbers DEF TypeOK
<1>4. Newest(k) \in Nat /\ Newest(k)' \in Nat
  <2>1. Max({last[k], NewestIn(row, k, Rows)}) \in Nat
    BY NewestIs DEF TypeOK
  <2>2. Max({last'[k], NewestIn(row', k, Rows)}) \in Nat
    BY NewestIs DEF TypeOK
  <2> QED
    BY <2>1, <2>2 DEF Newest, NewestOf, NewestIn
<1> QED
  BY <1>1, <1>2, <1>3, <1>4

\* A row's success is what it was, and what is recorded too.
LEMMA NewestStays ==
  ASSUME TypeOK, TypeOK', \A r \in Rows : row'[r].succ = row[r].succ, UNCHANGED last
  PROVE  \A k \in Keys : Newest(k)' = Newest(k) /\ last[k] <= last'[k] /\ Newest(k) <= Newest(k)'
<1> SUFFICES ASSUME NEW k \in Keys
             PROVE  Newest(k)' = Newest(k) /\ last[k] <= last'[k] /\ Newest(k) <= Newest(k)'
  OBVIOUS
<1>1. NewestIn(row, k, Rows) = NewestIn(row', k, Rows)
  <2>1. row \in [Rows -> Row] /\ row' \in [Rows -> Row] /\ Rows \in SUBSET Rows
    BY DEF TypeOK
  <2>2. \A r \in Rows : row[r].succ = row'[r].succ
    OBVIOUS
  <2> QED
    BY <2>1, <2>2, NewestInSame
<1>2. last[k] \in Nat
  BY TimesAreNumbers DEF TypeOK
<1>3. Newest(k)' = Newest(k)
  BY <1>1 DEF Newest, NewestOf, NewestIn
<1>4. Newest(k) \in Nat
  BY NewestIs, NewestOf2 DEF TypeOK
<1> QED
  BY <1>2, <1>3, <1>4

-----------------------------------------------------------------------------
(* Firing, delivering, ageing.                                             *)

LEMMA FireIs ==
  ASSUME Consistent, NEW e \in Events, Fire(e)
  PROVE  /\ TypeOK' /\ UNCHANGED <<aged, last, lock, klock, pc, job, report>>
         /\ event[e] = "absent" /\ event'[e] = "live"
         /\ \A f \in Events \ {e} : event'[f] = event[f]
         /\ \A r \in Rows : EventOf[r] # e => row'[r] = row[r]
         /\ \A r \in RowsOf(e) : row[r].status = "absent" /\ row'[r].status \in {"absent", "owed"}
         /\ \A r \in Rows : row'[r].succ = row[r].succ
         /\ \A r \in Rows : row'[r].status = "absent" => row'[r] = row[r]
<1>1. PICK S \in SUBSET RowsOf(e) :
        row' = [r \in Rows |-> IF r \in S THEN [Absent EXCEPT !.status = "owed"] ELSE row[r]]
  BY DEF Fire
<1>2. [Absent EXCEPT !.status = "owed"] = [status |-> "owed", succ |-> 0]
  BY DEF Absent
<1>3. \A r \in RowsOf(e) : row[r].status = "absent" /\ row[r].succ = 0
  BY DEF Consistent, RowsHaveEvents, AbsentIsBlank, Fire, RowsOf
<1>4. row' \in [Rows -> Row] /\ row \in [Rows -> Row]
  BY <1>1, <1>2 DEF Consistent, TypeOK, Row
<1>5. TypeOK'
  BY <1>4 DEF Consistent, TypeOK, Fire
<1> QED
  BY <1>1, <1>2, <1>3, <1>4, <1>5 DEF Fire, RowsOf, Consistent, TypeOK

LEMMA FireSound ==
  ASSUME Consistent, NEW e \in Events, Fire(e)
  PROVE  Consistent'
<1>1. ASSUME NEW p \in Procs PROVE Sound(p)'
  <2>1. Sound(p) /\ job[p].locked \subseteq Events
    BY DEF Consistent, TypeOK, Job
  <2>2. \A f \in job[p].locked : lock[f] = p /\ event[f] = "live" /\ f # e
    BY <2>1, FireIs DEF Sound, Holding
  <2>3. \A f \in job[p].locked : lock'[f] = p /\ event'[f] = "live" /\ aged[f] \subseteq aged'[f]
    BY <2>1, <2>2, FireIs
  <2>4. \A r \in Rows : EventOf[r] \in job[p].locked /\ row[r].status # "owed" => row'[r] = row[r]
    BY <2>2, FireIs
  <2>5. \A k \in Keys : last[k] <= last'[k] /\ (klock[k] = p => klock'[k] = p)
    BY FireIs, TimesAreNumbers DEF Consistent, TypeOK
  <2>6. pc'[p] = pc[p] /\ job'[p] = job[p] /\ TypeOK'
    BY FireIs
  <2> QED
    BY <2>1, <2>3, <2>4, <2>5, <2>6, OthersStaySound DEF Consistent
<1>2. RowsHaveEvents'
  <2> SUFFICES ASSUME NEW r \in Rows, row'[r].status # "absent" PROVE event'[EventOf[r]] = "live"
    BY DEF RowsHaveEvents
  <2>1. CASE EventOf[r] = e
    BY <2>1, FireIs
  <2>2. CASE EventOf[r] # e
    <3>1. \A q \in Rows : EventOf[q] # e => row'[q] = row[q]
      BY FireIs
    <3>2. \A f \in Events \ {e} : event'[f] = event[f]
      BY FireIs
    <3>3. EventOf[r] \in Events
      BY ConstantsAssumption
    <3> QED
      BY <2>2, <3>1, <3>2, <3>3 DEF Consistent, RowsHaveEvents
  <2> QED
    BY <2>1, <2>2
<1>3. AbsentIsBlank'
  BY FireIs DEF Consistent, AbsentIsBlank
<1>4. ReportsAreBehind'
  BY FireIs, NewestStays, ReportsStayBehind DEF Consistent
<1> QED
  BY <1>1, <1>2, <1>3, <1>4, FireIs DEF Consistent

LEMMA AgeSound ==
  ASSUME Consistent, NEW e \in Events, NEW window \in {"own", "ordinary"}, Age(e, window)
  PROVE  Consistent'
<1>1. TypeOK' /\ UNCHANGED <<event, row, last, lock, klock, pc, job, report>>
      /\ \A f \in Events : aged[f] \subseteq aged'[f]
  BY DEF Consistent, TypeOK, Age
<1>2. ASSUME NEW p \in Procs PROVE Sound(p)'
  <2>1. Sound(p) /\ job[p].locked \subseteq Events
    BY DEF Consistent, TypeOK, Job
  <2>2. \A f \in job[p].locked : lock'[f] = p /\ event'[f] = "live" /\ aged[f] \subseteq aged'[f]
    BY <1>1, <2>1 DEF Sound, Holding
  <2>3. \A k \in Keys : last[k] <= last'[k] /\ (klock[k] = p => klock'[k] = p)
    BY <1>1, TimesAreNumbers DEF Consistent, TypeOK
  <2> QED
    BY <1>1, <2>1, <2>2, <2>3, OthersStaySound DEF Consistent
<1>3. RowsHaveEvents' /\ AbsentIsBlank'
  BY <1>1 DEF Consistent, RowsHaveEvents, AbsentIsBlank
<1>4. ReportsAreBehind'
  BY <1>1, NewestStays, ReportsStayBehind DEF Consistent
<1> QED
  BY <1>1, <1>2, <1>3, <1>4 DEF Consistent

LEMMA DeliverIs ==
  ASSUME Consistent, NEW r \in Rows, Deliver(r)
  PROVE  /\ TypeOK' /\ UNCHANGED <<event, aged, last, lock, klock, pc, job, report>>
         /\ row[r].status = "owed" /\ row'[r].status \in Terminal
         /\ row[r].succ <= row'[r].succ
         /\ \A q \in Rows \ {r} : row'[q] = row[q]
<1>1. row \in [Rows -> Row] /\ row[r].succ \in Nat
  BY SuccIsTime DEF Consistent, TypeOK
<1>2. CASE \E t \in Times : t > row[r].succ
                          /\ row' = [row EXCEPT ![r] = [status |-> "succeeded", succ |-> t]]
  <2>1. PICK t \in Times : t > row[r].succ
                          /\ row' = [row EXCEPT ![r] = [status |-> "succeeded", succ |-> t]]
    BY <1>2
  <2>2. t \in Nat /\ [status |-> "succeeded", succ |-> t] \in Row
    BY TimesAreNumbers DEF Row, Terminal
  <2>3. row' \in [Rows -> Row] /\ row'[r] = [status |-> "succeeded", succ |-> t]
    BY <1>1, <2>1, <2>2
  <2> QED
    BY <1>1, <2>1, <2>2, <2>3 DEF Consistent, TypeOK, Deliver, Terminal
<1>3. CASE row' = [row EXCEPT ![r].status = "dead"]
  <2>1. [row[r] EXCEPT !.status = "dead"] \in Row
    BY <1>1 DEF Row, Terminal
  <2>2. row' \in [Rows -> Row] /\ row'[r] = [row[r] EXCEPT !.status = "dead"]
    BY <1>1, <1>3, <2>1
  <2>3. row'[r].status = "dead" /\ row'[r].succ = row[r].succ
    BY <1>1, <2>2 DEF Row
  <2> QED
    BY <1>1, <1>3, <2>2, <2>3 DEF Consistent, TypeOK, Deliver, Terminal
<1> QED
  BY <1>2, <1>3 DEF Deliver

\* At most the row's own receiver has a newer success by it.
LEMMA DeliverAdvances ==
  ASSUME Consistent, NEW r \in Rows, Deliver(r)
  PROVE  /\ \A k \in Keys : Newest(k) \in Nat /\ Newest(k)' \in Nat /\ Newest(k) <= Newest(k)'
         /\ \A k \in Keys \ {KeyOf[r]} : Newest(k)' = Newest(k)
<1>1. row \in [Rows -> Row] /\ row' \in [Rows -> Row] /\ last' = last /\ last \in [Keys -> Times \cup {0}]
  BY DeliverIs DEF Consistent, TypeOK
<1>2. \A q \in Rows : row[q].succ <= row'[q].succ
  BY <1>1, DeliverIs, SuccIsTime
<1> DEFINE before(k) == NewestIn(row, k, Rows)
           after(k) == NewestIn(row', k, Rows)
<1>3. \A k \in Keys : before(k) \in Nat /\ after(k) \in Nat /\ before(k) <= after(k)
  BY <1>1, <1>2, NewestInGrows, NewestInNat
<1>4. \A k \in Keys \ {KeyOf[r]} : after(k) <= before(k)
  <2> SUFFICES ASSUME NEW k \in Keys \ {KeyOf[r]} PROVE after(k) <= before(k)
    OBVIOUS
  <2>1. \A q \in Rows : KeyOf[q] = k => row'[q].succ <= before(k)
    BY <1>1, DeliverIs, NewestInIs
  <2> QED
    BY <1>1, <1>3, <2>1, NewestInAtMost
<1>5. \A k \in Keys : Newest(k) = Max({last[k], before(k)}) /\ Newest(k)' = Max({last[k], after(k)})
  BY <1>1 DEF Newest, NewestOf, NewestIn
<1> HIDE DEF before, after
<1>6. ASSUME NEW k \in Keys
      PROVE  /\ Newest(k) = IF last[k] >= before(k) THEN last[k] ELSE before(k)
             /\ Newest(k)' = IF last[k] >= after(k) THEN last[k] ELSE after(k)
             /\ last[k] \in Nat /\ before(k) \in Nat /\ after(k) \in Nat /\ before(k) <= after(k)
  BY <1>1, <1>3, <1>5, MaxOfTwo, TimesAreNumbers
<1>7. ASSUME NEW k \in Keys
      PROVE  Newest(k) \in Nat /\ Newest(k)' \in Nat /\ Newest(k) <= Newest(k)'
  BY <1>6
<1>8. ASSUME NEW k \in Keys \ {KeyOf[r]} PROVE Newest(k)' = Newest(k)
  <2>1. before(k) = after(k)
    BY <1>3, <1>4
  <2> QED
    BY <1>6, <2>1
<1> QED
  BY <1>7, <1>8

LEMMA DeliverSound ==
  ASSUME Consistent, NEW r \in Rows, Deliver(r)
  PROVE  Consistent'
<1>1. ASSUME NEW p \in Procs PROVE Sound(p)'
  <2>1. Sound(p) /\ job[p].locked \subseteq Events
    BY DEF Consistent, TypeOK, Job
  <2>2. \A f \in job[p].locked : lock'[f] = p /\ event'[f] = "live" /\ aged[f] \subseteq aged'[f]
    BY <2>1, DeliverIs DEF Sound, Holding
  <2>3. \A q \in Rows : EventOf[q] \in job[p].locked /\ row[q].status # "owed" => row'[q] = row[q]
    BY DeliverIs
  <2>4. \A k \in Keys : last[k] <= last'[k] /\ (klock[k] = p => klock'[k] = p)
    BY DeliverIs, TimesAreNumbers DEF Consistent, TypeOK
  <2>5. pc'[p] = pc[p] /\ job'[p] = job[p] /\ TypeOK'
    BY DeliverIs
  <2> QED
    BY <2>1, <2>2, <2>3, <2>4, <2>5, OthersStaySound DEF Consistent
<1>2. RowsHaveEvents' /\ AbsentIsBlank'
  BY DeliverIs DEF Consistent, RowsHaveEvents, AbsentIsBlank, Terminal
<1>3. ReportsAreBehind'
  <2>1. \A k \in Keys : last[k] <= last'[k]
    BY DeliverIs, TimesAreNumbers DEF Consistent, TypeOK
  <2> QED
    BY <2>1, DeliverIs, DeliverAdvances, ReportsStayBehind DEF Consistent
<1> QED
  BY <1>1, <1>2, <1>3, DeliverIs DEF Consistent

-----------------------------------------------------------------------------
(* Operators.                                                              *)

LEMMA WriteIs ==
  ASSUME Consistent, NEW o \in Operators, Write(o)
  PROVE  /\ o \in Procs /\ TypeOK' /\ StepOf(o) /\ UNCHANGED <<event, aged, last, report>>
         /\ pc'[o] = "idle" /\ job'[o] = NoJob
         /\ \A r \in Rows : lock[EventOf[r]] # o => row'[r] = row[r]
         /\ \A r \in Rows : row'[r].succ = row[r].succ
         /\ \A r \in Rows : row'[r] = row[r]
                            \/ (row'[r].status # "absent" /\ event[EventOf[r]] = "live")
<1>1. o \in Procs /\ Sound(o) /\ row \in [Rows -> Row]
  BY DEF Consistent, TypeOK, Procs
<1>2. PICK S \in SUBSET {r \in Rows : EventOf[r] \in job[o].locked}, status \in {"owed", "cancelled"} :
        row' = Becoming(S, status)
  BY DEF Write, Written, Reach
<1>3. \A r \in Rows : /\ [row[r] EXCEPT !.status = status] \in Row
                      /\ [row[r] EXCEPT !.status = status].status = status
                      /\ [row[r] EXCEPT !.status = status].succ = row[r].succ
  BY <1>1 DEF Row, Terminal
<1>4. row' \in [Rows -> Row]
  BY <1>1, <1>2, <1>3 DEF Becoming
<1>5. \A r \in S : r \in Rows /\ lock[EventOf[r]] = o /\ event[EventOf[r]] = "live"
  BY <1>1, <1>2 DEF Sound, Holding
<1>6. \A r \in Rows : row'[r] = IF r \in S THEN [row[r] EXCEPT !.status = status] ELSE row[r]
  BY <1>2 DEF Becoming
<1>7. Goes(o, "idle", NoJob) /\ Release(o) /\ UNCHANGED <<event, aged, last, report>>
  BY DEF Write, Goes
<1>8. /\ pc' \in [Procs -> {"idle", "selecting", "counting", "locking",
                            "gathering", "inserting", "updating", "deleting"}]
      /\ job' \in [Procs -> Job] /\ pc'[o] = "idle" /\ job'[o] = NoJob
      /\ \A q \in Procs \ {o} : pc'[q] = pc[q] /\ job'[q] = job[q]
  BY <1>1, <1>7, NoJobType, GoesIs DEF Consistent
<1>9. TypeOK' /\ StepOf(o)
  BY <1>1, <1>4, <1>7, <1>8, ReleaseIs DEF Consistent, TypeOK, StepOf
<1>10. \A r \in Rows : lock[EventOf[r]] # o => row'[r] = row[r]
  BY <1>5, <1>6
<1>11. \A r \in Rows : row'[r].succ = row[r].succ
  BY <1>3, <1>6
<1>12. \A r \in Rows : row'[r] = row[r] \/ (row'[r].status # "absent" /\ event[EventOf[r]] = "live")
  BY <1>3, <1>5, <1>6
<1> QED
  BY <1>1, <1>7, <1>8, <1>9, <1>10, <1>11, <1>12

LEMMA WriteSound ==
  ASSUME Consistent, NEW o \in Operators, Write(o)
  PROVE  Consistent'
<1>1. \A q \in Procs \ {o} : Sound(q)'
  <2>1. \A k \in Keys : last[k] <= last'[k]
    BY WriteIs, TimesAreNumbers DEF Consistent, TypeOK
  <2>2. \A e \in Events : event'[e] = event[e] /\ aged[e] \subseteq aged'[e]
    BY WriteIs
  <2> QED
    BY <2>1, <2>2, WriteIs, StepLeavesOthersSound
<1>2. Sound(o)'
  BY WriteIs, NoJobType, FreshIsSound
<1>3. RowsHaveEvents' /\ AbsentIsBlank'
  BY WriteIs DEF Consistent, RowsHaveEvents, AbsentIsBlank
<1>4. ReportsAreBehind'
  BY WriteIs, NewestStays, ReportsStayBehind DEF Consistent
<1> QED
  BY <1>1, <1>2, <1>3, <1>4, WriteIs DEF Consistent

-----------------------------------------------------------------------------
(* The delete.                                                             *)

\* The rows a delete names.
Gone(p) == IF job[p].chunk THEN job[p].doomed ELSE {r \in Rows : EventOf[r] \in job[p].ids}

LEMMA DeleteIs ==
  ASSUME Consistent, NEW p \in Procs, Delete(p)
  PROVE  /\ TypeOK' /\ StepOf(p) /\ UNCHANGED <<aged, report>>
         /\ pc'[p] \in {"idle", "selecting"} /\ job'[p].locked = {}
         /\ \A e \in job[p].ids : e \in Events /\ lock[e] = p /\ event[e] = "live" /\ Due(Arms[job[p].arm], e)
         /\ \A r \in Gone(p) : r \in Rows /\ EventOf[r] \in job[p].ids
         /\ row' = [r \in Rows |-> IF r \in Gone(p) THEN Absent ELSE row[r]]
         /\ event' = [e \in Events |-> IF ~job[p].chunk /\ e \in job[p].ids THEN "gone" ELSE event[e]]
<1>1. job[p] \in Job /\ Sound(p) /\ pc[p] = "updating"
  BY DEF Consistent, TypeOK, Delete
<1>2. \A e \in job[p].ids : e \in Events /\ lock[e] = p /\ event[e] = "live" /\ Due(Arms[job[p].arm], e)
  BY <1>1 DEF Sound, Holding, NamesDue, Job
<1>3. \A r \in Gone(p) : r \in Rows /\ EventOf[r] \in job[p].ids
  BY <1>1 DEF Gone, Sound, DoomsTheirRows, Job
<1>4. row' = [r \in Rows |-> IF r \in Gone(p) THEN Absent ELSE row[r]]
  BY DEF Delete, Gone
<1>5. event' = [e \in Events |-> IF ~job[p].chunk /\ e \in job[p].ids THEN "gone" ELSE event[e]]
  BY DEF Delete
<1>6. Absent \in Row
  BY DEF Absent, Row
<1>7. row' \in [Rows -> Row] /\ event' \in [Events -> {"absent", "live", "gone"}]
  BY <1>4, <1>5, <1>6 DEF Consistent, TypeOK
<1>8. last' \in [Keys -> Times \cup {0}]
  <2>1. \A k \in Keys : Recorded(p, k) \in Times \cup {0}
    BY <1>1 DEF Recorded, Consistent, TypeOK, Job
  <2> QED
    BY <2>1 DEF Delete
<1>9. /\ pc' \in [Procs -> {"idle", "selecting", "counting", "locking",
                            "gathering", "inserting", "updating", "deleting"}]
      /\ job' \in [Procs -> Job]
      /\ pc'[p] \in {"idle", "selecting"} /\ job'[p].locked = {}
      /\ \A q \in Procs \ {p} : pc'[q] = pc[q] /\ job'[q] = job[q]
  <2>1. CASE job[p].chunk /\ job[p].doomed = {}
    BY <2>1, NextArmResets DEF Delete, Consistent
  <2>2. CASE ~(job[p].chunk /\ job[p].doomed = {})
    <3> DEFINE j == [NoJob EXCEPT !.arm = job[p].arm]
    <3>1. j \in Job /\ j.locked = {}
      BY <1>1, NoJobType DEF NoJob, Job
    <3>2. Goes(p, "selecting", j)
      BY <2>2 DEF Delete
    <3> HIDE DEF j
    <3> QED
      BY <3>1, <3>2, GoesIs DEF Consistent
  <2> QED
    BY <2>1, <2>2
<1>10. Release(p) /\ UNCHANGED <<aged, report>>
  BY DEF Delete
<1>11. TypeOK' /\ StepOf(p)
  BY <1>7, <1>8, <1>9, <1>10, ReleaseIs DEF Consistent, TypeOK, StepOf
<1> QED
  BY <1>2, <1>3, <1>4, <1>5, <1>9, <1>10, <1>11

\* What is known of a receiver outlives the rows it was read from.
LEMMA DeleteForgetsNothing ==
  ASSUME Consistent, NEW p \in Procs, Delete(p), NEW k \in Keys
  PROVE  Newest(k)' = Newest(k) /\ last[k] <= last'[k] /\ Newest(k) <= Newest(k)'
<1> DEFINE before == NewestIn(row, k, Rows)
           after == NewestIn(row', k, Rows)
           theirs == NewestIn(row, k, job[p].doomed)
           m == job[p].newest[k]
<1>1. job[p] \in Job /\ Sound(p) /\ pc[p] = "updating" /\ ToWrite(p) = {} /\ TypeOK /\ TypeOK'
  BY DeleteIs DEF Consistent, TypeOK, Delete
<1>2. row \in [Rows -> Row] /\ row' \in [Rows -> Row] /\ job[p].doomed \in SUBSET Rows
  BY <1>1 DEF TypeOK, Job
<1>3. last[k] \in Nat /\ last'[k] \in Nat /\ m \in Nat
  <2>1. last[k] \in Times \cup {0} /\ last'[k] \in Times \cup {0} /\ m \in Times \cup {0}
    BY <1>1 DEF TypeOK, Job
  <2> QED
    BY <2>1, TimesAreNumbers
<1>4. before \in Nat /\ after \in Nat /\ theirs \in Nat
  BY <1>2, NewestInNat
<1>5. m = theirs
  BY <1>1 DEF Sound, TellsTheNewest, NewestOf, NewestIn
<1>6. last[k] >= m \/ klock[k] = p
  <2>1. CASE m = 0
    BY <1>3, <2>1
  <2>2. CASE m # 0
    BY <1>1, <2>2 DEF ToWrite, Sound, WrittenIsKept
  <2> QED
    BY <2>1, <2>2
<1>7. last'[k] = IF klock[k] = p /\ m > last[k] THEN m ELSE last[k]
  BY DEF Delete, Recorded
<1>8. \A r \in Rows : row'[r].succ = 0 \/ row'[r] = row[r]
  BY DeleteIs DEF Absent
<1>9. after <= before
  <2>1. \A r \in Rows : KeyOf[r] = k => row[r].succ <= before
    BY <1>2, NewestInIs
  <2>2. \A r \in Rows : KeyOf[r] = k => row'[r].succ <= before
    BY <1>4, <1>8, <2>1
  <2> QED
    BY <1>2, <1>4, <2>2, NewestInAtMost
<1>10. theirs <= before
  <2>1. \A r \in job[p].doomed : KeyOf[r] = k => row[r].succ <= before
    BY <1>2, NewestInIs
  <2> QED
    BY <1>2, <1>4, <2>1, NewestInAtMost
<1>11. before <= theirs \/ before <= after
  <2>1. before = 0 \/ \E r \in Rows : KeyOf[r] = k /\ row[r].succ = before
    BY <1>2, NewestInIs
  <2>2. CASE before = 0
    BY <1>4, <2>2
  <2>3. CASE \E r \in Rows : KeyOf[r] = k /\ row[r].succ = before
    <3>1. PICK r \in Rows : KeyOf[r] = k /\ row[r].succ = before
      BY <2>3
    <3>2. CASE r \in job[p].doomed
      BY <1>2, <3>1, <3>2, NewestInIs
    <3>3. CASE r \notin Gone(p)
      <4>1. row'[r].succ = before
        BY <3>1, <3>3, DeleteIs
      <4> QED
        BY <1>2, <3>1, <4>1, NewestInIs
    <3>4. CASE r \in Gone(p) /\ r \notin job[p].doomed
      <4>1. row[r].status = "absent"
        BY <1>1, <3>4 DEF Gone, Sound, DoomsTheirRows
      <4>2. before = 0
        BY <3>1, <4>1 DEF Consistent, AbsentIsBlank
      <4> QED
        BY <1>4, <4>2
    <3> QED
      BY <3>2, <3>3, <3>4
  <2> QED
    BY <2>1, <2>2, <2>3
<1>12. Newest(k) = Max({last[k], before}) /\ Newest(k)' = Max({last'[k], after})
  BY DEF Newest, NewestOf, NewestIn
<1> HIDE DEF before, after, theirs, m
<1>13. /\ Newest(k) = IF last[k] >= before THEN last[k] ELSE before
       /\ Newest(k)' = IF last'[k] >= after THEN last'[k] ELSE after
  BY <1>3, <1>4, <1>12, MaxOfTwo
<1> QED
  BY <1>3, <1>4, <1>5, <1>6, <1>7, <1>9, <1>10, <1>11, <1>13

LEMMA DeleteSound ==
  ASSUME Consistent, NEW p \in Procs, Delete(p)
  PROVE  Consistent'
<1>1. \A q \in Procs \ {p} : Sound(q)'
  <2>1. \A k \in Keys : last[k] <= last'[k]
    BY DeleteForgetsNothing
  <2>2. \A e \in Events : lock[e] # p => event'[e] = event[e]
    BY DeleteIs
  <2>3. \A e \in Events : aged[e] \subseteq aged'[e]
    BY DeleteIs
  <2>4. \A r \in Rows : lock[EventOf[r]] # p => row'[r] = row[r]
    BY DeleteIs
  <2> QED
    BY <2>1, <2>2, <2>3, <2>4, DeleteIs, StepLeavesOthersSound
<1>2. Sound(p)'
  BY DeleteIs, FreshIsSound
<1>3. RowsHaveEvents'
  <2> SUFFICES ASSUME NEW r \in Rows, row'[r].status # "absent" PROVE event'[EventOf[r]] = "live"
    BY DEF RowsHaveEvents
  <2>1. r \notin Gone(p) /\ row'[r] = row[r] /\ EventOf[r] \in Events
    BY DeleteIs, ConstantsAssumption DEF Absent
  <2>2. event[EventOf[r]] = "live"
    BY <2>1 DEF Consistent, RowsHaveEvents
  <2>3. ~(~job[p].chunk /\ EventOf[r] \in job[p].ids)
    BY <2>1 DEF Gone
  <2> QED
    BY <2>1, <2>2, <2>3, DeleteIs
<1>4. AbsentIsBlank'
  BY DeleteIs DEF Consistent, AbsentIsBlank, Absent
<1>5. ReportsAreBehind'
  BY DeleteIs, DeleteForgetsNothing, ReportsStayBehind DEF Consistent
<1> QED
  BY <1>1, <1>2, <1>3, <1>4, <1>5, DeleteIs DEF Consistent

-----------------------------------------------------------------------------
(* Reports, and the invariant.                                             *)

LEMMA ReadPrunedSound ==
  ASSUME Consistent, NEW q \in Readers, ReadPruned(q)
  PROVE  Consistent'
<1> DEFINE known == [k \in Keys |-> Newest(k)]
           read == [phase |-> "reading", pruned |-> last, known |-> known]
<1>1. \A k \in Keys : Newest(k) \in Times \cup {0} /\ Newest(k) \in Nat
  <2> SUFFICES ASSUME NEW k \in Keys PROVE Newest(k) \in Times \cup {0} /\ Newest(k) \in Nat
    OBVIOUS
  <2>1. row \in [Rows -> Row] /\ last[k] \in Times \cup {0}
    BY DEF Consistent, TypeOK
  <2>2. Newest(k) \in {last[k], NewestIn(row, k, Rows)} /\ NewestIn(row, k, Rows) \in Times \cup {0}
    BY <2>1, NewestIs, NewestInIs, NewestOf2
  <2>3. Newest(k) \in Times \cup {0}
    BY <2>1, <2>2
  <2> QED
    BY <2>3, TimesAreNumbers
<1>2. known \in [Keys -> Times \cup {0}] /\ last \in [Keys -> Times \cup {0}]
  BY <1>1 DEF Consistent, TypeOK
<1>3. report' = [report EXCEPT ![q] = read]
      /\ UNCHANGED <<event, row, aged, last, lock, klock, pc, job>>
  BY DEF ReadPruned
<1>4. \A k \in Keys : known[k] = Newest(k)
  OBVIOUS
<1> HIDE DEF known
<1>5. TypeOK'
  BY <1>2, <1>3 DEF Consistent, TypeOK
<1>6. \A k \in Keys : Newest(k)' = Newest(k) /\ last[k] \in Nat
  BY <1>2, <1>3, TimesAreNumbers DEF Newest, NewestOf
<1>7. ReportsAreBehind'
  <2> SUFFICES ASSUME NEW o \in Readers, report'[o].phase = "reading", NEW k \in Keys
               PROVE  report'[o].known[k] <= Newest(k)' /\ report'[o].pruned[k] <= last'[k]
    BY DEF ReportsAreBehind
  <2>1. CASE o = q
    <3>1. report'[o].known[k] = Newest(k) /\ report'[o].pruned[k] = last[k]
      BY <1>3, <1>4, <2>1 DEF Consistent, TypeOK
    <3> QED
      BY <1>1, <1>3, <1>6, <3>1
  <2>2. CASE o # q
    <3>1. report'[o] = report[o]
      BY <1>3, <2>2 DEF Consistent, TypeOK
    <3> QED
      BY <1>3, <1>6, <3>1 DEF Consistent, ReportsAreBehind
  <2> QED
    BY <2>1, <2>2
<1>8. RowsHaveEvents' /\ AbsentIsBlank'
  BY <1>3 DEF Consistent, RowsHaveEvents, AbsentIsBlank
<1>9. \A p \in Procs : Sound(p)'
  BY <1>3 DEF Consistent, Sound, Holding, NamesSome, NamesDue, DoomsTheirRows, TellsTheNewest,
              WrittenIsKept, Due, Settled, Consumed, Live, NewestOf
<1> QED
  BY <1>5, <1>7, <1>8, <1>9 DEF Consistent

LEMMA ReportedSound ==
  ASSUME Consistent, NEW q \in Readers, Reported(q)
  PROVE  Consistent'
<1>1. report' = [report EXCEPT ![q].phase = "idle"]
      /\ UNCHANGED <<event, row, aged, last, lock, klock, pc, job>>
  BY DEF Reported
<1>2. TypeOK'
  BY <1>1 DEF Consistent, TypeOK
<1>3. \A o \in Readers : report'[o].phase = "reading" => report'[o] = report[o]
  BY <1>1 DEF Consistent, TypeOK
<1>4. ReportsAreBehind'
  <2> SUFFICES ASSUME NEW o \in Readers, report'[o].phase = "reading", NEW k \in Keys
               PROVE  report'[o].known[k] <= Newest(k)' /\ report'[o].pruned[k] <= last'[k]
    BY DEF ReportsAreBehind
  <2>1. Newest(k)' = Newest(k)
    BY <1>1 DEF Newest, NewestOf
  <2>2. report[o].known[k] <= Newest(k) /\ report[o].pruned[k] <= last[k]
    BY <1>3 DEF Consistent, ReportsAreBehind
  <2> QED
    BY <1>1, <1>3, <2>1, <2>2
<1>5. RowsHaveEvents' /\ AbsentIsBlank'
  BY <1>1 DEF Consistent, RowsHaveEvents, AbsentIsBlank
<1>6. \A p \in Procs : Sound(p)'
  BY <1>1 DEF Consistent, Sound, Holding, NamesSome, NamesDue, DoomsTheirRows, TellsTheNewest,
              WrittenIsKept, Due, Settled, Consumed, Live, NewestOf
<1> QED
  BY <1>2, <1>4, <1>5, <1>6 DEF Consistent

LEMMA StutterSound ==
  ASSUME Consistent, UNCHANGED vars
  PROVE  Consistent'
<1>1. UNCHANGED <<event, row, aged, last, lock, klock, pc, job, report>>
  BY DEF vars
<1>2. TypeOK' /\ RowsHaveEvents' /\ AbsentIsBlank'
  BY <1>1 DEF Consistent, TypeOK, RowsHaveEvents, AbsentIsBlank
<1>3. ReportsAreBehind'
  BY <1>1 DEF Consistent, ReportsAreBehind, Newest, NewestOf
<1>4. \A p \in Procs : Sound(p)'
  BY <1>1 DEF Consistent, Sound, Holding, NamesSome, NamesDue, DoomsTheirRows, TellsTheNewest,
              WrittenIsKept, Due, Settled, Consumed, Live, NewestOf
<1> QED
  BY <1>2, <1>3, <1>4 DEF Consistent

LEMMA SweepSound ==
  ASSUME Consistent, NEW p \in Pruners, Sweep(p)
  PROVE  Consistent'
<1>1. p \in Procs
  BY DEF Procs
<1>2. \/ Prune(p) \/ Stop(p) \/ Select(p) \/ NothingDue(p) \/ Count(p) \/ Recheck(p) \/ Gather(p)
      \/ Inserted(p) \/ Delete(p) \/ Crash(p)
      \/ (\E e \in Events : Lock(p, e)) \/ (\E k \in Keys : Insert(p, k) \/ Update(p, k))
  BY DEF Sweep
<1>3. (Prune(p) \/ Stop(p) \/ Select(p) \/ NothingDue(p) \/ Count(p)) => Consistent'
  BY <1>1, PruneSound, SelectSound, NothingDueSound, CountSound
<1>4. (Recheck(p) \/ Gather(p) \/ Inserted(p) \/ Delete(p) \/ Crash(p)) => Consistent'
  BY <1>1, RecheckSound, GatherSound, InsertedSound, DeleteSound, CrashSound
<1>5. ASSUME NEW e \in Events, Lock(p, e) PROVE Consistent'
  BY <1>1, <1>5, LockSound
<1>6. ASSUME NEW k \in Keys, Insert(p, k) \/ Update(p, k) PROVE Consistent'
  BY <1>1, <1>6, InsertSound, UpdateSound
<1> QED
  BY <1>2, <1>3, <1>4, <1>5, <1>6

LEMMA OperateSound ==
  ASSUME Consistent, NEW o \in Operators, Operate(o)
  PROVE  Consistent'
<1>1. o \in Procs
  BY DEF Procs
<1>2. ASSUME NEW e \in Events, Replay(o, e) PROVE Consistent'
  <2>1. Ask(o, "replay", {e}, {}) /\ {e} \in SUBSET Events /\ {} \in SUBSET Rows
    BY <1>2 DEF Replay
  <2> QED
    BY <2>1, AskSound
<1>3. ASSUME NEW S \in SUBSET Rows, Requeue(o, S) PROVE Consistent'
  <2>1. Ask(o, "requeue", {EventOf[r] : r \in S}, S) /\ {EventOf[r] : r \in S} \in SUBSET Events
    BY <1>3, ConstantsAssumption DEF Requeue
  <2> QED
    BY <2>1, AskSound
<1>4. ASSUME NEW E \in SUBSET Events, Cancel(o, E) PROVE Consistent'
  <2>1. Ask(o, "cancel", E, {}) /\ {} \in SUBSET Rows
    BY <1>4 DEF Cancel
  <2> QED
    BY <2>1, AskSound
<1>5. ASSUME NEW e \in Events, Lock(o, e) PROVE Consistent'
  BY <1>1, <1>5, LockSound
<1>6. (Write(o) \/ Crash(o)) => Consistent'
  BY <1>1, WriteSound, CrashSound
<1> QED
  BY <1>2, <1>3, <1>4, <1>5, <1>6 DEF Operate

\* Every step, of any process, keeps a state consistent.
THEOREM StepSound == Consistent /\ [Next]_vars => Consistent'
<1> SUFFICES ASSUME Consistent, [Next]_vars PROVE Consistent'
  OBVIOUS
<1>1. ASSUME NEW e \in Events, Fire(e) \/ \E window \in {"own", "ordinary"} : Age(e, window)
      PROVE  Consistent'
  BY <1>1, FireSound, AgeSound
<1>2. ASSUME NEW r \in Rows, Deliver(r) PROVE Consistent'
  BY <1>2, DeliverSound
<1>3. ASSUME NEW p \in Pruners, Sweep(p) PROVE Consistent'
  BY <1>3, SweepSound
<1>4. ASSUME NEW o \in Operators, Operate(o) PROVE Consistent'
  BY <1>4, OperateSound
<1>5. ASSUME NEW q \in Readers, ReadPruned(q) \/ Reported(q) PROVE Consistent'
  BY <1>5, ReadPrunedSound, ReportedSound
<1>6. CASE UNCHANGED vars
  BY <1>6, StutterSound
<1> QED
  BY <1>1, <1>2, <1>3, <1>4, <1>5, <1>6 DEF Next

\* The invariant the others rest on: what a sweep names is locked and due until
\* it deletes it, and nothing it has seen is forgotten.
THEOREM Invariance == Spec => []Consistent
BY InitSound, StepSound, PTL DEF Spec

-----------------------------------------------------------------------------
(* What follows from it.                                                   *)

\* What a report may miss is what a sweep has moved meanwhile.
THEOREM ReportsMissOnlyWhatMoved == Spec => []MissesOnlyWhatMoved
<1>1. Consistent => MissesOnlyWhatMoved
  <2> SUFFICES ASSUME Consistent, NEW q \in Readers, report[q].phase = "reading", NEW k \in Keys
               PROVE  \/ Answer(q, k) >= report[q].known[k]
                      \/ last[k] > report[q].pruned[k] /\ last[k] >= report[q].known[k]
    BY DEF MissesOnlyWhatMoved
  <2> DEFINE live == NewestIn(row, k, Rows)
             pruned == report[q].pruned[k]
             known == report[q].known[k]
  <2>1. /\ last[k] \in Nat /\ pruned \in Nat /\ known \in Nat
    <3>1. last[k] \in Times \cup {0} /\ pruned \in Times \cup {0} /\ known \in Times \cup {0}
      BY DEF Consistent, TypeOK
    <3> QED
      BY <3>1, TimesAreNumbers
  <2>2. live \in Nat
    BY NewestInNat DEF Consistent, TypeOK
  <2>3. Newest(k) = Max({last[k], live}) /\ Answer(q, k) = Max({pruned, live})
    BY DEF Newest, Answer, NewestOf, NewestIn
  <2>4. known <= Newest(k) /\ pruned <= last[k]
    BY DEF Consistent, ReportsAreBehind
  <2> HIDE DEF live, pruned, known
  <2>5. /\ Newest(k) = IF last[k] >= live THEN last[k] ELSE live
        /\ Answer(q, k) = IF pruned >= live THEN pruned ELSE live
    BY <2>1, <2>2, <2>3, MaxOfTwo
  <2>6. Answer(q, k) >= known \/ (last[k] > pruned /\ last[k] >= known)
    BY <2>1, <2>2, <2>4, <2>5
  <2> QED
    BY <2>6 DEF pruned, known
<1> QED
  BY <1>1, Invariance, PTL

\* What a query selects, its retention allows to go.
LEMMA DueIsAllowed ==
  ASSUME TypeOK, NEW e \in Events, NEW arm, Due(arm, e)
  PROVE  Allowed(e)
<1>1. \A r \in RowsOf(e) : row[r].status # "owed"
  BY DueOwesNothing
<1>2. Policy[e] \in {"succeeded", "settled", "window", "ordinary"}
  BY ConstantsAssumption
<1>3. Consumed(e) => \A r \in RowsOf(e) : row[r].status # "dead"
  BY DEF Consumed, Live
<1>4. CASE Policy[e] = "window"
  BY <1>1, <1>4 DEF Allowed, Due, Ordinary
<1>5. CASE Policy[e] = "settled"
  BY <1>1, <1>5 DEF Allowed
<1>6. CASE Policy[e] = "succeeded"
  BY <1>1, <1>3, <1>6 DEF Allowed, Due, Ordinary
<1>7. CASE Policy[e] = "ordinary"
  BY <1>1, <1>7 DEF Allowed, Due, Ordinary
<1> QED
  BY <1>2, <1>4, <1>5, <1>6, <1>7

\* The deletes are the only steps that take an event or a row away.
LEMMA OnlyDeleteTakes ==
  ASSUME Consistent, Next, ~ \E p \in Pruners : Delete(p)
  PROVE  /\ \A e \in Events : event[e] = "live" => event'[e] = "live"
         /\ \A r \in Rows : row[r].status # "absent" => row'[r].status # "absent"
<1>1. ASSUME UNCHANGED <<event, row>>
      PROVE  /\ \A e \in Events : event[e] = "live" => event'[e] = "live"
             /\ \A r \in Rows : row[r].status # "absent" => row'[r].status # "absent"
  BY <1>1
<1>2. ASSUME NEW e \in Events, Fire(e)
      PROVE  /\ \A f \in Events : event[f] = "live" => event'[f] = "live"
             /\ \A r \in Rows : row[r].status # "absent" => row'[r].status # "absent"
  BY <1>2, FireIs
<1>3. ASSUME NEW r \in Rows, Deliver(r)
      PROVE  /\ \A f \in Events : event[f] = "live" => event'[f] = "live"
             /\ \A q \in Rows : row[q].status # "absent" => row'[q].status # "absent"
  BY <1>3, DeliverIs DEF Terminal
<1>4. ASSUME NEW o \in Operators, Write(o)
      PROVE  /\ \A f \in Events : event[f] = "live" => event'[f] = "live"
             /\ \A r \in Rows : row[r].status # "absent" => row'[r].status # "absent"
  BY <1>4, WriteIs
<1>5. \/ \E e \in Events : Fire(e)
      \/ \E r \in Rows : Deliver(r)
      \/ \E o \in Operators : Write(o)
      \/ UNCHANGED <<event, row>>
  BY DEF Next, Sweep, Operate, Age, Prune, Select, NothingDue, Stop, Count, Lock, Recheck, Gather,
         Insert, Update, Inserted, Crash, Replay, Requeue, Cancel, Ask, ReadPruned, Reported
<1> QED
  BY <1>1, <1>2, <1>3, <1>4, <1>5

\* No event and no row of one is deleted before its retention allows, whatever
\* was replayed, requeued or settled since it was selected.
THEOREM NothingGoesEarly == Spec => DeletedOnlyWhenDue
<1> DEFINE Goes1 == \A e \in Events :
       \/ event[e] = "live" /\ event'[e] = "gone"
       \/ \E r \in RowsOf(e) : row[r].status # "absent" /\ row'[r].status = "absent"
       => Allowed(e)
<1>1. Consistent /\ [Next]_vars => [Goes1]_<<event, row>>
  <2> SUFFICES ASSUME Consistent, Next, NEW e \in Events,
                      \/ event[e] = "live" /\ event'[e] = "gone"
                      \/ \E r \in RowsOf(e) : row[r].status # "absent" /\ row'[r].status = "absent"
               PROVE  Allowed(e)
    BY DEF vars
  <2>1. PICK p \in Pruners : Delete(p)
    BY OnlyDeleteTakes DEF RowsOf
  <2>2. p \in Procs
    BY DEF Procs
  <2>3. e \in job[p].ids
    BY <2>1, <2>2, DeleteIs DEF RowsOf
  <2>4. Due(Arms[job[p].arm], e)
    BY <2>1, <2>2, <2>3, DeleteIs
  <2> HIDE DEF Arms
  <2> QED
    BY <2>4, DueIsAllowed DEF Consistent
<1> QED
  BY <1>1, Invariance, PTL DEF Spec, DeletedOnlyWhenDue

-----------------------------------------------------------------------------
(* Retention implements Ledger.                                            *)

Stands == [e \in Events |-> Kept(e)]
Known == [k \in Keys |-> Newest(k)]

\* Where neither the events nor the rows change, nothing does for Ledger.
LEMMA QuietIsStutter ==
  ASSUME UNCHANGED <<event, row, last>>
  PROVE  UNCHANGED <<Stands, Known>>
<1>1. \A e \in Events : Kept(e)' = Kept(e)
  BY DEF Kept, RowsOf
<1>2. \A k \in Keys : Newest(k)' = Newest(k)
  BY DEF Newest, NewestOf
<1> QED
  BY <1>1, <1>2 DEF Stands, Known

LEMMA OtherEventStands ==
  ASSUME NEW e \in Events, event'[e] = event[e], \A r \in RowsOf(e) : row'[r] = row[r]
  PROVE  Kept(e)' = Kept(e)
BY DEF Kept, RowsOf

LEMMA KeptIs ==
  ASSUME TypeOK, NEW e \in Events
  PROVE  /\ Kept(e) \in {"absent", "owed", "settled", "gone"}
         /\ event[e] = "live" => Kept(e) \in {"owed", "settled"}
         /\ event[e] # "live" => Kept(e) = event[e]
BY DEF Kept, TypeOK

LEMMA FireRecords ==
  ASSUME Consistent, NEW e \in Events, Fire(e)
  PROVE  Promise!Record(e)
<1>1. Stands[e] = "absent"
  BY FireIs, KeptIs DEF Stands, Consistent
<1>2. Kept(e)' \in {"owed", "settled"}
  BY FireIs DEF Kept
<1>3. \A f \in Events \ {e} : Kept(f)' = Kept(f)
  BY FireIs, OtherEventStands DEF RowsOf
<1>4. Stands' = [Stands EXCEPT ![e] = Kept(e)']
  BY <1>3 DEF Stands
<1>5. Known' = Known
  <2>1. \A k \in Keys : Newest(k)' = Newest(k)
    BY FireIs, NewestStays DEF Consistent
  <2> QED
    BY <2>1 DEF Known
<1> QED
  BY <1>1, <1>2, <1>4, <1>5 DEF Promise!Record, Stands, Known

LEMMA DeliverProgresses ==
  ASSUME Consistent, NEW r \in Rows, Deliver(r)
  PROVE  Promise!Progress(EventOf[r])
<1> DEFINE e == EventOf[r]
<1>1. e \in Events /\ KeyOf[r] \in Keys
  BY ConstantsAssumption
<1>2. event[e] = "live" /\ event'[e] = "live"
  BY DeliverIs DEF Consistent, RowsHaveEvents
<1>3. Stands[e] = "owed"
  BY <1>1, <1>2, DeliverIs DEF Stands, Kept, RowsOf
<1>4. Kept(e)' \in {"owed", "settled"}
  BY <1>2 DEF Kept
<1>5. \A f \in Events \ {e} : Kept(f)' = Kept(f)
  BY DeliverIs, OtherEventStands DEF RowsOf
<1> HIDE DEF e
<1>6. Stands' \in {Stands, [Stands EXCEPT ![e] = "settled"]}
  <2>1. Stands' = [Stands EXCEPT ![e] = Kept(e)']
    BY <1>5 DEF Stands
  <2>2. Stands = [Stands EXCEPT ![e] = "owed"]
    BY <1>1, <1>3 DEF Stands
  <2> QED
    BY <1>4, <2>1, <2>2
<1>7. /\ \A k \in Keys : Newest(k) \in Nat /\ Newest(k)' \in Nat /\ Newest(k) <= Newest(k)'
      /\ \A k \in Keys \ {KeyOf[r]} : Newest(k)' = Newest(k)
  BY DeliverAdvances
<1>8. \/ UNCHANGED Known
      \/ \E k \in Keys : /\ Known'[k] > Known[k]
                         /\ \A other \in Keys \ {k} : Known'[other] = Known[other]
  <2>1. CASE Newest(KeyOf[r])' = Newest(KeyOf[r])
    BY <1>7, <2>1 DEF Known
  <2>2. CASE Newest(KeyOf[r])' # Newest(KeyOf[r])
    <3>1. Newest(KeyOf[r])' > Newest(KeyOf[r])
      BY <1>1, <1>7, <2>2
    <3> QED
      BY <1>1, <1>7, <3>1 DEF Known
  <2> QED
    BY <2>1, <2>2
<1> QED
  BY <1>3, <1>6, <1>8 DEF Promise!Progress, Stands, Known, e

LEMMA WriteReconsiders ==
  ASSUME Consistent, NEW o \in Operators, Write(o)
  PROVE  Promise!Reconsider
<1>1. \A e \in Events : \/ Kept(e)' = Kept(e)
                        \/ Kept(e) \in {"owed", "settled"} /\ Kept(e)' \in {"owed", "settled"}
  BY WriteIs DEF Kept
<1>2. \A k \in Keys : Newest(k)' = Newest(k)
  BY WriteIs, NewestStays DEF Consistent
<1> QED
  BY <1>1, <1>2 DEF Promise!Reconsider

LEMMA DeleteDeletes ==
  ASSUME Consistent, NEW p \in Procs, Delete(p)
  PROVE  Promise!Delete
<1>1. ASSUME NEW e \in Events, Kept(e)' # Kept(e) PROVE Kept(e) = "settled" /\ Kept(e)' = "gone"
  <2>1. e \in job[p].ids
    <3>1. ASSUME e \notin job[p].ids PROVE FALSE
      <4>1. event'[e] = event[e] /\ \A r \in RowsOf(e) : row'[r] = row[r]
        BY <3>1, DeleteIs DEF RowsOf
      <4> QED
        BY <1>1, <4>1, OtherEventStands
    <3> QED
      BY <3>1
  <2>2. event[e] = "live" /\ Due(Arms[job[p].arm], e)
    BY <2>1, DeleteIs
  <2> HIDE DEF Arms
  <2>3. \A r \in RowsOf(e) : row[r].status # "owed"
    BY <2>2, DueOwesNothing
  <2>4. Kept(e) = "settled"
    BY <2>2, <2>3 DEF Kept
  <2>5. \A r \in RowsOf(e) : row'[r].status # "owed"
    BY <2>3, DeleteIs DEF RowsOf, Absent
  <2>6. event'[e] \in {"live", "gone"}
    BY <2>2, DeleteIs
  <2>7. Kept(e)' \in {"settled", "gone"}
    BY <2>5, <2>6 DEF Kept
  <2> QED
    BY <1>1, <2>4, <2>7
<1>2. \A k \in Keys : Newest(k)' = Newest(k)
  BY DeleteForgetsNothing
<1> QED
  BY <1>1, <1>2 DEF Promise!Delete

\* Every step keeps the promise Ledger states, or is none of its business.
LEMMA StepPromised ==
  ASSUME Consistent, [Next]_vars
  PROVE  [Promise!Next]_(Promise!vars)
<1>1. UNCHANGED <<event, row, last>> => UNCHANGED Promise!vars
  BY QuietIsStutter DEF Promise!vars, Stands, Known
<1>2. \/ \E e \in Events : Fire(e)
      \/ \E r \in Rows : Deliver(r)
      \/ \E o \in Operators : Write(o)
      \/ \E p \in Pruners : Delete(p)
      \/ UNCHANGED <<event, row, last>>
  BY DEF Next, Sweep, Operate, Age, Prune, Select, NothingDue, Stop, Count, Lock, Recheck, Gather,
         Insert, Update, Inserted, Crash, Replay, Requeue, Cancel, Ask, ReadPruned, Reported, vars
<1>3. ASSUME NEW e \in Events, Fire(e) PROVE Promise!Next
  BY <1>3, FireRecords DEF Promise!Next
<1>4. ASSUME NEW r \in Rows, Deliver(r) PROVE Promise!Next
  <2>1. EventOf[r] \in Events
    BY ConstantsAssumption
  <2> QED
    BY <1>4, <2>1, DeliverProgresses DEF Promise!Next
<1>5. ASSUME NEW o \in Operators, Write(o) PROVE Promise!Next
  BY <1>5, WriteReconsiders DEF Promise!Next
<1>6. ASSUME NEW p \in Pruners, Delete(p) PROVE Promise!Next
  <2>1. p \in Procs
    BY DEF Procs
  <2> QED
    BY <1>6, <2>1, DeleteDeletes DEF Promise!Next
<1> QED
  BY <1>1, <1>2, <1>3, <1>4, <1>5, <1>6

LEMMA InitPromised == Init => Promise!Init
<1> SUFFICES ASSUME Init PROVE Promise!Init
  OBVIOUS
<1>1. \A e \in Events : Kept(e) = "absent"
  BY DEF Init, Kept
<1>2. \A k \in Keys : Newest(k) = 0
  <2> SUFFICES ASSUME NEW k \in Keys PROVE Newest(k) = 0
    OBVIOUS
  <2>1. Consistent /\ row \in [Rows -> Row] /\ \A r \in Rows : row[r].succ = 0
    BY InitSound DEF Init, Consistent, TypeOK, Absent
  <2>2. NewestIn(row, k, Rows) = 0
    BY <2>1, NewestInIs
  <2>3. Newest(k) = Max({0, 0})
    BY <2>2, NewestOf2 DEF Init
  <2> QED
    BY <2>3, MaxOfTwo
<1> QED
  BY <1>1, <1>2 DEF Promise!Init

\* Nothing owed is deleted, nothing deleted comes back, and no receiver's newest
\* success is forgotten with its rows.
THEOREM PromiseKept == Spec => KeepsPromise
<1>1. Init => Promise!Init
  BY InitPromised
<1>2. Consistent /\ [Next]_vars => [Promise!Next]_(Promise!vars)
  BY StepPromised
<1> QED
  BY <1>1, <1>2, Invariance, PTL DEF Spec, KeepsPromise, Promise!Spec

-----------------------------------------------------------------------------
(* The others.                                                             *)

\* Locks pass neither to nor from q, and of the receivers it has locked the
\* last success stands.
Undisturbed(q) ==
  /\ pc'[q] = pc[q] /\ job'[q] = job[q]
  /\ \A e \in Events : lock'[e] = q => lock[e] = q
  /\ \A k \in Keys : /\ klock'[k] = q <=> klock[k] = q
                     /\ klock[k] = q => last'[k] = last[k]

\* A last success is never taken back.
NoneForgotten == \A k \in Keys : last[k] # 0 => last'[k] # 0

LEMMA OthersStayOrderly ==
  ASSUME TypeOK, NEW q \in Procs, Orderly(q), Undisturbed(q), NoneForgotten
  PROVE  Orderly(q)'
<1>1. job[q] \in Job /\ ToLock(q)' = ToLock(q) /\ ToWrite(q)' = ToWrite(q) /\ ToWrite(q) \subseteq Keys
  BY DEF TypeOK, ToLock, ToWrite, Undisturbed
<1>2. job[q].written \subseteq Keys
  BY <1>1 DEF Job
<1>3. \A e \in Events : lock'[e] = q => e \in job'[q].locked
  BY DEF Undisturbed, Orderly
<1>4. pc'[q] = "inserting" =>
        /\ \A k \in Keys : klock'[k] = q => k \in job'[q].written /\ last'[k] = 0
        /\ \A k \in job'[q].written : last'[k] # 0 \/ klock'[k] = q
  BY <1>2 DEF Undisturbed, NoneForgotten, Orderly
<1>5. pc'[q] = "updating" =>
        /\ \A k \in Keys : klock'[k] = q => k \in job'[q].written \/ last'[k] = 0
        /\ \A k \in ToWrite(q)' : last'[k] # 0 \/ klock'[k] = q
  BY <1>1 DEF Undisturbed, NoneForgotten, Orderly
<1>6. /\ pc'[q] \in {"idle", "selecting", "counting"} => job'[q].locked = {}
      /\ pc'[q] = "locking" => \A e \in job'[q].locked, f \in ToLock(q)' : e < f
      /\ pc'[q] \notin {"inserting", "updating"} =>
           job'[q].written = {} /\ \A k \in Keys : klock'[k] # q
      /\ \A k \in job'[q].written, l \in ToWrite(q)' : k < l
  BY <1>1 DEF Undisturbed, Orderly
<1> QED
  BY <1>3, <1>4, <1>5, <1>6 DEF Orderly

\* A step that touches neither locks nor processes nor last successes.
LEMMA StillOrdered ==
  ASSUME TypeOK, Ordered, UNCHANGED <<last, lock, klock, pc, job>>
  PROVE  Ordered'
BY OthersStayOrderly DEF Ordered, Undisturbed, NoneForgotten

\* A step of p that changes the locks of p at most, and no last success.
LEMMA StepKeepsOrder ==
  ASSUME TypeOK, Ordered, NEW p \in Procs, Orderly(p)', last' = last,
         \A q \in Procs \ {p} :
           /\ pc'[q] = pc[q] /\ job'[q] = job[q]
           /\ \A e \in Events : lock'[e] = q => lock[e] = q
           /\ \A k \in Keys : klock'[k] = q <=> klock[k] = q
  PROVE  Ordered'
BY OthersStayOrderly DEF Ordered, Undisturbed, NoneForgotten

-----------------------------------------------------------------------------
(* Processes that hold nothing.                                            *)

\* p has released what it held, or has not locked anything yet.
Unladen(p) ==
  /\ \A e \in Events : lock'[e] # p
  /\ \A k \in Keys : klock'[k] # p
  /\ job'[p].locked = {} /\ job'[p].written = {}
  /\ pc'[p] \in {"idle", "selecting", "counting", "locking"}

LEMMA UnladenIsOrderly ==
  ASSUME NEW p \in Procs, Unladen(p)
  PROVE  Orderly(p)'
BY DEF Unladen, Orderly

LEMMA EarlyIsUnladen ==
  ASSUME NEW p \in Procs, Orderly(p), pc[p] \in {"idle", "selecting", "counting"}
  PROVE  /\ \A e \in Events : lock[e] # p
         /\ \A k \in Keys : klock[k] # p
         /\ job[p].locked = {} /\ job[p].written = {}
BY DEF Orderly

LEMMA NextArmDropsAll ==
  ASSUME TypeOK, NEW p \in Procs, NextArm(p)
  PROVE  /\ job'[p].locked = {} /\ job'[p].written = {} /\ pc'[p] \in {"idle", "selecting"}
         /\ \A q \in Procs \ {p} : pc'[q] = pc[q] /\ job'[q] = job[q]
<1> DEFINE next == [NoJob EXCEPT !.arm = job[p].arm + 1]
<1>1. /\ NoJob.locked = {} /\ NoJob.written = {}
      /\ next.locked = {} /\ next.written = {}
  BY DEF NoJob
<1>2. PICK phase \in {"idle", "selecting"}, j \in {NoJob, next} : Goes(p, phase, j)
  BY DEF NextArm
<1>3. j.locked = {} /\ j.written = {}
  BY <1>1, <1>2
<1> HIDE DEF next
<1> QED
  BY <1>2, <1>3 DEF Goes, TypeOK

LEMMA ReleaseFrees ==
  ASSUME TypeOK, NEW p \in Procs, Release(p)
  PROVE  /\ \A e \in Events : lock'[e] # p
         /\ \A k \in Keys : klock'[k] # p
         /\ \A q \in Procs \ {p} :
              /\ \A e \in Events : lock'[e] = q => lock[e] = q
              /\ \A k \in Keys : klock'[k] = q <=> klock[k] = q
<1>1. \A q \in Procs : q # Nobody
  BY ConstantsAssumption
<1> QED
  BY <1>1 DEF TypeOK, Release

-----------------------------------------------------------------------------
(* One step of each kind.                                                  *)

LEMMA AskOrdered ==
  ASSUME TypeOK, Ordered, NEW o \in Procs, NEW write, NEW ids, NEW rows, Ask(o, write, ids, rows)
  PROVE  Ordered'
<1>1. /\ pc[o] = "idle" /\ pc'[o] = "locking" /\ job'[o].locked = {} /\ job'[o].written = {}
      /\ \A q \in Procs \ {o} : pc'[q] = pc[q] /\ job'[q] = job[q]
  BY DEF Ask, NoJob, TypeOK
<1>2. UNCHANGED <<last, lock, klock>>
  BY DEF Ask
<1>3. Orderly(o)'
  BY <1>1, <1>2, EarlyIsUnladen, UnladenIsOrderly DEF Unladen, Ordered
<1> QED
  BY <1>1, <1>2, <1>3, StepKeepsOrder

\* Prune, Stop, Select, Count and NothingDue.
LEMMA EarlyOrdered ==
  ASSUME TypeOK, Ordered, NEW p \in Procs,
         Prune(p) \/ Stop(p) \/ Select(p) \/ Count(p) \/ NothingDue(p)
  PROVE  Ordered'
<1>1. pc[p] \in {"idle", "selecting", "counting"} /\ UNCHANGED <<last, lock, klock>>
  BY DEF Prune, Stop, Select, Count, NothingDue
<1>2. /\ \A e \in Events : lock[e] # p
      /\ \A k \in Keys : klock[k] # p
      /\ job[p].locked = {} /\ job[p].written = {} /\ job[p] \in Job
  BY <1>1, EarlyIsUnladen DEF Ordered, TypeOK
<1>3. /\ job'[p].locked = {} /\ job'[p].written = {}
      /\ pc'[p] \in {"idle", "selecting", "counting", "locking"}
      /\ \A q \in Procs \ {p} : pc'[q] = pc[q] /\ job'[q] = job[q]
  <2>1. CASE Prune(p) \/ Stop(p)
    BY <2>1 DEF Prune, Stop, Goes, NoJob, TypeOK
  <2>2. CASE Select(p)
    <3>1. PICK S : Goes(p, "counting", [job[p] EXCEPT !.ids = S])
      BY <2>2 DEF Select
    <3> QED
      BY <1>2, <3>1 DEF Goes, TypeOK, Job
  <2>3. CASE Count(p)
    <3>1. PICK chunk, ids : Goes(p, "locking", [job[p] EXCEPT !.chunk = chunk, !.ids = ids])
      BY <2>3 DEF Count
    <3> QED
      BY <1>2, <3>1 DEF Goes, TypeOK, Job
  <2>4. CASE NothingDue(p)
    BY <2>4, NextArmDropsAll DEF NothingDue
  <2> QED
    BY <2>1, <2>2, <2>3, <2>4
<1>4. Orderly(p)'
  BY <1>1, <1>2, <1>3, UnladenIsOrderly DEF Unladen
<1> QED
  BY <1>1, <1>3, <1>4, StepKeepsOrder

\* Crash, and Write: the locks go.
LEMMA EndOrdered ==
  ASSUME TypeOK, Ordered, NEW p \in Procs, Crash(p) \/ Write(p)
  PROVE  Ordered'
<1>1. /\ pc' = [pc EXCEPT ![p] = "idle"] /\ job' = [job EXCEPT ![p] = NoJob]
      /\ Release(p) /\ last' = last
  BY DEF Crash, Write
<1>2. /\ pc'[p] = "idle" /\ job'[p].locked = {} /\ job'[p].written = {}
      /\ \A q \in Procs \ {p} : pc'[q] = pc[q] /\ job'[q] = job[q]
  BY <1>1 DEF NoJob, TypeOK
<1>3. Orderly(p)'
  BY <1>1, <1>2, ReleaseFrees, UnladenIsOrderly DEF Unladen
<1> QED
  BY <1>1, <1>2, <1>3, ReleaseFrees, StepKeepsOrder

LEMMA LockOrdered ==
  ASSUME TypeOK, Ordered, NEW p \in Procs, NEW e \in Events, Lock(p, e)
  PROVE  Ordered'
<1>1. job[p] \in Job /\ pc[p] = "locking" /\ pc' = pc /\ Orderly(p) /\ UNCHANGED <<last, klock>>
  BY DEF TypeOK, Lock, Ordered
<1>2. e \in ToLock(p) /\ \A f \in ToLock(p) : e <= f
  BY DEF Lock, First
<1>3. \A f \in ToLock(p) : f \in Nat
  BY <1>1, ConstantsAssumption DEF ToLock, Job
<1>4. /\ \A f \in job[p].locked, g \in ToLock(p) : f < g
      /\ \A f \in Events : lock[f] = p => f \in job[p].locked
      /\ job[p].written = {} /\ \A k \in Keys : klock[k] # p
  BY <1>1 DEF Orderly
<1>5. \A f \in ToLock(p) \ {e} : e < f
  BY <1>2, <1>3
<1>6. \A q \in Procs \ {p} : job'[q] = job[q] /\ \A f \in Events : lock'[f] = q => lock[f] = q
  BY DEF Lock, TypeOK
<1>7. /\ ToLock(p)' \subseteq ToLock(p) \ {e}
      /\ job'[p].locked = job[p].locked \/ job'[p].locked = job[p].locked \cup {e}
      /\ \A f \in Events : lock'[f] = p => f \in job'[p].locked
      /\ job'[p].written = {}
  <2>1. CASE event[e] = "live"
    <3>1. job'[p] = [job[p] EXCEPT !.locked = @ \cup {e}] /\ lock' = [lock EXCEPT ![e] = p]
      BY <2>1 DEF Lock, TypeOK
    <3>2. job'[p].locked = job[p].locked \cup {e} /\ job'[p].ids = job[p].ids /\ job'[p].written = {}
      BY <1>1, <1>4, <3>1 DEF Job
    <3> QED
      BY <1>4, <3>1, <3>2 DEF ToLock, TypeOK
  <2>2. CASE event[e] # "live"
    <3>1. job'[p] = [job[p] EXCEPT !.ids = @ \ {e}] /\ lock' = lock
      BY <2>2 DEF Lock, TypeOK
    <3>2. job'[p].locked = job[p].locked /\ job'[p].ids = job[p].ids \ {e} /\ job'[p].written = {}
      BY <1>1, <1>4, <3>1 DEF Job
    <3> QED
      BY <1>4, <3>1, <3>2 DEF ToLock
  <2> QED
    BY <2>1, <2>2
<1>8. \A f \in job'[p].locked, g \in ToLock(p)' : f < g
  BY <1>4, <1>5, <1>7
<1>9. Orderly(p)'
  BY <1>1, <1>4, <1>7, <1>8 DEF Orderly
<1> QED
  BY <1>1, <1>6, <1>9, StepKeepsOrder

LEMMA RecheckOrdered ==
  ASSUME TypeOK, Ordered, NEW p \in Procs, Recheck(p)
  PROVE  Ordered'
<1>1. CASE job[p].chunk /\ StillDue(p) = {}
  <2>1. NextArm(p) /\ Release(p) /\ last' = last
    BY <1>1 DEF Recheck
  <2>2. Orderly(p)'
    BY <2>1, NextArmDropsAll, ReleaseFrees, UnladenIsOrderly DEF Unladen
  <2> QED
    BY <2>1, <2>2, NextArmDropsAll, ReleaseFrees, StepKeepsOrder
<1>2. CASE ~(job[p].chunk /\ StillDue(p) = {})
  <2>1. job[p] \in Job /\ pc[p] = "locking" /\ Orderly(p)
    BY DEF TypeOK, Recheck, Ordered
  <2>2. Goes(p, "gathering", [job[p] EXCEPT !.ids = StillDue(p)]) /\ UNCHANGED <<last, lock, klock>>
    BY <1>2 DEF Recheck
  <2>3. /\ pc'[p] = "gathering" /\ job'[p].locked = job[p].locked /\ job'[p].written = job[p].written
        /\ \A q \in Procs \ {p} : pc'[q] = pc[q] /\ job'[q] = job[q]
    BY <2>1, <2>2 DEF Goes, TypeOK, Job
  <2>4. Orderly(p)'
    BY <2>1, <2>2, <2>3 DEF Orderly
  <2> QED
    BY <2>2, <2>3, <2>4, StepKeepsOrder
<1> QED
  BY <1>1, <1>2

LEMMA GatherOrdered ==
  ASSUME TypeOK, Ordered, NEW p \in Procs, Gather(p)
  PROVE  Ordered'
<1>1. job[p] \in Job /\ pc[p] = "gathering" /\ Orderly(p) /\ UNCHANGED <<last, lock, klock>>
  BY DEF TypeOK, Gather, Ordered
<1>2. PICK S, newest : Goes(p, "inserting", [job[p] EXCEPT !.doomed = S, !.newest = newest])
  BY DEF Gather
<1>3. /\ pc'[p] = "inserting" /\ job'[p].locked = job[p].locked /\ job'[p].written = job[p].written
      /\ \A q \in Procs \ {p} : pc'[q] = pc[q] /\ job'[q] = job[q]
  BY <1>1, <1>2 DEF Goes, TypeOK, Job
<1>4. Orderly(p)'
  BY <1>1, <1>3 DEF Orderly
<1> QED
  BY <1>1, <1>3, <1>4, StepKeepsOrder

-----------------------------------------------------------------------------
(* Writing of the last successes.                                          *)

\* p is done with k: it passes over it, or takes its lock.
LEMMA WroteIs ==
  ASSUME TypeOK, NEW p \in Procs, Orderly(p), NEW k \in Keys, Wrote(p, k), First(k, ToWrite(p)),
         klock' = klock \/ (klock[k] \in {Nobody, p} /\ klock' = [klock EXCEPT ![k] = p])
  PROVE  /\ job'[p].written = job[p].written \cup {k} /\ job'[p].locked = job[p].locked
         /\ ToWrite(p)' \subseteq ToWrite(p) /\ job[p].written \subseteq Keys
         /\ \A j \in job'[p].written, l \in ToWrite(p)' : j < l
         /\ \A l \in Keys \ {k} : klock'[l] = klock[l]
         /\ \A q \in Procs \ {p} : /\ job'[q] = job[q]
                                   /\ \A l \in Keys : klock'[l] = q <=> klock[l] = q
<1>1. job[p] \in Job /\ job'[p] = [job[p] EXCEPT !.written = @ \cup {k}]
  BY DEF TypeOK, Wrote
<1>2. /\ job'[p].written = job[p].written \cup {k} /\ job'[p].locked = job[p].locked
      /\ job'[p].newest = job[p].newest /\ job[p].written \subseteq Keys
  BY <1>1 DEF Job
<1>3. ToWrite(p)' = ToWrite(p) \ {k}
  BY <1>2 DEF ToWrite
<1>4. k \in ToWrite(p) /\ \A l \in ToWrite(p) : l \in Nat /\ k <= l
  BY ConstantsAssumption DEF First, ToWrite
<1>5. \A l \in ToWrite(p) \ {k} : k < l
  BY <1>4
<1>6. \A j \in job[p].written, l \in ToWrite(p) : j < l
  BY DEF Orderly
<1>7. \A j \in job'[p].written, l \in ToWrite(p)' : j < l
  BY <1>2, <1>3, <1>5, <1>6
<1>8. \A q \in Procs \ {p} : q # Nobody
  BY ConstantsAssumption
<1>9. \A q \in Procs \ {p} : job'[q] = job[q] /\ \A l \in Keys : klock'[l] = q <=> klock[l] = q
  BY <1>8 DEF TypeOK, Wrote
<1>10. \A l \in Keys \ {k} : klock'[l] = klock[l]
  BY DEF TypeOK
<1> QED
  BY <1>2, <1>3, <1>7, <1>9, <1>10

LEMMA InsertOrdered ==
  ASSUME TypeOK, Ordered, NEW p \in Procs, NEW k \in Keys, Insert(p, k)
  PROVE  Ordered'
<1>1. /\ pc[p] = "inserting" /\ pc' = pc /\ Orderly(p) /\ Wrote(p, k) /\ First(k, ToWrite(p))
      /\ UNCHANGED <<last, lock>>
  BY DEF Insert, Ordered
<1>2. \/ klock' = klock /\ last[k] # 0
      \/ klock[k] \in {Nobody, p} /\ klock' = [klock EXCEPT ![k] = p] /\ last[k] = 0
  BY DEF Insert, KeyFree
<1>3. /\ job'[p].written = job[p].written \cup {k} /\ job'[p].locked = job[p].locked
      /\ \A j \in job'[p].written, l \in ToWrite(p)' : j < l
      /\ \A l \in Keys \ {k} : klock'[l] = klock[l]
      /\ job[p].written \subseteq Keys
  BY <1>1, <1>2, WroteIs
<1>4. \A l \in Keys : klock'[l] = p => l \in job'[p].written /\ last[l] = 0
  BY <1>1, <1>2, <1>3 DEF Orderly
<1>5. \A l \in job'[p].written : last[l] # 0 \/ klock'[l] = p
  BY <1>1, <1>2, <1>3 DEF Orderly, TypeOK
<1>6. Orderly(p)'
  BY <1>1, <1>3, <1>4, <1>5 DEF Orderly
<1> QED
  BY <1>1, <1>2, <1>6, WroteIs, StepKeepsOrder

LEMMA InsertedOrdered ==
  ASSUME TypeOK, Ordered, NEW p \in Procs, Inserted(p)
  PROVE  Ordered'
<1>1. /\ job[p] \in Job /\ pc[p] = "inserting" /\ ToWrite(p) = {} /\ Orderly(p)
      /\ UNCHANGED <<last, lock, klock>>
  BY DEF TypeOK, Inserted, Ordered
<1>2. Goes(p, "updating", [job[p] EXCEPT !.written = {}])
  BY DEF Inserted
<1>3. /\ pc'[p] = "updating" /\ job'[p].locked = job[p].locked /\ job'[p].written = {}
      /\ job'[p].newest = job[p].newest
      /\ \A q \in Procs \ {p} : pc'[q] = pc[q] /\ job'[q] = job[q]
  BY <1>1, <1>2 DEF Goes, TypeOK, Job
<1>4. ToWrite(p)' \subseteq job[p].written
  BY <1>1, <1>3 DEF ToWrite
<1>5. Orderly(p)'
  BY <1>1, <1>3, <1>4 DEF Orderly
<1> QED
  BY <1>1, <1>3, <1>5, StepKeepsOrder

LEMMA UpdateOrdered ==
  ASSUME TypeOK, Ordered, NEW p \in Procs, NEW k \in Keys, Update(p, k)
  PROVE  Ordered'
<1>1. /\ pc[p] = "updating" /\ pc' = pc /\ Orderly(p) /\ Wrote(p, k) /\ First(k, ToWrite(p))
      /\ UNCHANGED <<last, lock>>
  BY DEF Update, Ordered
<1>2. \/ klock' = klock
      \/ klock[k] \in {Nobody, p} /\ klock' = [klock EXCEPT ![k] = p]
  BY DEF Update, KeyFree
<1>3. /\ job'[p].written = job[p].written \cup {k} /\ job'[p].locked = job[p].locked
      /\ ToWrite(p)' \subseteq ToWrite(p)
      /\ \A j \in job'[p].written, l \in ToWrite(p)' : j < l
      /\ \A l \in Keys \ {k} : klock'[l] = klock[l]
  BY <1>1, <1>2, WroteIs
<1>4. \A l \in Keys : klock'[l] = p => l \in job'[p].written \/ last[l] = 0
  BY <1>1, <1>3 DEF Orderly
<1>5. \A l \in ToWrite(p)' : last[l] # 0 \/ klock'[l] = p
  BY <1>1, <1>2, <1>3 DEF Orderly, TypeOK, ToWrite
<1>6. Orderly(p)'
  BY <1>1, <1>3, <1>4, <1>5 DEF Orderly
<1> QED
  BY <1>1, <1>2, <1>6, WroteIs, StepKeepsOrder

LEMMA DeleteOrdered ==
  ASSUME Consistent, Ordered, NEW p \in Procs, Delete(p)
  PROVE  Ordered'
<1>1. TypeOK /\ Release(p) /\ \A k \in Keys : last'[k] = Recorded(p, k)
  BY DEF Consistent, Delete
<1>2. /\ job'[p].locked = {} /\ job'[p].written = {} /\ pc'[p] \in {"idle", "selecting"}
      /\ \A q \in Procs \ {p} : pc'[q] = pc[q] /\ job'[q] = job[q]
  <2>1. CASE job[p].chunk /\ job[p].doomed = {}
    BY <1>1, <2>1, NextArmDropsAll DEF Delete
  <2>2. CASE ~(job[p].chunk /\ job[p].doomed = {})
    <3> DEFINE j == [NoJob EXCEPT !.arm = job[p].arm]
    <3>1. Goes(p, "selecting", j)
      BY <2>2 DEF Delete
    <3>2. j.locked = {} /\ j.written = {}
      BY DEF NoJob
    <3> HIDE DEF j
    <3> QED
      BY <1>1, <3>1, <3>2 DEF Goes, TypeOK
  <2> QED
    BY <2>1, <2>2
<1>3. Orderly(p)'
  BY <1>1, <1>2, ReleaseFrees, UnladenIsOrderly DEF Unladen
<1>4. NoneForgotten
  <2> SUFFICES ASSUME NEW k \in Keys, last[k] # 0 PROVE last'[k] # 0
    BY DEF NoneForgotten
  <2>1. last[k] \in Nat /\ job[p].newest[k] \in Nat
    <3>1. last[k] \in Times \cup {0} /\ job[p].newest[k] \in Times \cup {0}
      BY <1>1 DEF TypeOK, Job
    <3> QED
      BY <3>1, TimesAreNumbers
  <2> QED
    BY <1>1, <2>1 DEF Recorded
<1>5. \A q \in Procs \ {p} : Undisturbed(q)
  BY <1>1, <1>2, ReleaseFrees DEF Undisturbed, Recorded
<1> QED
  BY <1>1, <1>3, <1>4, <1>5, OthersStayOrderly DEF Ordered

-----------------------------------------------------------------------------
(* The invariant.                                                          *)

LEMMA InitOrdered == Init => Ordered
BY ConstantsAssumption DEF Init, Ordered, Orderly, NoJob, ToLock, ToWrite

LEMMA SweepOrdered ==
  ASSUME Consistent, Ordered, NEW p \in Pruners, Sweep(p)
  PROVE  Ordered'
<1>1. p \in Procs /\ TypeOK
  BY DEF Procs, Consistent
<1>2. (Prune(p) \/ Stop(p) \/ Select(p) \/ Count(p) \/ NothingDue(p)) => Ordered'
  BY <1>1, EarlyOrdered
<1>3. (Recheck(p) \/ Gather(p) \/ Inserted(p) \/ Delete(p) \/ Crash(p)) => Ordered'
  BY <1>1, RecheckOrdered, GatherOrdered, InsertedOrdered, DeleteOrdered, EndOrdered
<1>4. ASSUME NEW e \in Events, Lock(p, e) PROVE Ordered'
  BY <1>1, <1>4, LockOrdered
<1>5. ASSUME NEW k \in Keys, Insert(p, k) \/ Update(p, k) PROVE Ordered'
  BY <1>1, <1>5, InsertOrdered, UpdateOrdered
<1> QED
  BY <1>2, <1>3, <1>4, <1>5 DEF Sweep

LEMMA OperateOrdered ==
  ASSUME Consistent, Ordered, NEW o \in Operators, Operate(o)
  PROVE  Ordered'
<1>1. o \in Procs /\ TypeOK
  BY DEF Procs, Consistent
<1>2. ASSUME NEW e \in Events, Replay(o, e) \/ Lock(o, e) PROVE Ordered'
  BY <1>1, <1>2, AskOrdered, LockOrdered DEF Replay
<1>3. ASSUME NEW S \in SUBSET Rows, Requeue(o, S) PROVE Ordered'
  BY <1>1, <1>3, AskOrdered DEF Requeue
<1>4. ASSUME NEW E \in SUBSET Events, Cancel(o, E) PROVE Ordered'
  BY <1>1, <1>4, AskOrdered DEF Cancel
<1>5. (Write(o) \/ Crash(o)) => Ordered'
  BY <1>1, EndOrdered
<1> QED
  BY <1>2, <1>3, <1>4, <1>5 DEF Operate

LEMMA StepOrdered == Consistent /\ Ordered /\ [Next]_vars => Ordered'
<1> SUFFICES ASSUME Consistent, Ordered, [Next]_vars PROVE Ordered'
  OBVIOUS
<1>1. TypeOK
  BY DEF Consistent
<1>2. ASSUME NEW e \in Events, Fire(e) \/ \E window \in {"own", "ordinary"} : Age(e, window)
      PROVE  Ordered'
  BY <1>1, <1>2, StillOrdered DEF Fire, Age
<1>3. ASSUME NEW r \in Rows, Deliver(r) PROVE Ordered'
  BY <1>1, <1>3, StillOrdered DEF Deliver
<1>4. ASSUME NEW p \in Pruners, Sweep(p) PROVE Ordered'
  BY <1>4, SweepOrdered
<1>5. ASSUME NEW o \in Operators, Operate(o) PROVE Ordered'
  BY <1>5, OperateOrdered
<1>6. ASSUME NEW q \in Readers, ReadPruned(q) \/ Reported(q) PROVE Ordered'
  BY <1>1, <1>6, StillOrdered DEF ReadPruned, Reported
<1>7. CASE UNCHANGED vars
  BY <1>1, <1>7, StillOrdered DEF vars
<1> QED
  BY <1>2, <1>3, <1>4, <1>5, <1>6, <1>7 DEF Next

\* The whole of the inductive invariant: what a sweep names is locked and due,
\* locks are taken in order, and reports miss only what has moved.
THEOREM InvariantHolds == Spec => []IInv
<1>1. Consistent /\ Ordered /\ [Next]_vars => Consistent' /\ Ordered'
  BY StepSound, StepOrdered
<1> QED
  BY <1>1, InitSound, InitOrdered, ReportsMissOnlyWhatMoved, PTL DEF Spec, IInv

-----------------------------------------------------------------------------
(* No circle of waiting processes.                                         *)

\* What a process that waits for a last success waits for.
AsksKey(p, q, k) ==
  /\ k \in ToWrite(p) /\ klock[k] = q /\ q # p
  /\ IF pc[p] = "inserting" THEN last[k] = 0 ELSE last[k] < job[p].newest[k]

\* Two in a row: the second has locked what the first asks for, so that it is
\* updating if the first is, and asks for a greater key.
LEMMA NextAsksGreater ==
  ASSUME Consistent, Ordered, NEW p \in Procs, NEW q \in Procs, NEW k \in Keys, NEW l \in Keys,
         pc[p] \in {"inserting", "updating"}, AsksKey(p, q, k),
         pc[q] = pc[p], l \in ToWrite(q)
  PROVE  k < l
<1>1. Orderly(p) /\ Orderly(q)
  BY DEF Ordered
<1>2. pc[p] = "updating" => last[k] # 0
  BY <1>1 DEF Orderly, AsksKey
<1>3. k \in job[q].written
  BY <1>1, <1>2 DEF Orderly, AsksKey
<1> QED
  BY <1>1, <1>3 DEF Orderly

\* Whoever holds what an updating process asks for is updating.
LEMMA HolderIsAsFar ==
  ASSUME Consistent, Ordered, NEW p \in Procs, NEW q \in Procs, NEW k \in Keys, AsksKey(p, q, k),
         pc[p] \in {"inserting", "updating"}
  PROVE  pc[q] \in {"inserting", "updating"} /\ (pc[p] = "updating" => pc[q] = "updating")
<1>1. Orderly(p) /\ Orderly(q)
  BY DEF Ordered
<1>2. pc[p] = "updating" => last[k] # 0
  BY <1>1 DEF Orderly, AsksKey
<1> QED
  BY <1>1, <1>2 DEF Orderly, AsksKey

\* No sweeps and operations wait for each other in a circle, whatever they ask for.
THEOREM NobodyWaitsInACircle == Spec => []NoWaitCycle
<1>1. IInv => NoWaitCycle
  <2> SUFFICES ASSUME IInv,
                      NEW S \in (SUBSET Procs) \ {{}}, \A p \in S : \E q \in S : WaitsFor(p, q)
               PROVE  FALSE
    BY DEF NoWaitCycle
  <2>1. Consistent /\ Ordered /\ TypeOK
    BY DEF IInv, Consistent
  <2>2. \A p \in S : p \in Procs /\ pc[p] \in {"locking", "inserting", "updating"}
    BY DEF WaitsFor
  <2>3. \A p \in S : pc[p] \in {"inserting", "updating"} =>
          \E q \in S, k \in Keys : AsksKey(p, q, k)
    BY DEF WaitsFor, AsksKey, ToWrite
  <2>4. ASSUME NEW phase \in {"inserting", "updating"},
               \A p \in S, q \in S, k \in Keys :
                 pc[p] = phase /\ AsksKey(p, q, k) => pc[q] = phase
        PROVE  \A p \in S : pc[p] # phase
    <3> DEFINE U == {k \in Keys : \E p \in S, q \in S : pc[p] = phase /\ AsksKey(p, q, k)}
    <3>1. ASSUME NEW k \in U PROVE \E l \in U : k < l
      <4>1. PICK p \in S, q \in S : pc[p] = phase /\ AsksKey(p, q, k)
        OBVIOUS
      <4>2. pc[q] = phase
        BY <2>4, <4>1
      <4>3. PICK r \in S, l \in Keys : AsksKey(q, r, l)
        BY <2>3, <4>2
      <4>4. k < l
        BY <2>1, <2>2, <4>1, <4>2, <4>3, NextAsksGreater DEF AsksKey
      <4> QED
        BY <4>2, <4>3, <4>4
    <3>2. Numbers(U) /\ IsFiniteSet(U)
      BY ConstantsAssumption, FS_Subset DEF Numbers
    <3>3. U = {}
      <4> HIDE DEF U
      <4> QED
        BY <3>1, <3>2, NoClimbing
    <3> QED
      BY <2>3, <3>3
  <2>5. \A p \in S : pc[p] # "updating"
    <3>1. \A p \in S, q \in S, k \in Keys : pc[p] = "updating" /\ AsksKey(p, q, k) => pc[q] = "updating"
      BY <2>1, <2>2, HolderIsAsFar
    <3> QED
      BY <2>4, <3>1
  <2>6. \A p \in S : pc[p] # "inserting"
    <3>1. \A p \in S, q \in S, k \in Keys : pc[p] = "inserting" /\ AsksKey(p, q, k) => pc[q] = "inserting"
      BY <2>1, <2>2, <2>5, HolderIsAsFar
    <3> QED
      BY <2>4, <3>1
  <2>7. \A p \in S : \E e \in ToLock(p), q \in S : lock[e] = q
    BY <2>2, <2>5, <2>6 DEF WaitsFor
  <2> DEFINE U == {e \in Events : \E q \in S : lock[e] = q /\ e \in job[q].locked}
  <2>8. \A p \in S : Orderly(p) /\ ToLock(p) \subseteq Events /\ pc[p] = "locking"
    BY <2>1, <2>2, <2>5, <2>6 DEF Ordered, TypeOK, Job, ToLock
  <2>9. \A p \in S : \E e \in U : e \in ToLock(p)
    BY <2>7, <2>8 DEF Orderly
  <2>10. ASSUME NEW e \in U PROVE \E f \in U : e < f
    <3>1. PICK q \in S : lock[e] = q /\ e \in job[q].locked
      OBVIOUS
    <3>2. PICK f \in U : f \in ToLock(q)
      BY <2>9
    <3>3. e < f
      BY <2>8, <3>1, <3>2 DEF Orderly
    <3> QED
      BY <3>2, <3>3
  <2>11. Numbers(U) /\ IsFiniteSet(U)
    BY ConstantsAssumption, FS_Subset DEF Numbers
  <2>12. U = {}
    <3> HIDE DEF U
    <3> QED
      BY <2>10, <2>11, NoClimbing
  <2> QED
    BY <2>9, <2>12
<1> QED
  BY <1>1, InvariantHolds, PTL

-----------------------------------------------------------------------------
(* What fits in a batch.                                                   *)

LEMMA LiveIsFinite ==
  ASSUME NEW E
  PROVE  /\ IsFiniteSet(RowsThereOf(E)) /\ Cardinality(RowsThereOf(E)) \in Nat
         /\ \A e \in Events : IsFiniteSet(Live(e)) /\ RowCount(e) \in Nat
<1>1. RowsThereOf(E) \subseteq Rows /\ \A e \in Events : Live(e) \subseteq Rows
  BY DEF RowsThereOf, Live, RowsOf
<1> QED
  BY <1>1, ConstantsAssumption, FS_Subset, FS_CardinalityType DEF RowCount

\* The rows of several events are those of each.
LEMMA RowsAdd ==
  ASSUME NEW E \in SUBSET Events, NEW f, \A e \in E : f[e] = RowCount(e)
  PROVE  SumFunctionOnSet(f, E) = Cardinality(RowsThereOf(E))
<1> DEFINE U == {T \in SUBSET E : SumFunctionOnSet(f, T) # Cardinality(RowsThereOf(T))}
<1> SUFFICES ASSUME U # {} PROVE FALSE
  OBVIOUS
<1>1. IsFiniteSet(E)
  BY ConstantsAssumption, FS_Subset
<1>2. PICK T \in U : \A R \in U : R \subseteq T => R = T
  <2> HIDE DEF U
  <2>1. U \in SUBSET (SUBSET E)
    BY DEF U
  <2> QED
    BY <1>1, <2>1, SmallestSubset
<1>3. T \in SUBSET E /\ IsFiniteSet(T) /\ Counts(f, T)
  BY <1>1, <1>2, FS_Subset, LiveIsFinite DEF Counts
<1>4. T # {}
  <2>1. RowsThereOf({}) = {}
    BY DEF RowsThereOf
  <2> QED
    BY <1>2, <2>1, SumOfNone, FS_EmptySet
<1>5. PICK e \in T : TRUE
  BY <1>4
<1> DEFINE R == T \ {e}
<1>6. SumFunctionOnSet(f, R) = Cardinality(RowsThereOf(R))
  BY <1>2, <1>3
<1>7. SumFunctionOnSet(f, T) = RowCount(e) + SumFunctionOnSet(f, R)
  BY <1>3, SumWith
<1>8. RowsThereOf(T) = Live(e) \cup RowsThereOf(R) /\ Live(e) \cap RowsThereOf(R) = {}
  BY <1>3 DEF RowsThereOf, Live, RowsOf
<1>9. Cardinality(RowsThereOf(T)) = RowCount(e) + Cardinality(RowsThereOf(R))
  <2>1. e \in Events /\ IsFiniteSet(Live(e)) /\ IsFiniteSet(RowsThereOf(R)) /\ Cardinality({}) = 0
    BY <1>3, LiveIsFinite, FS_EmptySet
  <2>2. Cardinality(Live(e)) \in Nat /\ Cardinality(RowsThereOf(R)) \in Nat
    BY <2>1, FS_CardinalityType
  <2> HIDE DEF R
  <2>3. Cardinality(Live(e) \cup RowsThereOf(R)) =
          Cardinality(Live(e)) + Cardinality(RowsThereOf(R)) - Cardinality(Live(e) \cap RowsThereOf(R))
    BY <2>1, FS_Union
  <2>4. Cardinality(Live(e) \cap RowsThereOf(R)) = 0
    BY <1>8, <2>1, Zenon
  <2>5. Cardinality(RowsThereOf(T)) = Cardinality(Live(e) \cup RowsThereOf(R))
    BY <1>8, Zenon
  <2> QED
    BY <2>2, <2>3, <2>4, <2>5 DEF RowCount
<1> QED
  BY <1>2, <1>6, <1>7, <1>9

\* Of the events counted, e has all its rows read, or the rows read are Size.
LEMMA CountedIs ==
  ASSUME NEW S \in SUBSET Events, NEW e \in S, NEW before,
         before = SumFunctionOnSet([f \in S |-> RowCount(f)], {f \in S : f < e})
  PROVE  /\ before \in Nat /\ Counted(S, e) \in Nat
         /\ \/ Counted(S, e) = RowCount(e)
            \/ before >= Size /\ Counted(S, e) = 0
            \/ before < Size /\ Counted(S, e) + before = Size
<1>1. before \in Nat
  <2> DEFINE g == [f \in S |-> RowCount(f)]
             T == {f \in S : f < e}
  <2>1. IsFiniteSet(T) /\ Counts(g, T)
    BY ConstantsAssumption, FS_Subset, LiveIsFinite DEF Counts
  <2> HIDE DEF g
  <2>2. SumFunctionOnSet(g, T) \in Nat
    BY <2>1, SumIsNumber
  <2> QED
    BY <2>2 DEF g
<1>2. Size \in Nat /\ RowCount(e) \in Nat
  BY ConstantsAssumption, LiveIsFinite
<1>3. Counted(S, e) = IF before >= Size THEN 0 ELSE Min({RowCount(e), Size - before})
  BY DEF Counted
<1>4. CASE before >= Size
  BY <1>1, <1>3, <1>4
<1>5. CASE ~(before >= Size)
  <2>1. Size - before \in Nat
    BY <1>1, <1>2, <1>5
  <2>2. Counted(S, e) = IF RowCount(e) <= Size - before THEN RowCount(e) ELSE Size - before
    BY <1>2, <1>3, <1>5, <2>1, MinOfTwo
  <2> QED
    BY <1>1, <1>2, <1>5, <2>1, <2>2
<1> QED
  BY <1>4, <1>5

\* The costs of the events T are their number and the rows counted of them.
LEMMA CostsAdd ==
  ASSUME NEW S \in SUBSET Events, NEW T \in SUBSET S
  PROVE  /\ IsFiniteSet(T) /\ Counts([f \in S |-> Counted(S, f)], T) /\ Counts([f \in S |-> Cost(S, f)], T)
         /\ SumFunctionOnSet([f \in S |-> Cost(S, f)], T) =
              Cardinality(T) + SumFunctionOnSet([f \in S |-> Counted(S, f)], T)
<1>1. IsFiniteSet(T)
  BY ConstantsAssumption, FS_Subset
<1>2. \A e \in S : Counted(S, e) \in Nat /\ Cost(S, e) = 1 + Counted(S, e)
  BY CountedIs DEF Cost
<1> DEFINE c == [f \in S |-> Counted(S, f)]
           k == [f \in S |-> Cost(S, f)]
<1>3. Counts(c, T) /\ Counts(k, T) /\ \A e \in T : k[e] = 1 + c[e]
  BY <1>2 DEF Counts
<1> HIDE DEF c, k
<1>4. SumFunctionOnSet(k, T) = Cardinality(T) + SumFunctionOnSet(c, T)
  BY <1>1, <1>3, SumOfOneMore
<1> QED
  BY <1>1, <1>3, <1>4 DEF c, k

\* What comes before a fitting event was read in full, and so was it: it is
\* not taken for having fewer rows than it has ("that needs no check of its own").
LEMMA FittingIsCounted ==
  ASSUME NEW S \in SUBSET Events, NEW e \in Fitting(S), NEW d \in S, d <= e
  PROVE  Counted(S, d) = RowCount(d)
<1> DEFINE U == {f \in S : f <= e /\ Counted(S, f) # RowCount(f)}
<1> SUFFICES ASSUME U # {} PROVE FALSE
  OBVIOUS
<1>1. \A f \in S : f \in Nat
  BY ConstantsAssumption
<1>2. PICK m \in U : \A f \in U : m <= f
  <2>1. Numbers(U)
    BY <1>1 DEF Numbers
  <2> HIDE DEF U
  <2> QED
    BY <2>1, LeastOfNumbers
<1>3. m \in S /\ m <= e /\ e \in S /\ Counted(S, m) # RowCount(m)
  BY DEF Fitting
<1> DEFINE c == [f \in S |-> Counted(S, f)]
           k == [f \in S |-> Cost(S, f)]
           n == [f \in S |-> RowCount(f)]
           B == {f \in S : f < m}
           P == {f \in S : f <= m}
           before == SumFunctionOnSet(n, B)
<1>4. \A f \in B : c[f] = n[f]
  BY <1>1, <1>2, <1>3
<1>5. P \ {m} = B /\ m \in P /\ c[m] = Counted(S, m)
  BY <1>1, <1>3
<1>6. /\ SumFunctionOnSet(k, P) = Cardinality(P) + SumFunctionOnSet(c, P)
      /\ IsFiniteSet(P) /\ Counts(c, P) /\ Counts(k, P)
  <2>1. P \in SUBSET S
    OBVIOUS
  <2> HIDE DEF P
  <2> QED
    BY <2>1, CostsAdd
<1>7. SumFunctionOnSet(k, P) <= Size
  <2> DEFINE Q == {f \in S : f <= e}
  <2>1. P \in SUBSET Q /\ Q \in SUBSET S
    BY <1>1, <1>3
  <2>2. SumFunctionOnSet(k, Q) <= Size
    BY DEF Fitting
  <2>3. IsFiniteSet(Q) /\ Counts(k, Q)
    <3> HIDE DEF Q
    <3> QED
      BY <2>1, CostsAdd
  <2> HIDE DEF P, Q, k
  <2>4. SumFunctionOnSet(k, P) <= SumFunctionOnSet(k, Q)
    BY <2>1, <2>3, SumOfFewer
  <2>5. SumFunctionOnSet(k, P) \in Nat /\ SumFunctionOnSet(k, Q) \in Nat /\ Size \in Nat
    BY <1>6, <2>3, SumIsNumber, ConstantsAssumption
  <2> QED
    BY <2>2, <2>4, <2>5
<1>8. /\ before \in Nat /\ Counted(S, m) \in Nat
      /\ \/ before >= Size /\ Counted(S, m) = 0
         \/ before < Size /\ Counted(S, m) + before = Size
  <2> HIDE DEF U, P, c, k
  <2> QED
    BY <1>3, CountedIs
<1>9. SumFunctionOnSet(c, P) = Counted(S, m) + before
  <2>1. IsFiniteSet(B)
    BY ConstantsAssumption, FS_Subset
  <2> HIDE DEF c, k, n, P, B
  <2>2. SumFunctionOnSet(c, B) = before
    BY <1>4, <2>1, SumAgrees
  <2>3. SumFunctionOnSet(c, P) = c[m] + SumFunctionOnSet(c, P \ {m})
    BY <1>5, <1>6, SumWith
  <2> QED
    BY <1>5, <2>2, <2>3
<1>10. Cardinality(P) \in Nat /\ Cardinality(P) >= 1
  <2>1. {m} \in SUBSET P /\ IsFiniteSet({m}) /\ Cardinality({m}) = 1
    BY <1>5, FS_Singleton
  <2> HIDE DEF P
  <2>2. Cardinality({m}) <= Cardinality(P) /\ Cardinality(P) \in Nat
    BY <1>6, <2>1, FS_Subset, FS_CardinalityType
  <2> QED
    BY <2>1, <2>2
<1> HIDE DEF c, k, n, P, B, before
<1> QED
  BY <1>6, <1>7, <1>8, <1>9, <1>10, ConstantsAssumption

\* The events of a batch, and their rows, are within its budget.
LEMMA FittingFits ==
  ASSUME NEW S \in SUBSET Events
  PROVE  Cardinality(RowsThereOf(Fitting(S))) + Cardinality(Fitting(S)) <= Size
<1> DEFINE F == Fitting(S)
           c == [f \in S |-> Counted(S, f)]
           k == [f \in S |-> Cost(S, f)]
<1>1. F \in SUBSET S /\ IsFiniteSet(F) /\ Numbers(F) /\ Size \in Nat
  <2>1. F \in SUBSET S
    BY DEF Fitting
  <2> QED
    BY <2>1, ConstantsAssumption, FS_Subset DEF Numbers
<1>2. CASE F = {}
  <2>1. RowsThereOf({}) = {}
    BY DEF RowsThereOf
  <2> QED
    BY <1>1, <1>2, <2>1, FS_EmptySet
<1>3. CASE F # {}
  <2>1. PICK m \in F : \A f \in F : m >= f
    <3> HIDE DEF F
    <3> QED
      BY <1>1, <1>3, MaxIsGreatest
  <2> DEFINE P == {f \in S : f <= m}
  <2>2. \A f \in S : f \in Nat
    BY ConstantsAssumption
  <2>3. SumFunctionOnSet(k, P) <= Size
    BY DEF Fitting
  <2>4. F \in SUBSET P /\ P \in SUBSET S
    BY <1>1, <2>1, <2>2
  <2>5. IsFiniteSet(P) /\ Counts(k, P) /\ Counts(c, F)
    BY <1>1, <2>4, CostsAdd
  <2>6. SumFunctionOnSet(k, F) <= Size
    <3> HIDE DEF F, P, k
    <3>1. SumFunctionOnSet(k, F) <= SumFunctionOnSet(k, P)
      BY <2>4, <2>5, SumOfFewer
    <3>2. SumFunctionOnSet(k, F) \in Nat /\ SumFunctionOnSet(k, P) \in Nat
      <4>1. Counts(k, F)
        BY <2>4, <2>5 DEF Counts
      <4> QED
        BY <1>1, <2>5, <4>1, SumIsNumber
    <3> QED
      BY <1>1, <2>3, <3>1, <3>2
  <2>7. SumFunctionOnSet(k, F) = Cardinality(F) + SumFunctionOnSet(c, F)
    BY <1>1, CostsAdd
  <2>8. SumFunctionOnSet(c, F) = Cardinality(RowsThereOf(F))
    <3>1. \A f \in F : c[f] = RowCount(f)
      BY <1>1, <2>2, FittingIsCounted
    <3>2. F \in SUBSET Events
      BY <1>1
    <3> HIDE DEF F, c
    <3> QED
      BY <3>1, <3>2, RowsAdd
  <2>9. Cardinality(F) \in Nat /\ Cardinality(RowsThereOf(F)) \in Nat
    BY <1>1, FS_CardinalityType, LiveIsFinite
  <2> QED
    BY <2>6, <2>7, <2>8, <2>9
<1> QED
  BY <1>2, <1>3

\* A chunk is no larger than a batch.
LEMMA ChunkFits ==
  ASSUME NEW e
  PROVE  Cardinality(Chunk(e)) <= Size
<1> DEFINE C == Chunk(e)
<1>1. C \in SUBSET Live(e) /\ Live(e) \subseteq Rows
  BY DEF Chunk, Live, RowsOf
<1>2. IsFiniteSet(Live(e)) /\ IsFiniteSet(C) /\ Numbers(C) /\ \A q \in Live(e) : q \in Nat
  BY <1>1, ConstantsAssumption, FS_Subset DEF Numbers
<1>3. CASE C = {}
  BY <1>3, FS_EmptySet, ConstantsAssumption
<1>4. CASE C # {}
  <2>1. PICK m \in C : \A q \in C : m >= q
    <3> HIDE DEF C
    <3> QED
      BY <1>2, <1>4, MaxIsGreatest
  <2> DEFINE L == {q \in Live(e) : q <= m}
  <2>2. Cardinality(L) <= Size
    BY DEF Chunk
  <2>3. C \in SUBSET L /\ IsFiniteSet(L)
    BY <1>1, <1>2, <2>1, FS_Subset
  <2>4. Cardinality(C) <= Cardinality(L) /\ Cardinality(C) \in Nat /\ Cardinality(L) \in Nat
    <3> HIDE DEF C, L
    <3> QED
      BY <1>2, <2>3, FS_Subset, FS_CardinalityType
  <2> QED
    BY <2>2, <2>4, ConstantsAssumption
<1> QED
  BY <1>3, <1>4

-----------------------------------------------------------------------------
(* What a step leaves of a budget.                                         *)

\* An event that has been fired goes at most.
EventsStand == \A e \in Events : event[e] # "absent" => event'[e] \in {event[e], "gone"}

LEMMA StepEventsStand ==
  ASSUME Consistent, [Next]_vars
  PROVE  EventsStand
<1>1. ASSUME NEW e \in Events, Fire(e) PROVE EventsStand
  BY <1>1 DEF Fire, EventsStand, Consistent, TypeOK
<1>2. ASSUME NEW p \in Procs, Delete(p) PROVE EventsStand
  BY <1>2, DeleteIs DEF EventsStand
<1>3. event' = event => EventsStand
  BY DEF EventsStand
<1>4. ASSUME NEW p \in Pruners, Sweep(p) PROVE EventsStand
  BY <1>2, <1>3, <1>4
     DEF Procs, Sweep, Prune, Select, NothingDue, Stop, Count, Lock, Recheck, Gather, Insert, Update,
         Inserted, Crash
<1>5. ASSUME NEW o \in Operators, Operate(o) PROVE EventsStand
  BY <1>3, <1>5 DEF Operate, Replay, Ask, Lock, Requeue, Cancel, Write, Crash
<1> QED
  BY <1>1, <1>3, <1>4, <1>5 DEF Next, Age, Deliver, ReadPruned, Reported, vars

LEMMA NoMoreRows ==
  ASSUME RowsHaveEvents', EventsStand, NoneAdded, NEW E \in SUBSET Events, NEW D \in SUBSET E,
         \A e \in E : event[e] # "absent"
  PROVE  /\ Cardinality(RowsThereOf(D)') <= Cardinality(RowsThereOf(E))
         /\ Cardinality(D) <= Cardinality(E)
         /\ \A e \in D : event'[e] # "absent"
         /\ Cardinality(RowsThereOf(D)') \in Nat /\ Cardinality(RowsThereOf(E)) \in Nat
         /\ Cardinality(D) \in Nat /\ Cardinality(E) \in Nat
<1>1. RowsThereOf(D)' \subseteq RowsThereOf(E)
  <2> SUFFICES ASSUME NEW r \in Rows, EventOf[r] \in D, row'[r].status # "absent"
               PROVE  row[r].status # "absent"
    BY DEF RowsThereOf
  <2>1. event'[EventOf[r]] = "live"
    BY DEF RowsHaveEvents
  <2>2. event[EventOf[r]] = "live"
    BY <2>1 DEF EventsStand
  <2> QED
    BY <2>2 DEF NoneAdded
<1>2. \A e \in D : event'[e] # "absent"
  BY DEF EventsStand
<1>3. IsFiniteSet(E) /\ IsFiniteSet(RowsThereOf(E))
  BY ConstantsAssumption, FS_Subset, LiveIsFinite
<1> QED
  BY <1>1, <1>2, <1>3, FS_Subset, FS_CardinalityType

\* A process that names no more than it did, having got no further.
LEMMA BudgetStays ==
  ASSUME TypeOK, RowsHaveEvents', EventsStand, NoneAdded, NEW p \in Procs, Budgeted(p),
         pc'[p] = pc[p] \/ (pc[p] = "locking" /\ pc'[p] = "gathering"),
         job'[p].ids \subseteq job[p].ids, job'[p].chunk = job[p].chunk,
         pc'[p] = "locking" => job'[p].locked \subseteq job'[p].ids,
         pc[p] \in {"inserting", "updating"} =>
           job'[p].ids = job[p].ids /\ job'[p].doomed = job[p].doomed
  PROVE  Budgeted(p)'
<1> DEFINE E == job[p].ids
<1>0. PICK D \in SUBSET E : D = job'[p].ids
  OBVIOUS
<1>1. E \in SUBSET Events /\ \A e \in E : event[e] # "absent"
  BY DEF TypeOK, Job, Budgeted
<1>2. /\ Cardinality(RowsThereOf(D)') <= Cardinality(RowsThereOf(E))
      /\ Cardinality(D) <= Cardinality(E)
      /\ \A e \in D : event'[e] # "absent"
      /\ Cardinality(RowsThereOf(D)') \in Nat /\ Cardinality(RowsThereOf(E)) \in Nat
      /\ Cardinality(D) \in Nat /\ Cardinality(E) \in Nat
  <2> HIDE DEF E
  <2> QED
    BY <1>1, NoMoreRows
<1>3. \A e \in job'[p].ids : event'[e] # "absent"
  BY <1>0, <1>2
<1>4. pc'[p] \in {"locking", "gathering"} /\ ~job'[p].chunk =>
        Cardinality(RowsThereOf(D)') + Cardinality(D) <= Size
  <2> SUFFICES ASSUME pc'[p] \in {"locking", "gathering"}, ~job'[p].chunk
               PROVE  Cardinality(RowsThereOf(D)') + Cardinality(D) <= Size
    OBVIOUS
  <2>1. Cardinality(RowsThereOf(E)) + Cardinality(E) <= Size
    BY DEF Budgeted
  <2> HIDE DEF E
  <2> QED
    BY <1>2, <2>1, ConstantsAssumption
<1>5. pc'[p] \in {"inserting", "updating"} => Names(p)' <= Size
  BY DEF Budgeted, Names
<1>6. RowsThereOf(job[p].ids)' = RowsThereOf(D)'
  BY <1>0 DEF RowsThereOf
<1> QED
  BY <1>0, <1>3, <1>4, <1>5, <1>6 DEF Budgeted

\* A process that names nothing yet.
LEMMA NothingNamedYet ==
  ASSUME NEW p \in Procs, pc'[p] \in {"idle", "selecting", "counting"},
         \A e \in job'[p].ids : event'[e] # "absent"
  PROVE  Budgeted(p)'
BY DEF Budgeted

-----------------------------------------------------------------------------
(* The steps of a sweep.                                                   *)

LEMMA NextArmNamesNone ==
  ASSUME TypeOK, NEW p \in Procs, NextArm(p)
  PROVE  job'[p].ids = {} /\ pc'[p] \in {"idle", "selecting"}
<1> DEFINE next == [NoJob EXCEPT !.arm = job[p].arm + 1]
<1>1. NoJob.ids = {} /\ next.ids = {}
  BY DEF NoJob
<1>2. PICK phase \in {"idle", "selecting"}, j \in {NoJob, next} : Goes(p, phase, j)
  BY DEF NextArm
<1>3. j.ids = {}
  BY <1>1, <1>2
<1> HIDE DEF next
<1> QED
  BY <1>2, <1>3 DEF Goes, TypeOK

\* Prune, Stop, Crash, NothingDue and Delete: it begins, or begins again.
LEMMA AnewBudgeted ==
  ASSUME Consistent, NEW p \in Procs,
         Prune(p) \/ Stop(p) \/ Crash(p) \/ NothingDue(p) \/ Delete(p)
  PROVE  Budgeted(p)'
<1>1. TypeOK
  BY DEF Consistent
<1>2. job'[p].ids = {} /\ pc'[p] \in {"idle", "selecting"}
  <2>1. CASE Prune(p) \/ Stop(p) \/ Crash(p)
    BY <1>1, <2>1 DEF Prune, Stop, Crash, Goes, NoJob, TypeOK
  <2>2. CASE NothingDue(p)
    BY <1>1, <2>2, NextArmNamesNone DEF NothingDue
  <2>3. CASE Delete(p)
    <3>1. CASE job[p].chunk /\ job[p].doomed = {}
      BY <1>1, <2>3, <3>1, NextArmNamesNone DEF Delete
    <3>2. CASE ~(job[p].chunk /\ job[p].doomed = {})
      <4> DEFINE j == [NoJob EXCEPT !.arm = job[p].arm]
      <4>1. Goes(p, "selecting", j) /\ j.ids = {}
        BY <2>3, <3>2 DEF Delete, NoJob
      <4> HIDE DEF j
      <4> QED
        BY <1>1, <4>1 DEF Goes, TypeOK
    <3> QED
      BY <3>1, <3>2
  <2> QED
    BY <2>1, <2>2, <2>3
<1> QED
  BY <1>2, NothingNamedYet

LEMMA SelectBudgeted ==
  ASSUME Consistent, NEW p \in Procs, Select(p)
  PROVE  Budgeted(p)'
<1>1. PICK S \in SUBSET DueNow(p) : Goes(p, "counting", [job[p] EXCEPT !.ids = S])
  BY DEF Select
<1>2. job[p] \in Job /\ event' = event
  BY DEF Consistent, TypeOK, Select
<1>3. job'[p].ids = S /\ pc'[p] = "counting"
  BY <1>1, <1>2 DEF Goes, Consistent, TypeOK, Job
<1>4. \A e \in S : event'[e] # "absent"
  BY <1>2 DEF DueNow, Due
<1> QED
  BY <1>3, <1>4, NothingNamedYet

LEMMA CountBudgeted ==
  ASSUME Consistent, Ordered, NEW p \in Procs, Budgeted(p), Count(p)
  PROVE  Budgeted(p)'
<1> DEFINE S == job[p].ids
           ids == IF Chunked(S) THEN {Min(S)} ELSE Fitting(S)
<1>1. job[p] \in Job /\ Sound(p) /\ pc[p] = "counting" /\ job[p].locked = {}
  BY DEF Consistent, TypeOK, Count, Ordered, Orderly
<1>2. S \in SUBSET Events /\ S # {} /\ \A e \in S : event[e] # "absent"
  BY <1>1 DEF Job, Sound, NamesSome, Budgeted
<1>3. Min(S) \in S /\ Fitting(S) \subseteq S
  <2>1. IsFiniteSet(S) /\ Numbers(S)
    BY <1>2, ConstantsAssumption, FS_Subset DEF Numbers
  <2> HIDE DEF S
  <2> QED
    BY <1>2, <2>1, MinIsLeast DEF Fitting
<1>4. Goes(p, "locking", [job[p] EXCEPT !.chunk = Chunked(S), !.ids = ids])
      /\ UNCHANGED <<event, row, aged, last, lock, klock, report>>
  BY DEF Count
<1>5. /\ pc'[p] = "locking" /\ job'[p].ids = ids /\ job'[p].chunk = Chunked(S)
      /\ job'[p].locked = {}
  <2> HIDE DEF S, ids
  <2> QED
    BY <1>1, <1>4 DEF Goes, Consistent, TypeOK, Job
<1>6. \A e \in ids : event'[e] # "absent"
  BY <1>2, <1>3, <1>4
<1>7. ~Chunked(S) => Cardinality(RowsThereOf(ids)) + Cardinality(ids) <= Size
  BY <1>2, FittingFits
<1>8. RowsThereOf(job[p].ids)' = RowsThereOf(ids)
  <2> HIDE DEF ids
  <2> QED
    BY <1>4, <1>5 DEF RowsThereOf
<1> HIDE DEF ids
<1> QED
  BY <1>5, <1>6, <1>7, <1>8 DEF Budgeted

LEMMA LockBudgeted ==
  ASSUME Consistent, RowsHaveEvents', EventsStand, NoneAdded,
         NEW p \in Procs, NEW e \in Events, Budgeted(p), Lock(p, e)
  PROVE  Budgeted(p)'
<1>1. /\ TypeOK /\ job[p] \in Job /\ pc[p] = "locking" /\ pc' = pc /\ e \in job[p].ids \ job[p].locked
      /\ job[p].locked \subseteq job[p].ids
  BY DEF Consistent, TypeOK, Lock, First, ToLock, Budgeted
<1>2. /\ job'[p].ids \subseteq job[p].ids /\ job'[p].chunk = job[p].chunk
      /\ job'[p].locked \subseteq job'[p].ids
  <2>1. CASE event[e] = "live"
    <3>1. job'[p] = [job[p] EXCEPT !.locked = @ \cup {e}]
      BY <1>1, <2>1 DEF Lock, TypeOK
    <3> QED
      BY <1>1, <3>1 DEF Job
  <2>2. CASE event[e] # "live"
    <3>1. job'[p] = [job[p] EXCEPT !.ids = @ \ {e}]
      BY <1>1, <2>2 DEF Lock, TypeOK
    <3> QED
      BY <1>1, <3>1 DEF Job
  <2> QED
    BY <2>1, <2>2
<1> QED
  BY <1>1, <1>2, BudgetStays

LEMMA RecheckBudgeted ==
  ASSUME Consistent, RowsHaveEvents', EventsStand, NoneAdded,
         NEW p \in Procs, Budgeted(p), Recheck(p)
  PROVE  Budgeted(p)'
<1>1. TypeOK /\ job[p] \in Job /\ pc[p] = "locking" /\ job[p].locked \subseteq job[p].ids
  BY DEF Consistent, TypeOK, Recheck, Budgeted
<1>2. CASE job[p].chunk /\ StillDue(p) = {}
  <2>1. NextArm(p)
    BY <1>2 DEF Recheck
  <2>2. job'[p].ids = {} /\ pc'[p] \in {"idle", "selecting"}
    BY <1>1, <2>1, NextArmNamesNone
  <2> QED
    BY <2>2, NothingNamedYet
<1>3. CASE ~(job[p].chunk /\ StillDue(p) = {})
  <2>1. Goes(p, "gathering", [job[p] EXCEPT !.ids = StillDue(p)])
    BY <1>3 DEF Recheck
  <2>2. pc'[p] = "gathering" /\ job'[p].ids = StillDue(p) /\ job'[p].chunk = job[p].chunk
    BY <1>1, <2>1 DEF Goes, TypeOK, Job
  <2>3. StillDue(p) \subseteq job[p].ids
    BY <1>1 DEF StillDue
  <2> QED
    BY <1>1, <2>2, <2>3, BudgetStays
<1> QED
  BY <1>2, <1>3

LEMMA GatherBudgeted ==
  ASSUME Consistent, NEW p \in Procs, Budgeted(p), Gather(p)
  PROVE  Budgeted(p)'
<1>1. TypeOK /\ job[p] \in Job /\ pc[p] = "gathering" /\ event' = event
  BY DEF Consistent, TypeOK, Gather
<1>2. PICK newest : Goes(p, "inserting", [job[p] EXCEPT !.doomed = Doomed(p), !.newest = newest])
  BY DEF Gather
<1>3. /\ pc'[p] = "inserting" /\ job'[p].doomed = Doomed(p) /\ job'[p].ids = job[p].ids
      /\ job'[p].chunk = job[p].chunk
  BY <1>1, <1>2 DEF Goes, TypeOK, Job
<1>4. CASE job[p].chunk
  <2>1. Cardinality(Doomed(p)) <= Size /\ Cardinality(Doomed(p)) \in Nat
    <3> DEFINE e == CHOOSE e \in job[p].ids : TRUE
    <3>1. Doomed(p) = Chunk(e) \/ Doomed(p) = {}
      BY <1>4 DEF Doomed
    <3>2. IsFiniteSet(Doomed(p))
      <4>1. Doomed(p) \subseteq Rows
        BY <3>1 DEF Chunk, Live, RowsOf
      <4> QED
        BY <4>1, ConstantsAssumption, FS_Subset
    <3> HIDE DEF e
    <3> QED
      BY <3>1, <3>2, ChunkFits, FS_EmptySet, FS_CardinalityType, ConstantsAssumption
  <2>2. Names(p)' = Cardinality(Doomed(p)) + 0
    BY <1>3, <1>4 DEF Names
  <2> QED
    BY <1>1, <1>3, <2>1, <2>2 DEF Budgeted
<1>5. CASE ~job[p].chunk
  <2>1. Doomed(p) = RowsThereOf(job[p].ids)
    BY <1>5 DEF Doomed, RowsThereOf
  <2>2. Names(p)' = Cardinality(RowsThereOf(job[p].ids)) + Cardinality(job[p].ids)
    BY <1>3, <1>5, <2>1 DEF Names
  <2> QED
    BY <1>1, <1>3, <1>5, <2>2 DEF Budgeted
<1> QED
  BY <1>4, <1>5

\* Insert, Inserted and Update: what is named stands.
LEMMA WritingBudgeted ==
  ASSUME Consistent, RowsHaveEvents', EventsStand, NoneAdded, NEW p \in Procs, Budgeted(p),
         Inserted(p) \/ \E k \in Keys : Insert(p, k) \/ Update(p, k)
  PROVE  Budgeted(p)'
<1>1. TypeOK /\ job[p] \in Job
  BY DEF Consistent, TypeOK
<1>2. PICK written : job' = [job EXCEPT ![p].written = written]
  <2>1. CASE Inserted(p)
    BY <2>1 DEF Inserted, Goes
  <2>2. ASSUME NEW k \in Keys, Insert(p, k) \/ Update(p, k)
        PROVE  job' = [job EXCEPT ![p].written = job[p].written \cup {k}]
    BY <1>1, <2>2 DEF Insert, Update, Wrote, TypeOK
  <2> QED
    BY <2>1, <2>2
<1>3. job'[p].ids = job[p].ids /\ job'[p].chunk = job[p].chunk /\ job'[p].doomed = job[p].doomed
  BY <1>1, <1>2 DEF TypeOK, Job
<1>4. pc[p] \in {"inserting", "updating"} /\ pc'[p] \in {"inserting", "updating"}
  BY <1>1 DEF Inserted, Insert, Update, Goes, TypeOK
<1>5. \A e \in job'[p].ids : event'[e] # "absent"
  BY <1>1, <1>3 DEF Budgeted, EventsStand, Job
<1>6. Names(p)' <= Size
  BY <1>3, <1>4 DEF Budgeted, Names
<1> QED
  BY <1>4, <1>5, <1>6 DEF Budgeted

LEMMA SweepBudgeted ==
  ASSUME Consistent, Ordered, RowsHaveEvents', EventsStand, NoneAdded,
         NEW p \in Pruners, Budgeted(p), Sweep(p)
  PROVE  Budgeted(p)'
<1>1. p \in Procs
  BY DEF Procs
<1>2. (Prune(p) \/ Stop(p) \/ Crash(p) \/ NothingDue(p) \/ Delete(p)) => Budgeted(p)'
  BY <1>1, AnewBudgeted
<1>3. (Select(p) \/ Count(p) \/ Recheck(p) \/ Gather(p)) => Budgeted(p)'
  BY <1>1, SelectBudgeted, CountBudgeted, RecheckBudgeted, GatherBudgeted
<1>4. (Inserted(p) \/ \E k \in Keys : Insert(p, k) \/ Update(p, k)) => Budgeted(p)'
  BY <1>1, WritingBudgeted
<1>5. ASSUME NEW e \in Events, Lock(p, e) PROVE Budgeted(p)'
  BY <1>1, <1>5, LockBudgeted
<1> QED
  BY <1>2, <1>3, <1>4, <1>5 DEF Sweep

-----------------------------------------------------------------------------
(* The steps of everyone.                                                  *)

\* p steps, or stands.
LEMMA SweepsOrStands ==
  ASSUME Consistent, [Next]_vars, NEW p \in Pruners
  PROVE  Sweep(p) \/ (pc'[p] = pc[p] /\ job'[p] = job[p])
<1>1. TypeOK /\ p \in Procs /\ p \notin Operators
  BY ConstantsAssumption DEF Consistent, Procs
<1>2. ASSUME NEW q \in Procs \ {p}, NEW phase, NEW j, Goes(q, phase, j)
      PROVE  pc'[p] = pc[p] /\ job'[p] = job[p]
  BY <1>1, <1>2 DEF Goes, TypeOK
<1>3. ASSUME NEW q \in Procs \ {p}, NextArm(q) PROVE pc'[p] = pc[p] /\ job'[p] = job[p]
  BY <1>2, <1>3 DEF NextArm
<1>4. ASSUME NEW q \in Procs \ {p}, NEW e \in Events, Lock(q, e)
      PROVE  pc'[p] = pc[p] /\ job'[p] = job[p]
  BY <1>1, <1>4 DEF Lock, TypeOK
<1>5. ASSUME NEW q \in Procs \ {p}, Crash(q) \/ Write(q)
      PROVE  pc'[p] = pc[p] /\ job'[p] = job[p]
  BY <1>1, <1>5 DEF Crash, Write, TypeOK
<1>6. ASSUME NEW q \in Pruners \ {p}, Sweep(q) PROVE pc'[p] = pc[p] /\ job'[p] = job[p]
  <2>1. q \in Procs \ {p}
    BY DEF Procs
  <2>2. CASE Prune(q) \/ Select(q) \/ Stop(q) \/ Count(q) \/ Gather(q) \/ Inserted(q)
    BY <1>2, <2>1, <2>2 DEF Prune, Select, Stop, Count, Gather, Inserted
  <2>3. CASE NothingDue(q) \/ Recheck(q) \/ Delete(q)
    BY <1>2, <1>3, <2>1, <2>3 DEF NothingDue, Recheck, Delete
  <2>4. ASSUME NEW k \in Keys, Insert(q, k) \/ Update(q, k)
        PROVE  pc'[p] = pc[p] /\ job'[p] = job[p]
    BY <1>1, <2>1, <2>4 DEF Insert, Update, Wrote, TypeOK
  <2> QED
    BY <1>4, <1>5, <1>6, <2>1, <2>2, <2>3, <2>4 DEF Sweep
<1>7. ASSUME NEW o \in Operators, Operate(o) PROVE pc'[p] = pc[p] /\ job'[p] = job[p]
  <2>1. o \in Procs \ {p}
    BY <1>1 DEF Procs
  <2>2. ASSUME NEW write, NEW ids, NEW rows, Ask(o, write, ids, rows)
        PROVE  pc'[p] = pc[p] /\ job'[p] = job[p]
    BY <1>1, <2>1, <2>2 DEF Ask, TypeOK
  <2> QED
    BY <1>4, <1>5, <1>7, <2>1, <2>2 DEF Operate, Replay, Requeue, Cancel
<1>8. UNCHANGED <<pc, job>> => pc'[p] = pc[p] /\ job'[p] = job[p]
  OBVIOUS
<1> QED
  BY <1>6, <1>7, <1>8 DEF Next, Fire, Age, Deliver, ReadPruned, Reported, vars

LEMMA StepKeepsBatches ==
  ASSUME IInv, BatchesKept, Consistent', [Next]_vars, NoneAdded
  PROVE  BatchesKept'
<1>1. Consistent /\ Ordered /\ TypeOK /\ RowsHaveEvents' /\ EventsStand
  BY StepEventsStand DEF IInv, Consistent
<1>2. ASSUME NEW p \in Pruners PROVE Budgeted(p)'
  <2>1. Budgeted(p) /\ p \in Procs
    BY DEF BatchesKept, Procs
  <2>2. CASE Sweep(p)
    BY <1>1, <2>1, <2>2, SweepBudgeted
  <2>3. CASE pc'[p] = pc[p] /\ job'[p] = job[p]
    BY <1>1, <2>1, <2>3, BudgetStays DEF Budgeted
  <2> QED
    BY <1>1, <2>2, <2>3, SweepsOrStands
<1> QED
  BY <1>2 DEF BatchesKept

\* Batches keep within their budget wherever no replay adds rows to an event
\* that is there: the rows of one _delete_batch or _delete_chunk, their events'
\* own included, are at most batch_size, although _fitting counts no further.
THEOREM BatchesKeepTheirBudget == Spec /\ NoRowsAdded => []BatchBounded
<1>1. Init => BatchesKept
  BY DEF Init, BatchesKept, Budgeted, NoJob, Procs
<1>2. IInv /\ IInv' /\ BatchesKept /\ [Next]_vars /\ [NoneAdded]_<<event, row>> => BatchesKept'
  <2>1. UNCHANGED <<event, row>> => NoneAdded
    BY DEF NoneAdded
  <2> QED
    BY <2>1, StepKeepsBatches DEF IInv
<1>3. BatchesKept => BatchBounded
  BY DEF BatchesKept, Budgeted, BatchBounded
<1> QED
  BY <1>1, <1>2, <1>3, InvariantHolds, PTL DEF Spec, NoRowsAdded
=============================================================================
