------------------------------- MODULE Rollout -------------------------------
(***************************************************************************)
(* One outbox under several releases of the code.  The rows name events    *)
(* and receivers; what a name means is what the release of whichever       *)
(* process reads it declares.  A release is checked against the rows as it *)
(* is deployed, and the processes are then restarted on it one by one, so  *)
(* old and new ones fire, claim and deliver side by side.                  *)
(*                                                                         *)
(* A claim and the attempt of its row are single steps here; what can      *)
(* happen within and between them is Delivery's and DeliverOne's.          *)
(***************************************************************************)
EXTENDS Naturals, FiniteSets, Sequences, SequencesExt

CONSTANTS
  Releases,     \* the releases of the code
  Imports,      \* what each declares, in the order it is imported
  First,        \* the release everything runs at first
  Webs,         \* the processes that fire
  Relays,       \* the processes that claim and deliver
  Lane,         \* the lane each relay is started for
  Default,      \* DEFAULT_LANE
  AnyEvent,     \* the class a wildcard is declared for
  Nobody,       \* who holds the claim of a process that is gone
  MaxEvents,    \* how many events are fired
  MaxAttempts,  \* max_attempts
  MaxDeploys,   \* how many times a release is deployed
  MaxReopens    \* how many dead letters are requeued

Events(r) == {d \in Range(Imports[r]) : d.kind = "event"}
Receivers(r) == {d \in Range(Imports[r]) : d.kind = "receiver"}

Keys == {d.key : d \in UNION {Receivers(r) : r \in Releases}}

-----------------------------------------------------------------------------
(* The registry.                                                           *)

Nothing == [classes |-> <<>>, names |-> <<>>, receivers |-> <<>>, refused |-> FALSE]

\* Mutant: one function may be registered again, whatever else has changed.
ClashesByFunction(registry, d) ==
  \/ /\ d.kind = "event" /\ d.name \in DOMAIN registry.names
     /\ registry.names[d.name].class # d.class
  \/ /\ d.kind = "receiver" /\ d.key \in DOMAIN registry.receivers
     /\ registry.receivers[d.key].func # d.func

\* A name holds one class and a key one registration; a double import is no clash.
Clashes(registry, d) ==
  \/ /\ d.kind = "event" /\ d.name \in DOMAIN registry.names
     /\ registry.names[d.name].class # d.class
  \/ /\ d.kind = "receiver" /\ d.key \in DOMAIN registry.receivers
     /\ registry.receivers[d.key] # d

Put(f, x, d) == [y \in DOMAIN f \cup {x} |-> IF y = x THEN d ELSE f[y]]

Registered(registry, d) ==
  IF d.kind = "event"
  THEN [registry EXCEPT !.classes = Put(@, d.class, d), !.names = Put(@, d.name, d)]
  ELSE [registry EXCEPT !.receivers = Put(@, d.key, d)]

\* A refused declaration raises, and ends the import.
Declare(registry, d) ==
  IF registry.refused \/ Clashes(registry, d) THEN [registry EXCEPT !.refused = TRUE]
  ELSE Registered(registry, d)

Registries == [r \in Releases |-> FoldLeft(Declare, Nothing, Imports[r])]

\* receivers_for: a wildcard is matched when it is asked for.
Owes(registry, class) ==
  {k \in DOMAIN registry.receivers : registry.receivers[k].listens \in {class, AnyEvent}}

InNamedLanes(registry) ==
  {k \in DOMAIN registry.receivers : registry.receivers[k].lane # Default}

Lanes(registry) ==
  {Default} \cup {registry.receivers[k].lane : k \in DOMAIN registry.receivers}

\* Mutant: the default lane is of the receivers declared in it.
DeclaredIn(registry, lane, key) ==
  key \in DOMAIN registry.receivers /\ registry.receivers[key].lane = lane

\* The default lane is every row that no named lane takes.
InLane(registry, lane, key) ==
  IF lane = Default THEN key \notin InNamedLanes(registry)
  ELSE key \in DOMAIN registry.receivers /\ registry.receivers[key].lane = lane

\* Every receiver listens for something that was declared.
ReceiversHaveEvents(registry) ==
  \A k \in DOMAIN registry.receivers :
    registry.receivers[k].listens \in DOMAIN registry.classes \cup {AnyEvent}

\* What @event and @receiver leave of a declaration; "" is the name of no event.
Declarations ==
  [kind: {"event"}, class: STRING, name: STRING \ {""}, version: Nat,
   fields: SUBSET STRING, required: SUBSET STRING, upgrade: SUBSET STRING]
    \cup [kind: {"receiver"}, key: STRING, listens: STRING, func: STRING, lane: STRING]

\* What the checks of a deployment let through.
Deployable(r) == ~Registries[r].refused /\ ReceiversHaveEvents(Registries[r])

ASSUME ConstantsAssumption ==
  /\ Imports \in [Releases -> Seq(Declarations)] /\ 0 \notin Releases
  /\ First \in Releases /\ Deployable(First)
  /\ Lane \in [Relays -> STRING] /\ Default \in STRING /\ Nobody \notin Relays
  /\ {MaxEvents, MaxAttempts, MaxDeploys, MaxReopens} \subseteq Nat /\ MaxAttempts # 0
  \* Every lane a release declares has a relay started for it.
  /\ \A r \in Releases : Lanes(Registries[r]) \subseteq {Lane[p] : p \in Relays}

-----------------------------------------------------------------------------

VARIABLES
  target,   \* the release that is rolled out
  deploys,  \* how often one has been
  running,  \* the release each process runs, 0 where it is down
  event,    \* the EventRecord table, by primary key
  row,      \* the DeliveryRecord table, by event and receiver key
  reopens,  \* how many rows have been requeued
  stranded,     \* the rows owed when each release was last checked that it cannot place
  warned    \* the receivers and events that its check then named

vars == <<target, deploys, running, event, row, reopens, stranded, warned>>

Ids == 1..MaxEvents

Processes == Webs \cup Relays

Statuses == {"none", "pending", "claimed", "failed", "succeeded", "dead", "orphaned",
             "cancelled"}
Terminal == {"succeeded", "dead", "orphaned", "cancelled"}

Names == {d.name : d \in UNION {Events(r) : r \in Releases}}
Classes == {d.class : d \in UNION {Events(r) : r \in Releases}}

TypeOK ==
  /\ target \in Releases /\ deploys \in 0..MaxDeploys /\ reopens \in 0..MaxReopens
  /\ running \in [Processes -> Releases \cup {0}]
  /\ event \in [Ids -> [name: Names \cup {""}, version: Nat, payload: SUBSET STRING]]
  /\ row \in [Ids -> [Keys -> [status: Statuses, attempts: 0..MaxAttempts,
                                by: Relays \cup {Nobody}]]]
  /\ stranded \in [Releases -> SUBSET (Ids \X Keys)]
  /\ warned \in [Releases -> [keys: SUBSET Keys, names: SUBSET Names]]

NoRow == [status |-> "none", attempts |-> 0, by |-> Nobody]

Serves(p, r) == p \in Relays => Lane[p] \in Lanes(Registries[r])

Init ==
  /\ target = First /\ deploys = 0 /\ reopens = 0
  /\ running = [p \in Processes |-> IF Serves(p, First) THEN First ELSE 0]
  /\ event = [e \in Ids |-> [name |-> "", version |-> 0, payload |-> {}]]
  /\ row = [e \in Ids |-> [k \in Keys |-> NoRow]]
  /\ stranded = [r \in Releases |-> {}]
  /\ warned = [r \in Releases |-> [keys |-> {}, names |-> {}]]

-----------------------------------------------------------------------------
(* Deploying a release.                                                    *)

\* Mutant: a claimed row is taken for a settled one.
OwedUnclaimed == {"pending", "failed"}

\* The statuses owed() lists.
Owed == {"pending", "failed", "claimed"}

IsOwed(e, k) == row[e][k].status \notin Terminal \cup {"none"}

OrphanedDeliveries(registry) ==
  {k \in Keys : k \notin DOMAIN registry.receivers
                /\ \E e \in Ids : row[e][k].status \in Owed}

UndeclaredEvents(registry) ==
  {event[e].name : e \in {i \in Ids : \E k \in Keys : row[i][k].status \in Owed}}
    \ DOMAIN registry.names

\* migrate: a release that cannot be imported, or fails a check, stops here; the
\* checks of the rows only warn.
Deploy(r) ==
  /\ r # target /\ deploys < MaxDeploys
  /\ Deployable(r)
  /\ target' = r /\ deploys' = deploys + 1
  /\ stranded' = [stranded EXCEPT ![r] = {d \in Ids \X Keys :
        /\ IsOwed(d[1], d[2])
        /\ \/ d[2] \notin DOMAIN Registries[r].receivers
           \/ event[d[1]].name \notin DOMAIN Registries[r].names}]
  /\ warned' = [warned EXCEPT ![r] = [keys |-> OrphanedDeliveries(Registries[r]),
                                      names |-> UndeclaredEvents(Registries[r])]]
  /\ UNCHANGED <<running, event, row, reopens>>

\* A process is restarted.  A relay for a lane nobody declares is refused; what it
\* held waits for its lease.
Start(p) ==
  /\ running' = [running EXCEPT ![p] = IF Serves(p, target) THEN target ELSE 0]
  /\ running' # running
  /\ row' = [e \in Ids |-> [k \in Keys |->
               IF row[e][k].by = p THEN [row[e][k] EXCEPT !.by = Nobody] ELSE row[e][k]]]
  /\ UNCHANGED <<target, deploys, event, reopens, stranded, warned>>

-----------------------------------------------------------------------------
(* Firing, claiming, delivering.                                           *)

Set(e, k, r) == row' = [row EXCEPT ![e][k] = r]

\* The receiver set freezes here, as do the name and the version.
Fire(w, class) ==
  /\ running[w] # 0
  /\ LET registry == Registries[running[w]]
     IN  /\ class \in DOMAIN registry.classes
         /\ \E e \in Ids :
              /\ event[e].name = "" /\ \A i \in 1..(e - 1) : event[i].name # ""
              /\ event' = [event EXCEPT ![e] =
                    [name |-> registry.classes[class].name,
                     version |-> registry.classes[class].version,
                     payload |-> registry.classes[class].fields]]
              /\ row' = [row EXCEPT ![e] = [k \in Keys |->
                    IF k \in Owes(registry, class) THEN [NoRow EXCEPT !.status = "pending"]
                    ELSE NoRow]]
  /\ UNCHANGED <<target, deploys, running, reopens, stranded, warned>>

Claimable(r) ==
  \/ r.status \in {"pending", "failed"}
  \/ r.status = "claimed" /\ r.by = Nobody

\* A claim reads the lanes off the registry each time.
Claim(p, e, k) ==
  /\ running[p] # 0 /\ Claimable(row[e][k])
  /\ InLane(Registries[running[p]], Lane[p], k)
  /\ Set(e, k, [row[e][k] EXCEPT !.status = "claimed", !.by = p])
  /\ UNCHANGED <<target, deploys, running, event, reopens, stranded, warned>>

\* The payload is rebuilt as the class it names now: only an older one than that
\* class declares is migrated.  A field that is missing and has no default is
\* refused, one that is not declared ignored.
Decodes(entry, e) ==
  entry.required \subseteq
    event[e].payload \cup (IF event[e].version < entry.version THEN entry.upgrade ELSE {})

Failed(e, k) ==
  LET attempts == row[e][k].attempts + 1
  IN  [status |-> IF attempts >= MaxAttempts THEN "dead" ELSE "failed",
       attempts |-> attempts, by |-> Nobody]

\* The attempt: no such receiver, no such event, a payload that cannot be rebuilt,
\* or the receiver, which succeeds or raises.
Attempt(p, e, k) ==
  /\ running[p] # 0 /\ row[e][k].by = p /\ row[e][k].status = "claimed"
  /\ LET registry == Registries[running[p]]
         outcomes ==
           IF k \notin DOMAIN registry.receivers
           THEN {[row[e][k] EXCEPT !.status = "orphaned", !.by = Nobody]}
           ELSE IF event[e].name \notin DOMAIN registry.names THEN {Failed(e, k)}
           ELSE IF ~Decodes(registry.classes[registry.names[event[e].name].class], e)
           THEN {[Failed(e, k) EXCEPT !.status = "dead"]}
           ELSE {[row[e][k] EXCEPT !.status = "succeeded", !.by = Nobody], Failed(e, k)}
     IN  \E outcome \in outcomes : Set(e, k, outcome)
  /\ UNCHANGED <<target, deploys, running, event, reopens, stranded, warned>>

\* requeue_dead, once the code is mended.
Requeue(e, k) ==
  /\ row[e][k].status = "dead" /\ reopens < MaxReopens
  /\ Set(e, k, [NoRow EXCEPT !.status = "pending"])
  /\ reopens' = reopens + 1
  /\ UNCHANGED <<target, deploys, running, event, stranded, warned>>

\* cancel_deliveries: a claimed row is let run.
Cancel(e, k) ==
  /\ row[e][k].status \in {"pending", "failed"}
  /\ Set(e, k, [row[e][k] EXCEPT !.status = "cancelled"])
  /\ UNCHANGED <<target, deploys, running, event, reopens, stranded, warned>>

-----------------------------------------------------------------------------

Next ==
  \/ \E r \in Releases : Deploy(r)
  \/ \E p \in Processes : Start(p)
  \/ \E w \in Webs, class \in Classes : Fire(w, class)
  \/ \E p \in Relays, e \in Ids, k \in Keys : Claim(p, e, k) \/ Attempt(p, e, k)
  \/ \E e \in Ids, k \in Keys : Requeue(e, k) \/ Cancel(e, k)

Spec == Init /\ [][Next]_vars

-----------------------------------------------------------------------------
(* Safety.                                                                 *)

\* In a process that runs no declaration was lost to another: an event reaches
\* every receiver declared for it, however its function is decorated besides, and
\* a row it writes is read back as the class that wrote it.
EveryDeclarationStands ==
  \A p \in Processes : running[p] # 0 =>
    LET registry == Registries[running[p]]
    IN  /\ \A d \in Receivers(running[p]) :
             \A class \in DOMAIN registry.classes :
               d.listens \in {class, AnyEvent} => d.key \in Owes(registry, class)
        /\ \A d \in Receivers(running[p]) :
             d.listens = AnyEvent \/ d.listens \in DOMAIN registry.classes
        /\ \A d \in Events(running[p]) :
             /\ registry.names[d.name].class = d.class
             /\ registry.names[registry.classes[d.class].name] = registry.classes[d.class]

\* What runs passed its checks.
Checked == Deployable(target) /\ \A p \in Processes : running[p] # 0 => Deployable(running[p])

\* A row that may still be attempted has an attempt left, and an event.
RowKept(e, k) ==
  /\ IsOwed(e, k) => row[e][k].attempts < MaxAttempts
  /\ row[e][k].status # "none" => event[e].name # ""

\* A check named what it found; no event changes its name.
Named(r, e, k) ==
  <<e, k>> \in stranded[r] =>
    /\ event[e].name # ""
    /\ k \notin DOMAIN Registries[r].receivers => k \in warned[r].keys
    /\ event[e].name \notin DOMAIN Registries[r].names => event[e].name \in warned[r].names

IInv ==
  /\ TypeOK /\ EveryDeclarationStands /\ Checked
  /\ \A e \in Ids, k \in Keys : RowKept(e, k) /\ \A r \in Releases : Named(r, e, k)

\* "No delivery still owed names a receiver the registry no longer has", and the
\* same of events: whatever was owed when a release was checked, claimed or not, is
\* orphaned by that release, or fails for want of its event, only if the check
\* named its receiver or its event.
AnnouncedAtDeploy ==
  [][\A e \in Ids, k \in Keys :
       LET p == row[e][k].by
           r == running[p]
       IN  p # Nobody /\ row[e][k].status = "claimed" /\ row'[e][k].by = Nobody
           /\ row'[e][k].status # "claimed" /\ <<e, k>> \in stranded[r] =>
             /\ row'[e][k].status = "orphaned" => k \in warned[r].keys
             /\ k \in DOMAIN Registries[r].receivers
                /\ event[e].name \notin DOMAIN Registries[r].names =>
                  event[e].name \in warned[r].names]_vars

-----------------------------------------------------------------------------
(* Liveness.                                                               *)

\* A release that is rolled out reaches every process; a relay goes on claiming
\* and delivering whatever is in its lane.
Fairness ==
  /\ \A p \in Processes : WF_vars(Start(p))
  /\ \A e \in Ids, k \in Keys :
       WF_vars(\E p \in Relays : Claim(p, e, k) \/ Attempt(p, e, k))

FairSpec == Spec /\ Fairness

\* However receivers are deleted, moved between lanes or renamed, every row is
\* brought to its end: it is in some relay's lane under every release.
RowsDrain == \A e \in Ids, k \in Keys : IsOwed(e, k) ~> ~IsOwed(e, k)
=============================================================================
