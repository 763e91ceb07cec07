------------------------------- MODULE Firing --------------------------------
(***************************************************************************)
(* fire, as a program runs it: one thread inside nested transaction.atomic,*)
(* suppressed and attributed blocks, whose events are recorded and owed    *)
(* with the change that fired them, whose INLINE receivers run at once and *)
(* may veto it, and whose eager attempt, wake-up and ON_COMMIT receivers   *)
(* run once it has committed.  Receivers fire events in their turn.        *)
(*                                                                         *)
(* The stack holds what the thread is inside of, the innermost last.  An   *)
(* exception leaves one frame at a time.  It is caught around an atomic    *)
(* block, where on_commit(robust=True) catches it, or by nobody: Django    *)
(* tells callers not to swallow one inside the block it should roll back.  *)
(***************************************************************************)
EXTENDS Naturals, Sequences, SequencesExt, FiniteSetsExt

CONSTANTS
  MaxEvents,  \* how many events are fired
  MaxOpen,    \* how many blocks of user code are open at once
  Classes,    \* event classes
  Receivers,  \* receivers, in the order of their declaration
  ClassOf,    \* the event class of each receiver
  ModeOf,     \* DURABLE, INLINE or ON_COMMIT
  Eager,      \* the durable receivers declared with eager=True
  Attempt,    \* the callback _deliver_eagerly returns
  Notify,     \* the callback notify_relay
  Blocks,     \* the suppressed blocks user code enters
  Actors,     \* who may be the actor of an attributed block, anonymous apart
  KeyFor,     \* the key derived from each of them, _key_for
  Users,      \* those that are instances of the user model
  Calls       \* what user code passes to attributed, "" and 0 where it does not

Modes == {"DURABLE", "INLINE", "ON_COMMIT"}

ASSUME ConstantsAssumption ==
  /\ MaxEvents \in Nat /\ MaxOpen \in Nat /\ Classes # {} /\ Receivers \subseteq Nat
  /\ ClassOf \in [Receivers -> Classes] /\ ModeOf \in [Receivers -> Modes]
  /\ \A r \in Eager : r \in Receivers /\ ModeOf[r] = "DURABLE"
  /\ Blocks \subseteq [classes: SUBSET Classes, record: BOOLEAN]
  /\ Attempt # Notify /\ {Attempt, Notify} \cap Receivers = {}
  /\ KeyFor \in [Actors -> STRING] /\ Users \subseteq Actors
  /\ Calls \subseteq [actor: Actors \cup {""}, key: STRING, chain: Nat]
  /\ \A call \in Calls : call.chain \notin 1..(MaxEvents + MaxOpen + 1)

VARIABLES
  event,     \* the EventRecord table, by primary key
  rows,      \* the DeliveryRecord table: the receivers each event is owed to
  fired,     \* how many events have been recorded
  returned,  \* the events whose fire has returned
  stack,     \* what the thread is inside of
  raising,   \* whether an exception is on its way out
  cause,     \* the ContextVar _cause, 0 for None
  blocks,    \* the ContextVar _stack
  scope,     \* the ContextVar _scope
  hooks,     \* the callbacks registered on the transaction
  ran,       \* how often each event's callbacks have run
  lost       \* events a crash caught before all of them had

vars == <<event, rows, fired, returned, stack, raising, cause, blocks, scope, hooks, ran, lost>>

Ids == 1..MaxEvents

Of(class, mode) == {r \in Receivers : ClassOf[r] = class /\ ModeOf[r] = mode}

Callbacks == {Attempt, Notify} \cup {r \in Receivers : ModeOf[r] = "ON_COMMIT"}

Hook == [event: Ids, run: Callbacks]

\* The chains attributed mints.
Minted == 1..(MaxEvents + MaxOpen + 1)

\* Those user code names.
Named == {call.chain : call \in Calls} \ {0}

NoOne == [key |-> "", user |-> FALSE]

Actor == [key: {call.key : call \in Calls} \cup {KeyFor[a] : a \in Actors} \cup {""},
          user: BOOLEAN]

Scope == [actor: Actor, chain: Minted \cup Named \cup {0}]

Empty == [actor |-> NoOne, chain |-> 0]

\* The receivers fire itself reaches.
Reached == {r \in Receivers : ModeOf[r] # "DURABLE"}

\* event: of a fire, a receiver or a callback; left: receivers a fire has still
\* to reach; todo: callbacks still to run; token: the ContextVar values to go
\* back to; from, mark: the events and callbacks there were on entry; given: what
\* an attributed block was.
Frame == [kind: {"atomic", "suppressed", "attributed", "firing", "inline", "callback", "hooks"},
          event: Ids \cup {0}, owing: BOOLEAN, left: SUBSET Reached, todo: Seq(Hook),
          token: [cause: Ids \cup {0}, blocks: Seq(Blocks), scope: Scope],
          from: 0..MaxEvents, mark: Nat, given: Scope]

TypeOK ==
  /\ event \in [Ids -> [status: {"none", "written", "committed", "undone"},
                        class: Classes, cause: Ids \cup {0},
                        chain: Minted \cup Named \cup {0},
                        suppressed: BOOLEAN, inside: BOOLEAN]]
  /\ rows \in [Ids -> SUBSET Receivers]
  /\ fired \in 0..MaxEvents /\ returned \subseteq Ids
  /\ stack \in Seq(Frame) /\ raising \in BOOLEAN
  /\ cause \in Ids \cup {0} /\ blocks \in Seq(Blocks) /\ scope \in Scope
  /\ hooks \in Seq(Hook)
  /\ ran \in [Ids -> [Callbacks -> Nat]] /\ lost \subseteq Ids

Init ==
  /\ event = [e \in Ids |-> [status |-> "none", class |-> CHOOSE c \in Classes : TRUE,
                             cause |-> 0, chain |-> 0, suppressed |-> FALSE, inside |-> FALSE]]
  /\ rows = [e \in Ids |-> {}] /\ fired = 0 /\ returned = {}
  /\ stack = <<>> /\ raising = FALSE /\ cause = 0 /\ blocks = <<>> /\ scope = Empty
  /\ hooks = <<>>
  /\ ran = [e \in Ids |-> [c \in Callbacks |-> 0]] /\ lost = {}

-----------------------------------------------------------------------------
(* The stack.                                                              *)

\* What the three ContextVars hold.
Context == [cause |-> cause, blocks |-> blocks, scope |-> scope]

Entered(kind) ==
  [kind |-> kind, event |-> 0, owing |-> FALSE, left |-> {}, todo |-> <<>>,
   token |-> Context, from |-> fired, mark |-> Len(hooks), given |-> Empty]

Top == Last(stack)
Under == Front(stack)

Inside(kind) == stack # <<>> /\ Top.kind = kind

Frames(kinds) == {i \in DOMAIN stack : stack[i].kind \in kinds}

InAtomic(s) == \E i \in DOMAIN s : s[i].kind = "atomic"

\* The code of an application runs: a caller or a receiver.
UserRuns ==
  /\ ~raising
  /\ stack # <<>> => Top.kind \in {"atomic", "suppressed", "attributed", "inline", "callback"}

Runs(frame) == stack' = Append(stack, frame)

\* It may enter one block more.
Room ==
  /\ UserRuns
  /\ Cardinality(Frames({"atomic", "suppressed", "attributed"})) < MaxOpen

\* transaction.atomic().
EnterAtomic ==
  /\ Room
  /\ Runs(Entered("atomic"))
  /\ UNCHANGED <<event, rows, fired, returned, raising, cause, blocks, scope, hooks, ran, lost>>

EnterSuppressed ==
  /\ Room
  /\ \E b \in Blocks : blocks' = Append(blocks, b)
  /\ Runs(Entered("suppressed"))
  /\ UNCHANGED <<event, rows, fired, returned, raising, cause, scope, hooks, ran, lost>>

-----------------------------------------------------------------------------
(* Attribution.                                                            *)

\* _actor_from.  Anonymous is nobody, and is not among the Actors.
ActorFrom(actor, key) ==
  [key |-> IF key # "" \/ actor \notin Actors THEN key ELSE KeyFor[actor],
   user |-> actor \in Users]

\* Mutant: each part of an actor is inherited on its own.
MergedByPart(outer, inner) ==
  [actor |-> [key |-> IF inner.actor.key # "" THEN inner.actor.key ELSE outer.actor.key,
              user |-> inner.actor.user \/ outer.actor.user],
   chain |-> IF inner.chain # 0 THEN inner.chain ELSE outer.chain]

\* An inner block overrides what it sets, an actor as a whole.
Merged(outer, inner) ==
  [actor |-> IF inner.actor # NoOne THEN inner.actor ELSE outer.actor,
   chain |-> IF inner.chain # 0 THEN inner.chain ELSE outer.chain]

\* The chain of the event whose receiver is running.
Inherited == IF cause = 0 THEN 0 ELSE event[cause].chain

\* uuid4: a chain nothing carries.
Fresh ==
  Min(Minted \ ({scope.chain} \cup {event[e].chain : e \in Ids}
                  \cup {stack[i].token.scope.chain : i \in DOMAIN stack}))

\* Mutant: a block that is given no chain starts one, in a receiver as well.
MintedAnyway(merged) ==
  IF merged.chain = 0 THEN [merged EXCEPT !.chain = Fresh] ELSE merged

\* A block that belongs to no chain inherits one before it starts one.
Chained(merged) ==
  IF merged.chain # 0 THEN merged
  ELSE [merged EXCEPT !.chain = IF Inherited # 0 THEN Inherited ELSE Fresh]

EnterAttributed ==
  /\ Room
  /\ \E call \in Calls :
       LET given == [actor |-> ActorFrom(call.actor, call.key), chain |-> call.chain]
       IN  /\ scope' = Chained(Merged(scope, given))
           /\ Runs([Entered("attributed") EXCEPT !.given = given])
  /\ UNCHANGED <<event, rows, fired, returned, raising, cause, blocks, hooks, ran, lost>>

-----------------------------------------------------------------------------
(* fire.                                                                   *)

Matches(class) == {i \in DOMAIN blocks : class \in blocks[i].classes}

\* A block that does not record wins over the others.
Discarded(class) == \E i \in Matches(class) : ~blocks[i].record

\* The event is written.  Suppressed, it is owed to nobody and fire returns.
Record(class) ==
  /\ UserRuns /\ fired < MaxEvents /\ ~Discarded(class)
  /\ LET e == fired + 1
         suppressed == Matches(class) # {}
     IN  /\ event' = [event EXCEPT ![e] =
               [status |-> IF InAtomic(stack) THEN "written" ELSE "committed",
                class |-> class, cause |-> cause, suppressed |-> suppressed,
                chain |-> IF scope.chain # 0 THEN scope.chain ELSE Inherited,
                inside |-> InAtomic(stack)]]
         /\ fired' = e
         /\ IF suppressed THEN returned' = returned \cup {e} /\ UNCHANGED stack
            ELSE /\ Runs([Entered("firing") EXCEPT !.event = e, !.owing = TRUE,
                            !.left = Of(class, "INLINE") \cup Of(class, "ON_COMMIT")])
                 /\ UNCHANGED returned
  /\ UNCHANGED <<rows, raising, cause, blocks, scope, hooks, ran, lost>>

\* Where there is no commit to wait for the callbacks run at once.
AtOnce(s, list) ==
  /\ stack' = IF list = <<>> THEN s ELSE Append(s, [Entered("hooks") EXCEPT !.todo = list])
  /\ UNCHANGED hooks

\* transaction.on_commit(robust=True).
OnCommit(s, list) ==
  IF InAtomic(s) THEN hooks' = hooks \o list /\ stack' = s ELSE AtOnce(s, list)

\* Mutant: an attempt of its own for each eager receiver.
ScheduledForEach(e) ==
  [i \in 1..Cardinality(Of(event[e].class, "DURABLE") \cap Eager) |->
     [event |-> e, run |-> SetToSeq(Of(event[e].class, "DURABLE") \cap Eager)[i]]]

\* One attempt for all the eager receivers, and one wake-up.
Scheduled(e) ==
  LET owed == Of(event[e].class, "DURABLE")
      hook(run) == [event |-> e, run |-> run]
  IN  IF owed = {} THEN <<>>
      ELSE IF owed \cap Eager = {} THEN <<hook(Notify)>>
      ELSE <<hook(Attempt), hook(Notify)>>

\* The rows are written, once every targets= and due= has answered.
Owe ==
  /\ Inside("firing") /\ Top.owing /\ ~raising
  /\ rows' = [rows EXCEPT ![Top.event] = Of(event[Top.event].class, "DURABLE")]
  /\ OnCommit(Append(Under, [Top EXCEPT !.owing = FALSE]), Scheduled(Top.event))
  /\ UNCHANGED <<event, fired, returned, raising, cause, blocks, scope, ran, lost>>

\* Mutant: a fan-out that raises is logged, and fire goes on without its rows.
Swallows == stack' = Append(Under, [Top EXCEPT !.owing = FALSE]) /\ UNCHANGED raising

\* What one of them, or the insert, raises goes into the caller.
RaisesIntoTheCaller == raising' = TRUE /\ UNCHANGED stack

FanOutFails ==
  /\ Inside("firing") /\ Top.owing /\ ~raising
  /\ Of(event[Top.event].class, "DURABLE") # {}
  /\ RaisesIntoTheCaller
  /\ UNCHANGED <<event, rows, fired, returned, cause, blocks, scope, hooks, ran, lost>>

\* The next receiver that is not durable.
Reach ==
  /\ Inside("firing") /\ ~Top.owing /\ ~raising /\ Top.left # {}
  /\ LET r == Min(Top.left)
         e == Top.event
         rest == Append(Under, [Top EXCEPT !.left = @ \ {r}])
     IN  IF ModeOf[r] = "INLINE"
         THEN /\ stack' = Append(rest, [Entered("inline") EXCEPT !.event = e])
              /\ cause' = e
              /\ UNCHANGED hooks
         ELSE /\ OnCommit(rest, <<[event |-> e, run |-> r]>>)
              /\ UNCHANGED cause
  /\ UNCHANGED <<event, rows, fired, returned, raising, blocks, scope, ran, lost>>

FireReturns ==
  /\ Inside("firing") /\ ~Top.owing /\ ~raising /\ Top.left = {}
  /\ returned' = returned \cup {Top.event}
  /\ stack' = Under
  /\ UNCHANGED <<event, rows, fired, raising, cause, blocks, scope, hooks, ran, lost>>

-----------------------------------------------------------------------------
(* After the commit.                                                       *)

\* The next callback.  A receiver is one, run under its own event; the eager
\* attempt and the wake-up are steps of Delivery and Relay.
RunHook ==
  /\ Inside("hooks") /\ Top.todo # <<>>
  /\ LET h == Head(Top.todo)
         rest == Append(Under, [Top EXCEPT !.todo = Tail(@)])
     IN  /\ ran' = [ran EXCEPT ![h.event][h.run] = @ + 1]
         /\ IF h.run \in Receivers
            THEN /\ stack' = Append(rest, [Entered("callback") EXCEPT !.event = h.event])
                 /\ cause' = h.event
            ELSE stack' = rest /\ UNCHANGED cause
  /\ UNCHANGED <<event, rows, fired, returned, raising, blocks, hooks, scope, lost>>

HooksRun ==
  /\ Inside("hooks") /\ Top.todo = <<>>
  /\ stack' = Under
  /\ UNCHANGED <<event, rows, fired, returned, raising, cause, blocks, scope, hooks, ran, lost>>

-----------------------------------------------------------------------------
(* Leaving a block, a receiver or a callback.                              *)

\* The outermost block commits, and then runs what waited for it.
LeaveAtomic ==
  /\ UserRuns /\ Inside("atomic")
  /\ IF InAtomic(Under) THEN stack' = Under /\ UNCHANGED <<event, hooks>>
     ELSE /\ event' = [e \in Ids |-> IF event[e].status = "written"
                                      THEN [event[e] EXCEPT !.status = "committed"] ELSE event[e]]
          /\ stack' = IF hooks = <<>> THEN Under
                      ELSE Append(Under, [Entered("hooks") EXCEPT !.todo = hooks])
          /\ hooks' = <<>>
  /\ UNCHANGED <<rows, fired, returned, raising, cause, blocks, scope, ran, lost>>

\* Mutants: a ContextVar is reset only where nothing was raised.
RestoredUnlessRaising == IF raising THEN cause ELSE Top.token.cause
ScopeUnlessRaising == IF raising THEN scope ELSE Top.token.scope

\* caused_by, suppressed and attributed put back what they found, whatever happened.
CauseRestored == Top.token.cause
BlocksRestored == Top.token.blocks
ScopeRestored == Top.token.scope

LeaveSuppressed ==
  /\ UserRuns /\ Inside("suppressed")
  /\ blocks' = BlocksRestored /\ stack' = Under
  /\ UNCHANGED <<event, rows, fired, returned, raising, cause, scope, hooks, ran, lost>>

LeaveAttributed ==
  /\ UserRuns /\ Inside("attributed")
  /\ scope' = ScopeRestored /\ stack' = Under
  /\ UNCHANGED <<event, rows, fired, returned, raising, cause, blocks, hooks, ran, lost>>

LeaveReceiver ==
  /\ UserRuns /\ (Inside("inline") \/ Inside("callback"))
  /\ cause' = CauseRestored /\ stack' = Under
  /\ UNCHANGED <<event, rows, fired, returned, raising, blocks, scope, hooks, ran, lost>>

-----------------------------------------------------------------------------
(* Exceptions and crashes.                                                 *)

\* A caller or a receiver fails, or fire refuses its arguments: an INLINE receiver
\* so vetoes the change.
Raise ==
  /\ UserRuns /\ stack # <<>>
  /\ raising' = TRUE
  /\ UNCHANGED <<event, rows, fired, returned, stack, cause, blocks, scope, hooks, ran, lost>>

\* The events after the first `from`, as far as they are not committed.
Undone(from) ==
  /\ event' = [e \in Ids |-> IF e > from /\ event[e].status = "written"
                              THEN [event[e] EXCEPT !.status = "undone"] ELSE event[e]]
  /\ rows' = [e \in Ids |-> IF e > from /\ event[e].status = "written" THEN {} ELSE rows[e]]

\* The block rolls back, the callbacks registered in it with it.
RollBack ==
  /\ raising /\ Inside("atomic")
  /\ Undone(Top.from)
  /\ hooks' = SubSeq(hooks, 1, Top.mark)
  /\ stack' = Under /\ raising' \in BOOLEAN
  /\ UNCHANGED <<fired, returned, cause, blocks, scope, ran, lost>>

Unwind ==
  /\ raising /\ stack # <<>> /\ Top.kind \in {"suppressed", "attributed", "firing", "inline"}
  /\ blocks' = IF Inside("suppressed") THEN BlocksRestored ELSE blocks
  /\ scope' = IF Inside("attributed") THEN ScopeRestored ELSE scope
  /\ cause' = IF Inside("inline") THEN CauseRestored ELSE cause
  /\ stack' = Under
  /\ UNCHANGED <<event, rows, fired, returned, raising, hooks, ran, lost>>

\* Mutant: without robust=True a failing callback takes the later ones with it.
RestDropped(s) == Append(Front(s), [Last(s) EXCEPT !.todo = <<>>])

\* robust=True: the others still run.
RestKept(s) == s

\* A failing callback is logged.
Survive ==
  /\ raising /\ Inside("callback")
  /\ cause' = CauseRestored
  /\ stack' = RestKept(Under) /\ raising' = FALSE
  /\ UNCHANGED <<event, rows, fired, returned, blocks, scope, hooks, ran, lost>>

\* Nobody caught it: the request fails.
Fail ==
  /\ raising /\ stack = <<>>
  /\ raising' = FALSE
  /\ UNCHANGED <<event, rows, fired, returned, stack, cause, blocks, scope, hooks, ran, lost>>

Pending ==
  UNION {IF stack[i].kind = "hooks" THEN {h.event : h \in ToSet(stack[i].todo)}
         ELSE IF stack[i].kind = "firing" THEN {stack[i].event} ELSE {} : i \in DOMAIN stack}

\* The process dies, and the database rolls its transaction back.
Crash ==
  /\ stack # <<>>
  /\ Undone(0)
  /\ lost' = lost \cup Pending
  /\ stack' = <<>> /\ raising' = FALSE /\ cause' = 0 /\ blocks' = <<>> /\ scope' = Empty
  /\ hooks' = <<>>
  /\ UNCHANGED <<fired, returned, ran>>

-----------------------------------------------------------------------------

Next ==
  \/ EnterAtomic \/ EnterSuppressed \/ EnterAttributed
  \/ LeaveAtomic \/ LeaveSuppressed \/ LeaveAttributed \/ LeaveReceiver
  \/ \E class \in Classes : Record(class)
  \/ Owe \/ FanOutFails \/ Reach \/ FireReturns
  \/ RunHook \/ HooksRun
  \/ Raise \/ RollBack \/ Unwind \/ Survive \/ Fail \/ Crash

Spec == Init /\ [][Next]_vars

-----------------------------------------------------------------------------
(* Safety.                                                                 *)

\* "The obligation exists if and only if the business change committed": an
\* event fired inside a transaction is committed with all its rows and with its
\* fire returned, and one that was rolled back leaves none.  A suppressed event
\* has none at all.
OwedIffCommitted ==
  \A e \in Ids :
    /\ event[e].status \in {"none", "undone"} \/ event[e].suppressed => rows[e] = {}
    /\ event[e].status = "committed" /\ event[e].inside => e \in returned
    /\ event[e].status = "committed" /\ e \in returned /\ ~event[e].suppressed =>
         rows[e] = Of(event[e].class, "DURABLE")

\* No eager attempt, wake-up or ON_COMMIT receiver of an event whose rows nobody
\* else could see, or of one that was rolled back or suppressed.
HooksFollowTheCommit ==
  \A e \in Ids : \A c \in Callbacks :
    ran[e][c] > 0 => /\ event[e].status = "committed" /\ ~event[e].suppressed
                     /\ c \in {Attempt, Notify} => rows[e] # {}

Expected(e) ==
  Of(event[e].class, "ON_COMMIT")
    \cup (IF Of(event[e].class, "DURABLE") = {} THEN {} ELSE {Notify})
    \cup (IF Of(event[e].class, "DURABLE") \cap Eager = {} THEN {} ELSE {Attempt})

\* Each of them runs once, and a failing one takes no other with it: once the
\* thread is done, only a crash has lost any.
EachHookOnce ==
  \A e \in Ids :
    /\ \A c \in Callbacks : ran[e][c] <= 1
    /\ stack = <<>> /\ event[e].status = "committed" /\ ~event[e].suppressed
         /\ e \in returned \ lost =>
           \A c \in Expected(e) : ran[e][c] = 1

\* Receivers that are running, and attributed blocks that name an actor.
Receiving == Frames({"inline", "callback"})
Naming == {i \in Frames({"attributed"}) : stack[i].given.actor # NoOne}

\* What fire reads off the three ContextVars is what the thread is inside of,
\* however it got out of what came before: no event is attributed to a receiver
\* that has ended, suppressed by a block that has, or put down to anyone but the
\* one actor that the innermost open block to name one names.
ContextFollowsTheStack ==
  /\ cause = IF Receiving = {} THEN 0 ELSE stack[Max(Receiving)].event
  /\ Len(blocks) = Cardinality(Frames({"suppressed"}))
  /\ scope.actor = IF Naming = {} THEN NoOne ELSE stack[Max(Naming)].given.actor
  /\ scope.chain = 0 <=> Frames({"attributed"}) = {}

\* An event that stands was caused by one that stands: no savepoint takes the
\* cause away and leaves the effect.
CausesStand ==
  \A e \in Ids :
    event[e].status = "committed" /\ event[e].cause # 0 =>
      event[e].cause < e /\ event[event[e].cause].status = "committed"

\* "An event a receiver fires already records its parent and stays in the same
\* chain": also one whose receiver runs at commit, when the blocks that the
\* parent was fired in have ended, and one fired inside a block of the receiver's
\* own.  Only a block that names a chain itself takes an event out of its parent's.
SameChain ==
  \A e \in Ids : event[e].status # "none" /\ event[e].cause # 0 =>
    LET chain == event[e].chain
        parent == event[event[e].cause].chain
    IN  parent = 0 \/ chain = parent \/ {chain, parent} \cap Named # {}

-----------------------------------------------------------------------------
(* The inductive invariant.                                                *)

AtomicBelow(s, i) == \E j \in 1..(i - 1) : s[j].kind = "atomic"

\* How frames lie on one another.
Stacked(s) ==
  \A i \in DOMAIN s :
    /\ s[i].kind = "inline" => i > 1 /\ s[i - 1].kind = "firing" /\ s[i - 1].event = s[i].event
    /\ s[i].kind = "callback" <=> i > 1 /\ s[i - 1].kind = "hooks"
    /\ s[i].kind = "hooks" => ~AtomicBelow(s, i)
    /\ s[i].kind # "hooks" => s[i].todo = <<>>

\* How many of n events and m callbacks there were when each was entered.
Dated(s, n, m) ==
  \A i \in DOMAIN s :
    /\ s[i].from <= n
    /\ s[i].kind = "firing" => s[i].event = s[i].from + 1 /\ s[i].event <= n
    /\ s[i].kind = "atomic" => s[i].mark <= m
    /\ s[i].kind = "atomic" /\ ~AtomicBelow(s, i) => s[i].mark = 0
    /\ \A j \in 1..(i - 1) :
         /\ s[j].from <= s[i].from
         /\ s[j].kind = "firing" => s[j].event <= s[i].from
         /\ s[j].kind = "atomic" /\ s[i].kind = "atomic" => s[j].mark <= s[i].mark

Nested ==
  /\ raising /\ stack # <<>> => Top.kind # "hooks"
  /\ Stacked(stack)
  /\ Dated(stack, fired, Len(hooks))
  /\ ~InAtomic(stack) => hooks = <<>>

Receives(f) == f.kind \in {"inline", "callback"}
Names(f) == f.kind = "attributed" /\ f.given.actor # NoOne

\* What the ContextVars hold of the first n frames.
TellsCause(s, n, c) ==
  \/ c = 0 /\ \A j \in 1..n : ~Receives(s[j])
  \/ \E j \in 1..n : /\ Receives(s[j]) /\ c = s[j].event
                     /\ \A k \in (j + 1)..n : ~Receives(s[k])

TellsActor(s, n, a) ==
  \/ a = NoOne /\ \A j \in 1..n : ~Names(s[j])
  \/ \E j \in 1..n : /\ Names(s[j]) /\ a = s[j].given.actor
                     /\ \A k \in (j + 1)..n : ~Names(s[k])

Suppressing(s, n) == {j \in 1..n : s[j].kind = "suppressed"}

Tells(s, n, held) ==
  /\ TellsCause(s, n, held.cause)
  /\ TellsActor(s, n, held.scope.actor)
  /\ Len(held.blocks) = Cardinality(Suppressing(s, n))
  /\ held.scope.chain = 0 <=> \A j \in 1..n : s[j].kind # "attributed"

\* What they held once frame i was entered.
Above(s, i, held) == IF i = Len(s) THEN held ELSE s[i + 1].token

\* A token is what they held below its frame, of which a receiver changes the
\* cause alone and an attributed block the scope alone.
Kept(s, held) ==
  /\ Tells(s, Len(s), held)
  /\ \A i \in DOMAIN s :
       /\ Tells(s, i - 1, s[i].token)
       /\ ~Receives(s[i]) => Above(s, i, held).cause = s[i].token.cause
       /\ s[i].kind # "attributed" => Above(s, i, held).scope = s[i].token.scope

ContextsKept == Kept(stack, Context)

\* Where the cause stands, the effect stands or is to be decided with it.
Decided(e) ==
  LET c == event[e].cause
  IN  c # 0 => /\ c < e
               /\ event[e].status \in {"written", "committed"} =>
                    event[c].status \in {"committed", event[e].status}

Fired(s, e) == \E i \in DOMAIN s : s[i].kind = "firing" /\ s[i].event = e

\* The next rollback undoes it.
Abandoned(s, e) ==
  \A i \in DOMAIN s :
    s[i].kind = "atomic" /\ (\A k \in DOMAIN s : k > i => s[k].kind # "atomic") => s[i].from < e

\* The first rollback there may be does.
Undoable(s, e) ==
  \A i \in DOMAIN s : s[i].kind = "atomic" /\ ~AtomicBelow(s, i) => s[i].from < e

EventKept(e) ==
  /\ event[e].status = "none" <=> e > fired
  /\ event[e].status \in {"none", "undone"} \/ event[e].suppressed => rows[e] = {}
  /\ event[e].status = "written" =>
       /\ event[e].inside /\ InAtomic(stack) /\ Undoable(stack, e)
       /\ e \in returned \/ Fired(stack, e) \/ (raising /\ Abandoned(stack, e))
  /\ event[e].inside /\ event[e].status = "committed" => e \in returned
  /\ event[e].status \in {"written", "committed"} /\ e \in returned /\ ~event[e].suppressed =>
       rows[e] = Of(event[e].class, "DURABLE")
  /\ e \in returned => e <= fired
  /\ Decided(e)

\* The event of a frame.
FrameKept(s, i) ==
  LET e == s[i].event
  IN  /\ s[i].kind = "firing" =>
           /\ event[e].status = IF AtomicBelow(s, i) THEN "written" ELSE "committed"
           /\ ~event[e].suppressed /\ e \notin returned
           /\ ~s[i].owing => rows[e] = Of(event[e].class, "DURABLE")
           /\ s[i].left \subseteq Of(event[e].class, "INLINE") \cup Of(event[e].class, "ON_COMMIT")
      /\ s[i].kind = "callback" => e # 0 /\ event[e].status = "committed"
      /\ \A p \in DOMAIN s[i].todo : event[s[i].todo[p].event].status = "committed"
      /\ s[i].kind = "atomic" => \A p \in DOMAIN hooks :
           p <= s[i].mark <=> hooks[p].event <= s[i].from

EventsKept ==
  /\ \A e \in Ids : EventKept(e)
  /\ \A i \in DOMAIN stack : FrameKept(stack, i)
  /\ \A p \in DOMAIN hooks : event[hooks[p].event].status = "written"

\* A chain y further in than a chain x; one in a receiver of event c.
Inner(x, y) == x = 0 \/ y = x \/ y \in Named
Follows(c, y) ==
  \/ c = 0 \/ y = 0 \/ event[c].chain = 0 \/ y = event[c].chain
  \/ {y, event[c].chain} \cap Named # {}

ChainKept(s, i) ==
  /\ Follows(s[i].token.cause, s[i].token.scope.chain)
  /\ \A j \in 1..(i - 1) : Inner(s[j].token.scope.chain, s[i].token.scope.chain)
  /\ s[i].kind = "firing" /\ s[i].token.scope.chain # 0 =>
       event[s[i].event].chain = s[i].token.scope.chain
  /\ \A p \in DOMAIN s[i].todo : Follows(s[i].todo[p].event, s[i].token.scope.chain)
  /\ s[i].kind = "atomic" => \A p \in DOMAIN hooks : p > s[i].mark =>
       Inner(s[i].token.scope.chain, event[hooks[p].event].chain)

ChainsKept ==
  /\ Follows(cause, scope.chain)
  /\ \A i \in DOMAIN stack : ChainKept(stack, i) /\ Inner(stack[i].token.scope.chain, scope.chain)
  /\ SameChain

\* Callbacks wait for the commit, or to be run, each in one place.
Waits(h) ==
  \/ \E p \in DOMAIN hooks : hooks[p] = h
  \/ \E i \in DOMAIN stack : \E p \in DOMAIN stack[i].todo : stack[i].todo[p] = h

Apart ==
  /\ \A p, q \in DOMAIN hooks : hooks[p] = hooks[q] => p = q
  /\ \A i, k \in DOMAIN stack : \A p \in DOMAIN stack[i].todo, q \in DOMAIN stack[k].todo :
       stack[i].todo[p] = stack[k].todo[q] => i = k /\ p = q

\* A fire has still to register it.
Registers(f, h) ==
  /\ f.kind = "firing" /\ f.event = h.event
  /\ (h.run \in {Attempt, Notify} /\ f.owing) \/ h.run \in f.left

\* It may run, or has.
Earned(h) ==
  /\ ~event[h.event].suppressed
  /\ h.run \in {Attempt, Notify} => rows[h.event] # {}
  /\ \A i \in DOMAIN stack : ~Registers(stack[i], h)

\* It is to run, where its event is not rolled back.
Due(h) ==
  /\ h.run \in Expected(h.event) /\ ~event[h.event].suppressed
  /\ event[h.event].status \in {"written", "committed"}

HookKept(h) ==
  LET once == ran[h.event][h.run] = 1
  IN  /\ once \/ ran[h.event][h.run] = 0
      /\ Waits(h) => ~once /\ Earned(h)
      /\ once => event[h.event].status = "committed" /\ Earned(h)
      /\ Due(h) =>
           /\ h.event \in returned \ lost => once \/ Waits(h)
           /\ \A i \in DOMAIN stack : stack[i].kind = "firing" /\ stack[i].event = h.event =>
                once \/ Waits(h) \/ Registers(stack[i], h)

HooksKept == Apart /\ \A h \in Hook : HookKept(h)

IInv == TypeOK /\ Nested /\ ContextsKept /\ EventsKept /\ ChainsKept /\ HooksKept
=============================================================================
