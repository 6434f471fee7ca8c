------------------------------- MODULE Serve --------------------------------
(***************************************************************************)
(* The queue over one store (apps/cli/src/commands/serve/index.ts): its    *)
(* ticks, the runs and re-levels it starts as children, and its drain,     *)
(* beside runs people start, edits, merges and processes that die.         *)
(*                                                                         *)
(* An action of the queue is what it does from one await to the next; the  *)
(* store and the locks may change at each await, and what a tick read      *)
(* before one it goes on using after.  A run is its writes to the ticket   *)
(* and the lock it holds between them (TicketFile and PidLock detail       *)
(* both); a sync inside a tick is two, its reading of the record and, once *)
(* `gh` has answered, its write of that same record.                       *)
(***************************************************************************)
EXTENDS Scheduling

CONSTANTS
  Capacity,      \* concurrent_local_attempts
  MergeByLoop,   \* the repository's merge mode is "loop"
  PlansWritten,  \* the plans people may have written
  MaxEvents      \* bound: what people do, and what fails or dies, together

ASSUME ServeAssumption ==
  /\ Capacity \in Nat \ {0}
  /\ MergeByLoop \in BOOLEAN
  /\ PlansWritten \subseteq Plans
  /\ MaxEvents \in Nat

(* The queue order is one: of any tickets, one has the others ahead of it. *)
ASSUME OrderAssumption ==
  \A p \in PlansWritten :
    \A ks \in (SUBSET Keys) \ {{}} : \E k \in ks : ks \ {k} \subseteq Ahead(p.depends)[k]

VARIABLES
  plan,      \* what people wrote and approved; never changes
  ahead,     \* the queue order it makes: the tickets ahead of each
  tickets,   \* each record: its state, the waits written on it, and the base tip a re-level failed at
  pulls,     \* each ticket's pull request
  level,     \* the base tip each branch holds as pushed, 0 before it is
  base,      \* the tip of the base, and whether the remote's is past the one fetched
  child,     \* the child the queue has for each ticket, and the tip it was started to level to
  hand,      \* the run somebody started by hand
  queue,     \* where the queue is in its tick, and what it holds across awaits
  snap,      \* the tickets as the tick read them: the one being synced, and then all
  changed,   \* since that reading: records that were stamped, and records written at all
  paused,    \* the endpoint's pause
  events,
  tried,     \* history: the tips each ticket's re-level was started at and did not level
  erased     \* history: those of them whose record a sync wrote over since

worldVars == <<plan, ahead, pulls, level, base, events>>
queueVars == <<queue, snap, paused>>
histories == <<tried, erased>>
vars == <<plan, ahead, tickets, pulls, level, base, child, hand, queue, snap, changed, paused, events, tried, erased>>

Tickets == [state: States, waits: SUBSET (Keys \union {Unknown}), failed: Nat]

(* A child is spawned before its process does anything; a run moves the    *)
(* ticket before it takes the run lock and again after it let it go.       *)
Stages == {"none", "spawned", "started", "locked", "published", "failed", "levelled", "exited", "levelled_exited"}
Children == [stage: Stages, kind: {"run", "relevel"}, tip: Nat]
NoChild == [stage |-> "none", kind |-> "run", tip |-> 0]

(* What the tick holds of a ticket it has not read. *)
Unread == [state |-> "ready", waits |-> {}, failed |-> 0]

Queues ==
  [at: {"sleeping", "syncing", "asking", "merging", "sealing", "levelling", "looking", "draining", "stopped"},
   todo: SUBSET Keys,    \* what the loop under way has still to look at, or is looking at
   live: SUBSET Keys,    \* the runs alive, as far as the tick knows
   opened: SUBSET Keys,  \* those listed at `pr_open` when the syncs began
   merging: BOOLEAN, ready: SUBSET Keys, stopping: BOOLEAN]

TypeOK ==
  /\ plan \in Plans /\ ahead \in [Keys -> SUBSET Keys]
  /\ tickets \in [Keys -> Tickets] /\ snap \in [Keys -> Tickets]
  /\ pulls \in [Keys -> {"none", "open", "merged", "closed"}]
  /\ level \in [Keys -> Nat]
  /\ base \in [tip: Nat, ahead: BOOLEAN]
  /\ child \in [Keys -> Children]
  /\ hand \in [Keys -> Stages]
  /\ queue \in Queues
  /\ changed \in [stamped: SUBSET Keys, written: SUBSET Keys]
  /\ paused \in BOOLEAN /\ events \in 0..MaxEvents
  /\ tried \in [Keys -> SUBSET Nat] /\ erased \in [Keys -> SUBSET Nat]

-----------------------------------------------------------------------------
State == [k \in Keys |-> tickets[k].state]

Locking == {"locked"}
LockOf(k) == child[k].stage \in Locking \/ hand[k] \in Locking

(* liveRunLocks: a run is seen while it holds its lock. *)
LiveRuns == {k \in Keys : LockOf(k)}

ChildKeys == {k \in Keys : child[k].stage # "none"}

STRANDED_STATES == {"provisioning"}

(* A record written by anyone while the tick holds a reading of it. *)
Reading == queue.at \in {"sealing", "levelling", "looking"}
WriteOnly(k) == IF Reading THEN [changed EXCEPT !.written = @ \union {k}] ELSE changed
Stamp(k) ==
  IF queue.at = "sealing" THEN [WriteOnly(k) EXCEPT !.stamped = @ \union {k}] ELSE WriteOnly(k)

Move(k, state) == tickets' = [tickets EXCEPT ![k].state = state] /\ changed' = Stamp(k)

(* What a loop over the tickets still to look at comes to next. *)
FirstOf(ks, k) == k \in ks /\ ahead[k] \intersect ks = {}

Happens == events < MaxEvents /\ events' = events + 1

-----------------------------------------------------------------------------
(* The tick. *)

(* The base is fetched, or the fetch fails and the local ref is read; then the live runs are read    *)
(* and the store is listed for what is open or stranded.                   *)
Tick ==
  /\ queue.at = "sleeping" /\ ~queue.stopping
  /\ \/ base' = (IF base.ahead THEN [tip |-> base.tip + 1, ahead |-> FALSE] ELSE base) /\ UNCHANGED events
     \/ base.ahead /\ Happens /\ UNCHANGED base
  /\ LET live == LiveRuns \union ChildKeys
         opened == {k \in Keys : tickets[k].state = "pr_open"}
         stranded == {k \in Keys : tickets[k].state \in STRANDED_STATES} \ live
     IN  queue' = [queue EXCEPT !.at = "syncing", !.live = live, !.opened = opened,
                                !.todo = opened \union stranded, !.merging = MergeByLoop]
  /\ UNCHANGED <<plan, ahead, tickets, pulls, level, child, hand, snap, changed, paused, histories>>

(* Where a sync leaves a ticket it read in a state, by its pull request:   *)
(* nowhere, where there is nothing to reconcile or to hand off from.       *)
Synced(state, pull) ==
  CASE state \in {"pr_open", "provisioning"} /\ pull = "merged" -> {"merged"}
    [] state \in {"pr_open", "provisioning"} /\ pull = "closed" -> {"settled"}
    [] state = "provisioning" /\ pull = "open" -> {"pr_open"}
    [] state = "settled" /\ pull = "open" -> {"settled", "pr_open"}
    [] state = "settled" /\ pull = "merged" -> {"settled", "merged"}
    [] state \in {"provisioning", "settled"} /\ pull = "none" -> {}
    [] OTHER -> {state}

(* The record is read, an open one's perhaps to be merged, and `gh` asked. *)
SyncReads(k) ==
  /\ queue.at = "syncing" /\ FirstOf(queue.todo, k)
  /\ queue' = [queue EXCEPT !.at = IF k \in queue.opened /\ queue.merging /\ ~paused THEN "merging" ELSE "asking"]
  /\ snap' = [snap EXCEPT ![k] = tickets[k]]
  /\ UNCHANGED <<worldVars, tickets, child, hand, changed, paused, histories>>

SyncNext(k) ==
  /\ queue.at \in {"asking", "merging"} /\ FirstOf(queue.todo, k)

(* The record that was read is written back whole, whatever was written of *)
(* the ticket meanwhile: a re-level's failure among it is off the record.  *)
WritesBack(k, state) ==
  /\ tickets' = [tickets EXCEPT ![k] = [snap[k] EXCEPT !.state = state]]
  /\ erased' = IF snap[k].failed = tickets[k].failed THEN erased
               ELSE [erased EXCEPT ![k] = @ \union {tickets[k].failed}]

(* The pull request is reported, or `gh` says nothing of it, or what it    *)
(* says cannot be read: as good as no pull request, and written over any   *)
(* record that is not stranded.                                            *)
Sync(k) ==
  /\ SyncNext(k)
  /\ queue' = [queue EXCEPT !.at = "syncing", !.todo = @ \ {k}]
  /\ snap' = [snap EXCEPT ![k] = Unread]
  /\ LET states == Synced(snap[k].state, pulls[k])
     IN  \/ UNCHANGED events /\ \E state \in states : WritesBack(k, state)
         \/ /\ IF states = {} THEN UNCHANGED events ELSE Happens
            /\ UNCHANGED <<tickets, erased>>
         \/ /\ Happens /\ snap[k].state \notin STRANDED_STATES
            /\ WritesBack(k, snap[k].state)
  /\ UNCHANGED <<plan, ahead, pulls, level, base, child, hand, changed, paused, tried>>

(* Asked to merge, it merges: the ones behind it are left for the next     *)
(* tick, unless `gh` then says nothing and the sync reports no merge.      *)
SyncMerges(k) ==
  /\ SyncNext(k)
  /\ queue.at = "merging"
  /\ snap[k].state = "pr_open" /\ pulls[k] = "open"
  /\ pulls' = [pulls EXCEPT ![k] = "merged"]
  /\ base' = [base EXCEPT !.ahead = TRUE]
  /\ snap' = [snap EXCEPT ![k] = Unread]
  /\ \/ /\ queue' = [queue EXCEPT !.at = "syncing", !.todo = @ \ {k}, !.merging = FALSE]
        /\ \/ WritesBack(k, "merged") /\ UNCHANGED events
           \/ WritesBack(k, "pr_open") /\ Happens
     \/ /\ Happens
        /\ queue' = [queue EXCEPT !.at = "syncing", !.todo = @ \ {k}]
        /\ UNCHANGED <<tickets, erased>>
  /\ UNCHANGED <<plan, ahead, level, child, hand, changed, paused, tried>>

(* Mutant: the live runs replace what the tick knew of, children and all. *)
LookAgainAfresh == LiveRuns

(* The live runs are read again, and only ever added. *)
LookAgain == queue.live \union LiveRuns

(* The store as the syncs left it; the git reads of sealed paths follow. *)
ReadStore ==
  /\ queue.at = "syncing" /\ queue.todo = {}
  /\ queue' = [queue EXCEPT !.at = "sealing", !.live = LookAgain, !.opened = {}, !.merging = FALSE]
  /\ snap' = tickets
  /\ UNCHANGED <<worldVars, tickets, child, hand, changed, paused, histories>>

(* Mutant: the record is replaced without being read again. *)
MovedNever(k) == FALSE

(* The record as it is now is not the one that was read. *)
MovedSince(k) == tickets[k].state # snap[k].state \/ k \in changed.stamped

(* Every ready or blocked ticket no run is inside is decided on, from the  *)
(* tickets that were read and what could be read of the sealed branches.   *)
Considered == {k \in Keys : snap[k].state \in {"ready", "blocked"}} \ queue.live

Decided(sealed, k) ==
  LET waits == WaitsFor(plan, ahead, [j \in Keys |-> snap[j].state], sealed, k)
  IN  [snap[k] EXCEPT !.state = IF waits = {} THEN "ready" ELSE "blocked", !.waits = waits]

SnapOpen == {k \in Keys : snap[k].state = "pr_open"}

(* A decision is written over the record it was read from and no other,    *)
(* and of what was read the open tickets alone are looked at again.  The   *)
(* live runs are read once more.                                           *)
DecideOn(sealed) ==
  LET differs == {k \in Considered : Decided(sealed, k) # snap[k]}
      yields == {k \in differs : MovedSince(k)}
  IN  /\ tickets' = [k \in Keys |-> IF k \in differs \ yields THEN Decided(sealed, k) ELSE tickets[k]]
      /\ queue' = [queue EXCEPT
           !.at = "levelling",
           !.live = LookAgain,
           !.todo = SnapOpen \ LookAgain,
           !.ready = {k \in Considered \ yields : Decided(sealed, k).state = "ready"}
                       \union {k \in yields : tickets[k].state = "ready"}]
      /\ snap' = [k \in Keys |-> IF k \in SnapOpen THEN snap[k] ELSE tickets'[k]]

Decide ==
  /\ queue.at = "sealing"
  /\ \E sealed \in SUBSET SnapOpen :
       /\ DecideOn(sealed)
       /\ IF sealed = SnapOpen THEN UNCHANGED events ELSE Happens
  /\ changed' = [changed EXCEPT !.stamped = {}]
  /\ UNCHANGED <<plan, ahead, pulls, level, base, child, hand, paused, histories>>

Room == Cardinality(queue.live) + 1 <= Capacity

(* A pause is seen before git is asked where the branch stands, not after. *)
LevelLooks(k) ==
  /\ queue.at = "levelling" /\ FirstOf(queue.todo, k) /\ ~paused
  /\ queue' = [queue EXCEPT !.at = "looking"]
  /\ UNCHANGED <<worldVars, tickets, child, hand, snap, changed, paused, histories>>

LevelNext(k) ==
  /\ queue.at = "looking" /\ FirstOf(queue.todo, k)

(* Git cannot say where the branch stands, or it is level: a record of a   *)
(* re-level that failed is cleared, over the ticket as it is now.          *)
LeaveLevel(k) ==
  /\ LevelNext(k)
  /\ queue' = [queue EXCEPT !.at = "levelling", !.todo = @ \ {k}]
  /\ \/ Happens /\ UNCHANGED <<tickets, changed>>
     \/ /\ level[k] = base.tip \/ snap[k].failed = base.tip
        /\ UNCHANGED events
        /\ IF level[k] = base.tip /\ snap[k].failed # 0
           THEN tickets' = [tickets EXCEPT ![k].failed = 0] /\ changed' = WriteOnly(k)
           ELSE UNCHANGED <<tickets, changed>>
  /\ UNCHANGED <<plan, ahead, pulls, level, base, child, hand, snap, paused, histories>>

(* A branch behind the base is re-levelled, once at each tip. *)
Relevel(k) ==
  /\ LevelNext(k)
  /\ level[k] < base.tip
  /\ snap[k].failed # base.tip
  /\ Room
  /\ child' = [child EXCEPT ![k] = [stage |-> "spawned", kind |-> "relevel", tip |-> base.tip]]
  /\ queue' = [queue EXCEPT !.at = "levelling", !.todo = @ \ {k}, !.live = @ \union {k}]
  /\ UNCHANGED <<worldVars, tickets, hand, snap, changed, paused, histories>>

(* No room, or a pause: no further branch is looked at. *)
LevelEnds ==
  /\ \/ queue.at = "levelling" /\ queue.todo # {} /\ paused
     \/ \E k \in Keys :
          LevelNext(k) /\ level[k] < base.tip /\ snap[k].failed # base.tip /\ ~Room
  /\ queue' = [queue EXCEPT !.at = "levelling", !.todo = {}]
  /\ UNCHANGED <<worldVars, tickets, child, hand, snap, changed, paused, histories>>

Asleep(q) == [q EXCEPT !.at = "sleeping", !.todo = {}, !.live = {}, !.opened = {}, !.merging = FALSE, !.ready = {}]

(* Mutant: the room left is counted once for the whole tick. *)
StartedWhileThereIsRoom(ready) == IF Room THEN ready ELSE {}

(* The first of the ready in queue order, while there is room. *)
Started(ready) ==
  {k \in ready : Cardinality(queue.live) + 1 + Cardinality(ahead[k] \intersect ready) <= Capacity}

(* Every ready ticket no run is inside is started, in one go. *)
Start ==
  /\ queue.at = "levelling" /\ queue.todo = {}
  /\ LET started == IF paused THEN {} ELSE Started(queue.ready \ queue.live)
     IN  child' = [k \in Keys |->
           IF k \in started THEN [stage |-> "spawned", kind |-> "run", tip |-> 0] ELSE child[k]]
  /\ queue' = Asleep(queue)
  /\ snap' = [k \in Keys |-> Unread]
  /\ changed' = [stamped |-> {}, written |-> {}]
  /\ UNCHANGED <<worldVars, tickets, hand, paused, histories>>

(* The promise of a child settles: a re-level that did not level is        *)
(* recorded with the tip it was started at, and one that did is cleared.   *)
ChildExits(k) ==
  /\ child[k].stage \in {"exited", "levelled_exited"}
  /\ child' = [child EXCEPT ![k] = NoChild]
  /\ LET failed == IF child[k].stage = "exited" THEN child[k].tip ELSE 0
     IN  IF child[k].kind = "relevel" /\ tickets[k].failed # failed
         THEN /\ tickets' = [tickets EXCEPT ![k].failed = failed]
              /\ changed' = WriteOnly(k)
         ELSE UNCHANGED <<tickets, changed>>
  /\ IF child[k].kind = "relevel" /\ child[k].stage = "exited"
     THEN /\ tried' = [tried EXCEPT ![k] = @ \union {child[k].tip}]
          /\ erased' = [erased EXCEPT ![k] = @ \ {child[k].tip}]
     ELSE UNCHANGED histories
  /\ UNCHANGED <<worldVars, hand, queueVars>>

(* A signal stops the queue between ticks; it waits for its children. *)
Signal ==
  /\ Happens
  /\ ~queue.stopping
  /\ queue' = [queue EXCEPT !.stopping = TRUE]
  /\ UNCHANGED <<plan, ahead, pulls, level, base, tickets, child, hand, snap, changed, paused, histories>>

Drain ==
  /\ queue.at = "sleeping" /\ queue.stopping
  /\ queue' = [queue EXCEPT !.at = "draining"]
  /\ UNCHANGED <<worldVars, tickets, child, hand, snap, changed, paused, histories>>

Stop ==
  /\ queue.at = "draining" /\ ChildKeys = {}
  /\ queue' = [queue EXCEPT !.at = "stopped"]
  /\ UNCHANGED <<worldVars, tickets, child, hand, snap, changed, paused, histories>>

Pause ==
  /\ Happens
  /\ paused' = ~paused
  /\ UNCHANGED <<plan, ahead, tickets, pulls, level, base, child, hand, queue, snap, changed, histories>>

-----------------------------------------------------------------------------
(* The runs, the queue's and those started by hand. *)

Processes == {"child", "hand"}
StageOf(p, k) == IF p = "child" THEN child[k].stage ELSE hand[k]
IsRun(p, k) == p = "hand" \/ child[k].kind = "run"

(* Its process goes on to a stage, or ends: a child's end waits for the    *)
(* queue to see it.                                                        *)
To(p, k, stage) ==
  IF p = "child"
  THEN child' = [child EXCEPT ![k].stage = stage] /\ UNCHANGED hand
  ELSE hand' = [hand EXCEPT ![k] = IF stage = "exited" THEN "none" ELSE stage] /\ UNCHANGED child

Reopenable == {"ready", "blocked", "provisioning", "settled"}

(* `starting`: the ticket is reopened and moved before the lock is taken.  *)
(* What refuses a command before it moves anything is with `Dies` below.   *)
RunStarts(p, k) ==
  /\ StageOf(p, k) = "spawned" /\ IsRun(p, k)
  /\ IF tickets[k].state \in Reopenable
     THEN To(p, k, "started") /\ Move(k, "provisioning")
     ELSE To(p, k, "exited") /\ UNCHANGED <<tickets, changed>>
  /\ UNCHANGED <<worldVars, queueVars, histories>>

(* A re-level moves nothing, and is refused unless the ticket is open. *)
RelevelStarts(k) ==
  /\ child[k].stage = "spawned" /\ child[k].kind = "relevel"
  /\ To("child", k, IF tickets[k].state = "pr_open" THEN "started" ELSE "exited")
  /\ UNCHANGED <<worldVars, tickets, queueVars, changed, histories>>

(* The lock refuses a second run, which leaves the ticket where it is. *)
TakeLock(p, k) ==
  /\ StageOf(p, k) = "started"
  /\ To(p, k, IF LockOf(k) THEN "exited" ELSE "locked")
  /\ UNCHANGED <<worldVars, tickets, queueVars, changed, histories>>

(* The loop publishes what it made, levelled with the base, or does not;   *)
(* the lock is let go.                                                     *)
RunPublishes(p, k) ==
  /\ StageOf(p, k) = "locked" /\ IsRun(p, k)
  /\ pulls' = [pulls EXCEPT ![k] = "open"]
  /\ level' = [level EXCEPT ![k] = base.tip]
  /\ To(p, k, "published")
  /\ UNCHANGED <<plan, ahead, tickets, base, events, queueVars, changed, histories>>

(* The loop ends without a publication, or refuses a person who owes it    *)
(* answers: what it reopened settles again.                                *)
RunFails(p, k) ==
  /\ StageOf(p, k) = "locked" /\ IsRun(p, k)
  /\ To(p, k, "failed")
  /\ UNCHANGED <<worldVars, tickets, queueVars, changed, histories>>

(* `finished`, after the lock: a ticket somebody moved on is left. *)
RunFinishes(p, k) ==
  /\ StageOf(p, k) \in {"published", "failed"}
  /\ IF tickets[k].state = "provisioning"
     THEN Move(k, IF StageOf(p, k) = "published" THEN "pr_open" ELSE "settled")
     ELSE UNCHANGED <<tickets, changed>>
  /\ To(p, k, "exited")
  /\ UNCHANGED <<worldVars, queueVars, histories>>

RelevelEnds(k) ==
  /\ child[k].stage = "locked" /\ child[k].kind = "relevel"
  /\ \/ level' = [level EXCEPT ![k] = base.tip] /\ To("child", k, "levelled_exited")
     \/ To("child", k, "exited") /\ UNCHANGED level
  /\ UNCHANGED <<plan, ahead, pulls, base, events, tickets, queueVars, changed, histories>>

RunSteps(p, k) ==
  \/ RunStarts(p, k) \/ TakeLock(p, k)
  \/ RunPublishes(p, k) \/ RunFails(p, k) \/ RunFinishes(p, k)

-----------------------------------------------------------------------------
(* People, and processes that die. *)

StartByHand(k) ==
  /\ Happens
  /\ hand[k] = "none" /\ tickets[k].state \in Reopenable
  /\ hand' = [hand EXCEPT ![k] = "spawned"]
  /\ UNCHANGED <<plan, ahead, tickets, pulls, level, base, child, queueVars, changed, histories>>

(* A process is killed, or its command is refused, before it has moved the *)
(* ticket or after, and it puts nothing back.                              *)
Dies(p, k) ==
  /\ Happens
  /\ StageOf(p, k) \in {"spawned", "started", "locked", "published", "failed"}
  /\ To(p, k, "exited")
  /\ UNCHANGED <<plan, ahead, tickets, pulls, level, base, queueVars, changed, histories>>

(* `perbo edit` of an approved ticket's approach: stamped, and still ready. *)
EditApproach(k) ==
  /\ Happens
  /\ tickets[k].state \in {"ready", "blocked"}
  /\ Move(k, tickets[k].state)
  /\ UNCHANGED <<plan, ahead, pulls, level, base, child, hand, queueVars, histories>>

PersonEnds(k) ==
  /\ Happens
  /\ pulls[k] = "open"
  /\ \/ pulls' = [pulls EXCEPT ![k] = "merged"] /\ base' = [base EXCEPT !.ahead = TRUE]
     \/ pulls' = [pulls EXCEPT ![k] = "closed"] /\ UNCHANGED base
  /\ UNCHANGED <<plan, ahead, tickets, level, child, hand, queueVars, changed, histories>>

BasePushed ==
  /\ Happens
  /\ base' = [base EXCEPT !.ahead = TRUE]
  /\ UNCHANGED <<plan, ahead, tickets, pulls, level, child, hand, queueVars, changed, histories>>

-----------------------------------------------------------------------------
Init ==
  /\ plan \in PlansWritten /\ ahead = Ahead(plan.depends)
  /\ tickets = [k \in Keys |-> [state |-> "ready", waits |-> {}, failed |-> 0]]
  /\ snap = [k \in Keys |-> Unread]
  /\ pulls = [k \in Keys |-> "none"]
  /\ level = [k \in Keys |-> 0]
  /\ base = [tip |-> 1, ahead |-> FALSE]
  /\ child = [k \in Keys |-> NoChild]
  /\ hand = [k \in Keys |-> "none"]
  /\ queue = [at |-> "sleeping", todo |-> {}, live |-> {}, opened |-> {}, merging |-> FALSE,
              ready |-> {}, stopping |-> FALSE]
  /\ changed = [stamped |-> {}, written |-> {}]
  /\ paused = FALSE /\ events = 0
  /\ tried = [k \in Keys |-> {}] /\ erased = tried

QueueSteps ==
  \/ Tick
  \/ \E k \in Keys : SyncReads(k) \/ Sync(k) \/ SyncMerges(k)
  \/ ReadStore \/ Decide
  \/ \E k \in Keys : LevelLooks(k) \/ LeaveLevel(k) \/ Relevel(k)
  \/ LevelEnds \/ Start
  \/ Drain \/ Stop

ProcessSteps(k) ==
  \/ \E p \in Processes : RunSteps(p, k)
  \/ RelevelStarts(k) \/ RelevelEnds(k)

Next ==
  \/ QueueSteps \/ Signal \/ Pause \/ BasePushed
  \/ \E k \in Keys :
       \/ ChildExits(k) \/ ProcessSteps(k)
       \/ StartByHand(k) \/ EditApproach(k) \/ PersonEnds(k)
       \/ \E p \in Processes : Dies(p, k)

Spec == Init /\ [][Next]_vars

Fairness ==
  /\ WF_vars(QueueSteps)
  /\ \A k \in Keys : WF_vars(ChildExits(k)) /\ WF_vars(ProcessSteps(k))

FairSpec == Spec /\ Fairness

-----------------------------------------------------------------------------
(* Properties. *)

(* The ceiling holds through every tick: however runs by hand come and go  *)
(* between the three readings of the locks, the queue never has more       *)
(* children than `concurrent_local_attempts`.                              *)
ChildrenWithinCapacity == Cardinality(ChildKeys) <= Capacity

(* A decision made over awaits is written only over the record it was made *)
(* on: a ticket a run, an edit or a settled re-level wrote in between      *)
(* keeps what they wrote.                                                  *)
DecisionsOverWhatTheyRead ==
  [][\A k \in Keys : Decide /\ k \in changed.written => tickets'[k] = tickets[k]]_vars

(* A re-level that did not level its branch has answered for that tip: the *)
(* queue starts no other at it, though the record of it is written by a    *)
(* promise that settles in the middle of another tick.  The one exception  *)
(* is a tip whose record a sync, waiting for `gh` as the promise settled,  *)
(* wrote over with the ticket as it was before.                            *)
RelevelledOnceATip ==
  [][\A k \in Keys :
       (child[k] = NoChild /\ child'[k].kind = "relevel") => child'[k].tip \notin tried[k] \ erased[k]]_vars

(* What stands in a ticket's way now: a dependency that is not merged, or  *)
(* a ticket ahead that holds its place over the same scope, both by its    *)
(* globs and, if it has sealed, by the paths it changed.                   *)
Overlapping(k) ==
  {h \in ahead[k] :
     /\ tickets[h].state \in QUEUE_HOLDING_STATES
     /\ <<k, h>> \in plan.globs
     /\ tickets[h].state = "pr_open" => k \in plan.paths[h]}

(* The queue starts a ticket with nothing in its way, but for what was     *)
(* written after the tick read the store: two tickets over the same scope  *)
(* are not started beside each other, none before what it depends on, and  *)
(* none a run started by hand is inside.                                   *)
StartsAreClear ==
  [][\A k \in Keys :
       (child[k] = NoChild /\ child'[k] # NoChild /\ child'[k].kind = "run" /\ k \notin changed.written)
         => /\ DependencyWaits(plan, State, k) \union Overlapping(k) \subseteq changed.written
            /\ hand[k] \in {"none", "spawned"}]_vars

Waiting(k) == tickets[k].state \in {"ready", "blocked"}

(* What a ticket may be waiting on: the dependencies, and the tickets the  *)
(* order puts ahead over the same scope, by globs or by paths.             *)
WaitsOn(k) ==
  DependencyWaits(plan, State, k)
    \union {h \in ahead[k] :
              tickets[h].state \in QUEUE_HOLDING_STATES /\ (<<k, h>> \in plan.globs \/ k \in plan.paths[h])}

(* A relation followed for as many steps as there are tickets. *)
Reach(Edges(_), from) ==
  LET after[n \in 0..Cardinality(Keys)] ==
        IF n = 0 THEN from ELSE after[n - 1] \union UNION {Edges(k) : k \in after[n - 1] \intersect Keys}
  IN  after[Cardinality(Keys)]

(* Somebody owes the next move: a key nobody admitted, a dependency that   *)
(* came to nothing, a pull request, a run that died and left no word, or   *)
(* dependencies a person wrote in a ring.                                  *)
PeopleOwe(k) ==
  LET depends(j) == plan.depends[j]
  IN  \E w \in Reach(WaitsOn, {k}) :
        \/ w = Unknown
        \/ tickets[w].state \in {"settled", "pr_open"}
        \/ tickets[w].state = "provisioning" /\ child[w] = NoChild /\ hand[w] = "none"
        \/ w \in Reach(depends, plan.depends[w])

(* A sync is about to write over the record of a re-level that failed. *)
AboutToErase ==
  \E k \in Keys : SyncNext(k) /\ tickets[k].failed \notin {0, snap[k].failed}

(* Nobody waits for nothing: while the queue runs, a ticket goes on unless *)
(* its waits lead to a move that is somebody's.  No ring of waits through  *)
(* scope holds tickets, and no stale wait outlives what it waited on.  One *)
(* thing else may hold it, for as long as it goes on: a branch whose every *)
(* failed re-level a sync erases is re-levelled before anything new starts.*)
NobodyWaitsForNothing ==
  \A k \in Keys :
    Waiting(k) ~> (~Waiting(k) \/ PeopleOwe(k) \/ paused \/ queue.stopping \/ AboutToErase)
=============================================================================
