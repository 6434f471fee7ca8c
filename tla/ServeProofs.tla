---------------------------- MODULE ServeProofs -----------------------------
(***************************************************************************)
(* What Serve keeps for every store, order of tickets and capacity.        *)
(***************************************************************************)
EXTENDS Serve, FiniteSetTheorems, TLAPS

LEMMA RecordsHold ==
  ASSUME TypeOK, NEW k \in Keys
  PROVE  /\ \A x \in States : [tickets EXCEPT ![k].state = x] \in [Keys -> Tickets]
         /\ \A x \in Nat : [tickets EXCEPT ![k].failed = x] \in [Keys -> Tickets]
         /\ \A x \in Stages : [child EXCEPT ![k].stage = x] \in [Keys -> Children]
         /\ \A x \in Children : [child EXCEPT ![k] = x] \in [Keys -> Children]
         /\ tickets[k] \in Tickets /\ child[k] \in Children
         /\ NoChild \in Children
         /\ Stamp(k) \in [stamped: SUBSET Keys, written: SUBSET Keys]
         /\ WriteOnly(k) \in [stamped: SUBSET Keys, written: SUBSET Keys]
<1>1. tickets[k] \in Tickets /\ child[k] \in Children
  BY DEF TypeOK
<1>2. ASSUME NEW x \in States
      PROVE  [tickets[k] EXCEPT !.state = x] \in Tickets
  BY <1>1 DEF Tickets
<1>3. ASSUME NEW x \in Nat
      PROVE  [tickets[k] EXCEPT !.failed = x] \in Tickets
  BY <1>1 DEF Tickets
<1>4. ASSUME NEW x \in Stages
      PROVE  [child[k] EXCEPT !.stage = x] \in Children
  BY <1>1 DEF Children
<1>5. NoChild \in Children
  BY DEF NoChild, Children, Stages
<1>6. WriteOnly(k) \in [stamped: SUBSET Keys, written: SUBSET Keys]
  BY DEF WriteOnly, TypeOK
<1>7. Stamp(k) \in [stamped: SUBSET Keys, written: SUBSET Keys]
  BY <1>6 DEF Stamp
<1> QED
  BY <1>1, <1>2, <1>3, <1>4, <1>5, <1>6, <1>7 DEF TypeOK

(* A process goes on to one of its stages. *)
LEMMA StagesHold ==
  ASSUME TypeOK, NEW p \in Processes, NEW k \in Keys, NEW x \in Stages, To(p, k, x)
  PROVE  child' \in [Keys -> Children] /\ hand' \in [Keys -> Stages]
<1>1. "none" \in Stages
  BY DEF Stages
<1>2. CASE p = "child"
  <2>1. child' = [child EXCEPT ![k].stage = x] /\ hand' = hand
    BY <1>2 DEF To
  <2> QED
    BY <2>1, RecordsHold DEF TypeOK
<1>3. CASE p # "child"
  BY <1>1, <1>3 DEF To, TypeOK
<1> QED
  BY <1>2, <1>3

LEMMA QueueHolds ==
  ASSUME TypeOK
  PROVE  /\ LiveRuns \subseteq Keys /\ ChildKeys \subseteq Keys
         /\ queue.live \subseteq Keys /\ queue.todo \subseteq Keys /\ queue.opened \subseteq Keys
         /\ queue.ready \subseteq Keys /\ queue.merging \in BOOLEAN /\ queue.stopping \in BOOLEAN
         /\ queue \in Queues
  BY DEF TypeOK, Queues, LiveRuns, ChildKeys

LEMMA HappensOrNot ==
  ASSUME TypeOK, UNCHANGED events \/ Happens
  PROVE  events' \in 0..MaxEvents
  BY ServeAssumption DEF TypeOK, Happens

LEMMA TypeInit == Init => TypeOK
<1> SUFFICES ASSUME Init
             PROVE  TypeOK
  OBVIOUS
<1>1. plan \in Plans /\ ahead \in [Keys -> SUBSET Keys]
  BY ServeAssumption DEF Init, Ahead
<1>2. tickets \in [Keys -> Tickets] /\ snap \in [Keys -> Tickets]
  BY DEF Init, Unread, Tickets, States
<1>3. child \in [Keys -> Children] /\ hand \in [Keys -> Stages]
  BY DEF Init, NoChild, Children, Stages
<1>4. queue \in Queues
  BY DEF Init, Queues
<1>5. /\ pulls \in [Keys -> {"none", "open", "merged", "closed"}] /\ level \in [Keys -> Nat]
      /\ base \in [tip: Nat, ahead: BOOLEAN] /\ tried \in [Keys -> SUBSET Nat] /\ erased \in [Keys -> SUBSET Nat]
  BY DEF Init
<1>6. changed \in [stamped: SUBSET Keys, written: SUBSET Keys]
  BY DEF Init
<1>7. paused = FALSE /\ events = 0
  BY DEF Init
<1>8. 0 \in 0..MaxEvents
  BY ServeAssumption
<1> QED
  BY <1>1, <1>2, <1>3, <1>4, <1>5, <1>6, <1>7, <1>8 DEF TypeOK

(* Every wait is on a ticket of the store or a key it does not hold. *)
LEMMA DecidedIsATicket ==
  ASSUME TypeOK, NEW sealed, NEW k \in Keys
  PROVE  Decided(sealed, k) \in Tickets
<1> DEFINE state == [j \in Keys |-> snap[j].state]
           waits == WaitsFor(plan, ahead, state, sealed, k)
<1>1. DependencyWaits(plan, state, k) \subseteq Keys \union {Unknown}
  BY DEF DependencyWaits, TypeOK, Plans
<1>2. ScopeWaits(plan, ahead, state, sealed, k) \subseteq Keys
  BY DEF ScopeWaits, TypeOK
<1>3. waits \subseteq Keys \union {Unknown}
  BY <1>1, <1>2 DEF WaitsFor
<1>4. Decided(sealed, k) = [snap[k] EXCEPT !.state = IF waits = {} THEN "ready" ELSE "blocked", !.waits = waits]
  BY DEF Decided
<1> HIDE DEF waits
<1>5. snap[k] \in Tickets
  BY DEF TypeOK
<1> QED
  BY <1>3, <1>4, <1>5 DEF Tickets, States

(* A record written back is the one that was read, and what it erases a tip. *)
LEMMA WritesBackHolds ==
  ASSUME TypeOK, NEW k \in Keys, NEW x \in States, WritesBack(k, x)
  PROVE  tickets' \in [Keys -> Tickets] /\ erased' \in [Keys -> SUBSET Nat]
<1>1. snap[k] \in Tickets /\ tickets[k] \in Tickets /\ tickets[k].failed \in Nat
  BY DEF TypeOK, Tickets
<1>2. [snap[k] EXCEPT !.state = x] \in Tickets
  BY <1>1 DEF Tickets
<1>3. tickets' \in [Keys -> Tickets]
  BY <1>2 DEF WritesBack, TypeOK
<1>4. erased' = erased \/ erased' = [erased EXCEPT ![k] = @ \union {tickets[k].failed}]
  BY DEF WritesBack
<1> QED
  BY <1>1, <1>3, <1>4 DEF TypeOK

LEMMA TypeQueue == TypeOK /\ QueueSteps => TypeOK'
<1> SUFFICES ASSUME TypeOK, QueueSteps
             PROVE  TypeOK'
  OBVIOUS
<1>q. /\ LiveRuns \subseteq Keys /\ ChildKeys \subseteq Keys
      /\ queue.live \subseteq Keys /\ queue.todo \subseteq Keys /\ queue.opened \subseteq Keys
      /\ queue.ready \subseteq Keys /\ queue.merging \in BOOLEAN /\ queue.stopping \in BOOLEAN
      /\ queue \in Queues
  BY QueueHolds
<1> USE ServeAssumption
<1>1. CASE Tick
  <2>1. base' \in [tip: Nat, ahead: BOOLEAN] /\ events' \in 0..MaxEvents
    <3>1. base.tip + 1 \in Nat /\ base \in [tip: Nat, ahead: BOOLEAN]
      BY DEF TypeOK
    <3>2. base' = [tip |-> base.tip + 1, ahead |-> FALSE] \/ base' = base
      BY <1>1 DEF Tick
    <3>3. UNCHANGED events \/ Happens
      BY <1>1 DEF Tick
    <3>4. events' \in 0..MaxEvents
      BY <3>3, HappensOrNot
    <3>5. [tip |-> base.tip + 1, ahead |-> FALSE] \in [tip: Nat, ahead: BOOLEAN]
      BY <3>1
    <3>6. base' \in [tip: Nat, ahead: BOOLEAN]
      BY <3>1, <3>2, <3>5, Zenon
    <3> QED
      BY <3>4, <3>6
  <2>2. queue' \in Queues
    BY <1>1, <1>q DEF Tick, Queues
  <2> QED
    BY <1>1, <2>1, <2>2 DEF Tick, histories, TypeOK
<1>0. ASSUME NEW k \in Keys, SyncReads(k)
      PROVE  TypeOK'
  <2>1. queue' \in Queues
    BY <1>0, <1>q DEF SyncReads, Queues
  <2>2. snap' \in [Keys -> Tickets]
    BY <1>0 DEF SyncReads, TypeOK
  <2> QED
    BY <1>0, <2>1, <2>2 DEF SyncReads, worldVars, histories, TypeOK
<1>2. ASSUME NEW k \in Keys, Sync(k)
      PROVE  TypeOK'
  <2>1. Synced(snap[k].state, pulls[k]) \subseteq States /\ snap[k].state \in States
    BY <1>2 DEF Synced, States, Tickets, TypeOK
  <2>2. tickets' \in [Keys -> Tickets] /\ erased' \in [Keys -> SUBSET Nat]
    BY <1>2, <2>1, WritesBackHolds DEF Sync, TypeOK
  <2>3. queue' \in Queues /\ events' \in 0..MaxEvents
    BY <1>2, <1>q, HappensOrNot DEF Sync, Queues
  <2>4. snap' \in [Keys -> Tickets]
    BY <1>2 DEF Sync, Unread, Tickets, States, TypeOK
  <2> QED
    BY <1>2, <2>2, <2>3, <2>4 DEF Sync, TypeOK
<1>3. ASSUME NEW k \in Keys, SyncMerges(k)
      PROVE  TypeOK'
  <2>1. "merged" \in States /\ "pr_open" \in States
    BY DEF States
  <2>2. tickets' \in [Keys -> Tickets] /\ erased' \in [Keys -> SUBSET Nat]
    BY <1>3, <2>1, WritesBackHolds DEF SyncMerges, TypeOK
  <2>3. queue' \in Queues /\ events' \in 0..MaxEvents
    BY <1>3, <1>q, HappensOrNot DEF SyncMerges, Queues
  <2>4. base' \in [tip: Nat, ahead: BOOLEAN] /\ pulls' \in [Keys -> {"none", "open", "merged", "closed"}]
    BY <1>3 DEF SyncMerges, TypeOK
  <2>5. snap' \in [Keys -> Tickets]
    BY <1>3 DEF SyncMerges, Unread, Tickets, States, TypeOK
  <2> QED
    BY <1>3, <2>2, <2>3, <2>4, <2>5 DEF SyncMerges, TypeOK
<1>4. CASE ReadStore
  <2>1. queue' \in Queues
    BY <1>4, <1>q DEF ReadStore, LookAgain, Queues
  <2> QED
    BY <1>4, <2>1 DEF ReadStore, worldVars, histories, TypeOK
<1>5. CASE Decide
  <2>1. PICK sealed \in SUBSET SnapOpen :
          DecideOn(sealed) /\ IF sealed = SnapOpen THEN UNCHANGED events ELSE Happens
    BY <1>5 DEF Decide
  <2>2. \A k \in Keys : Decided(sealed, k) \in Tickets
    BY DecidedIsATicket
  <2>3. tickets' \in [Keys -> Tickets]
    BY <2>1, <2>2 DEF DecideOn, TypeOK
  <2>4. snap' \in [Keys -> Tickets]
    BY <2>1, <2>3 DEF DecideOn, TypeOK
  <2>5. queue' \in Queues
    <3>1. queue'.ready \subseteq Keys /\ LookAgain \subseteq Keys /\ SnapOpen \subseteq Keys
      BY <2>1, <1>q DEF DecideOn, LookAgain, SnapOpen, Considered, Queues
    <3>2. /\ queue'.at = "levelling" /\ queue'.live = LookAgain /\ queue'.todo = SnapOpen \ LookAgain
          /\ queue' = [queue EXCEPT !.at = "levelling", !.live = LookAgain, !.todo = SnapOpen \ LookAgain,
                                    !.ready = queue'.ready]
      BY <2>1, <1>q DEF DecideOn, Queues
    <3> QED
      BY <3>1, <3>2, <1>q DEF Queues
  <2>6. events' \in 0..MaxEvents
    BY <2>1, HappensOrNot
  <2>7. changed' \in [stamped: SUBSET Keys, written: SUBSET Keys]
    BY <1>5 DEF Decide, TypeOK
  <2> QED
    BY <1>5, <2>3, <2>4, <2>5, <2>6, <2>7 DEF Decide, histories, TypeOK
<1>6. ASSUME NEW k \in Keys, LeaveLevel(k)
      PROVE  TypeOK'
  <2>1. tickets' \in [Keys -> Tickets] /\ changed' \in [stamped: SUBSET Keys, written: SUBSET Keys]
    <3>1. \/ tickets' = [tickets EXCEPT ![k].failed = 0] /\ changed' = WriteOnly(k)
          \/ UNCHANGED <<tickets, changed>>
      BY <1>6 DEF LeaveLevel
    <3>2. CASE tickets' = [tickets EXCEPT ![k].failed = 0] /\ changed' = WriteOnly(k)
      BY <3>2, RecordsHold
    <3> QED
      BY <3>1, <3>2 DEF TypeOK
  <2>2. queue' \in Queues /\ events' \in 0..MaxEvents
    BY <1>6, <1>q, HappensOrNot DEF LeaveLevel, Queues
  <2> QED
    BY <1>6, <2>1, <2>2 DEF LeaveLevel, histories, TypeOK
<1>l. ASSUME NEW k \in Keys, LevelLooks(k)
      PROVE  TypeOK'
  <2>1. queue' \in Queues
    BY <1>l, <1>q DEF LevelLooks, Queues
  <2> QED
    BY <1>l, <2>1 DEF LevelLooks, worldVars, histories, TypeOK
<1>7. ASSUME NEW k \in Keys, Relevel(k)
      PROVE  TypeOK'
  <2>1. [stage |-> "spawned", kind |-> "relevel", tip |-> base.tip] \in Children
    BY DEF Children, Stages, TypeOK
  <2>2. child' \in [Keys -> Children]
    BY <1>7, <2>1, RecordsHold DEF Relevel
  <2>3. queue' \in Queues
    BY <1>7, <1>q DEF Relevel, Queues
  <2> QED
    BY <1>7, <2>2, <2>3 DEF Relevel, worldVars, histories, TypeOK
<1>8. CASE LevelEnds
  <2>1. queue' \in Queues
    BY <1>8, <1>q DEF LevelEnds, Queues
  <2> QED
    BY <1>8, <2>1 DEF LevelEnds, worldVars, histories, TypeOK
<1>9. CASE Start
  <2>1. [stage |-> "spawned", kind |-> "run", tip |-> 0] \in Children
    BY DEF Children, Stages
  <2>2. child' \in [Keys -> Children]
    BY <1>9, <2>1, RecordsHold DEF Start
  <2>3. queue' \in Queues
    BY <1>9, <1>q DEF Start, Asleep, Queues
  <2>4. snap' \in [Keys -> Tickets]
    BY <1>9 DEF Start, Unread, Tickets, States
  <2> QED
    BY <1>9, <2>2, <2>3, <2>4 DEF Start, worldVars, histories, TypeOK
<1>10. CASE Drain \/ Stop
  <2>1. queue' \in Queues
    BY <1>10, <1>q DEF Drain, Stop, Queues
  <2> QED
    BY <1>10, <2>1 DEF Drain, Stop, worldVars, histories, TypeOK
<1> QED
  BY <1>0, <1>1, <1>2, <1>3, <1>4, <1>5, <1>6, <1>l, <1>7, <1>8, <1>9, <1>10 DEF QueueSteps

LEMMA TypeRun ==
  ASSUME TypeOK, NEW p \in Processes, NEW k \in Keys, RunSteps(p, k)
  PROVE  TypeOK'
<1>s. {"none", "started", "exited", "locked", "published", "failed"} \subseteq Stages
  BY DEF Stages
<1>t. {"provisioning", "pr_open", "settled"} \subseteq States
  BY DEF States
<1>1. CASE RunStarts(p, k)
  <2>1. \/ To(p, k, "started") /\ Move(k, "provisioning")
        \/ To(p, k, "exited") /\ UNCHANGED <<tickets, changed>>
    BY <1>1 DEF RunStarts
  <2>2. child' \in [Keys -> Children] /\ hand' \in [Keys -> Stages]
    BY <2>1, <1>s, StagesHold
  <2>3. CASE Move(k, "provisioning")
    BY <1>1, <1>t, <2>2, <2>3, RecordsHold DEF Move, RunStarts, worldVars, queueVars, histories, TypeOK
  <2>4. CASE UNCHANGED <<tickets, changed>>
    BY <1>1, <2>2, <2>4 DEF RunStarts, worldVars, queueVars, histories, TypeOK
  <2> QED
    BY <2>1, <2>3, <2>4
<1>2. CASE TakeLock(p, k)
  <2>1. To(p, k, "exited") \/ To(p, k, "locked")
    BY <1>2 DEF TakeLock
  <2>2. child' \in [Keys -> Children] /\ hand' \in [Keys -> Stages]
    BY <2>1, <1>s, StagesHold
  <2> QED
    BY <1>2, <2>2 DEF TakeLock, worldVars, queueVars, histories, TypeOK
<1>3. CASE RunPublishes(p, k)
  <2>1. child' \in [Keys -> Children] /\ hand' \in [Keys -> Stages]
    BY <1>3, <1>s, StagesHold DEF RunPublishes
  <2>2. pulls' \in [Keys -> {"none", "open", "merged", "closed"}] /\ level' \in [Keys -> Nat]
    BY <1>3 DEF RunPublishes, TypeOK
  <2> QED
    BY <1>3, <2>1, <2>2 DEF RunPublishes, queueVars, histories, TypeOK
<1>4. CASE RunFails(p, k)
  <2>1. child' \in [Keys -> Children] /\ hand' \in [Keys -> Stages]
    BY <1>4, <1>s, StagesHold DEF RunFails
  <2> QED
    BY <1>4, <2>1 DEF RunFails, worldVars, queueVars, histories, TypeOK
<1>5. CASE RunFinishes(p, k)
  <2>1. child' \in [Keys -> Children] /\ hand' \in [Keys -> Stages]
    BY <1>5, <1>s, StagesHold DEF RunFinishes
  <2>2. Move(k, "pr_open") \/ Move(k, "settled") \/ UNCHANGED <<tickets, changed>>
    BY <1>5 DEF RunFinishes
  <2>3. ASSUME NEW x \in States, Move(k, x)
        PROVE  tickets' \in [Keys -> Tickets] /\ changed' \in [stamped: SUBSET Keys, written: SUBSET Keys]
    BY <2>3, RecordsHold DEF Move
  <2>4. tickets' \in [Keys -> Tickets] /\ changed' \in [stamped: SUBSET Keys, written: SUBSET Keys]
    BY <1>t, <2>2, <2>3 DEF TypeOK
  <2> QED
    BY <1>5, <2>1, <2>4 DEF RunFinishes, worldVars, queueVars, histories, TypeOK
<1> QED
  BY <1>1, <1>2, <1>3, <1>4, <1>5 DEF RunSteps

LEMMA TypeStep == TypeOK /\ [Next]_vars => TypeOK'
<1> SUFFICES ASSUME TypeOK, [Next]_vars
             PROVE  TypeOK'
  OBVIOUS
<1>s. {"none", "spawned", "started", "exited", "locked", "levelled_exited"} \subseteq Stages /\ "child" \in Processes
  BY DEF Stages, Processes
<1>1. CASE QueueSteps
  BY <1>1, TypeQueue
<1>2. CASE Signal
  <2>1. queue' \in Queues
    BY <1>2, QueueHolds DEF Signal, Queues
  <2>2. events' \in 0..MaxEvents
    BY <1>2, HappensOrNot DEF Signal
  <2> QED
    BY <1>2, <2>1, <2>2 DEF Signal, histories, TypeOK
<1>3. CASE Pause
  <2>1. events' \in 0..MaxEvents
    BY <1>3, HappensOrNot DEF Pause
  <2> QED
    BY <1>3, <2>1 DEF Pause, histories, TypeOK
<1>4. CASE BasePushed
  <2>1. events' \in 0..MaxEvents
    BY <1>4, HappensOrNot DEF BasePushed
  <2>2. base' \in [tip: Nat, ahead: BOOLEAN]
    BY <1>4 DEF BasePushed, TypeOK
  <2>3. UNCHANGED <<plan, ahead, tickets, pulls, level, child, hand, queue, snap, paused, changed, tried, erased>>
    BY <1>4 DEF BasePushed, queueVars, histories
  <2> QED
    BY <2>1, <2>2, <2>3 DEF TypeOK
<1>5. ASSUME NEW k \in Keys, ChildExits(k)
      PROVE  TypeOK'
  <2>1. child' \in [Keys -> Children]
    BY <1>5, RecordsHold DEF ChildExits
  <2>2. child[k].tip \in Nat
    BY RecordsHold DEF Children
  <2> DEFINE failed == IF child[k].stage = "exited" THEN child[k].tip ELSE 0
  <2>3. failed \in Nat
    BY <2>2
  <2>4. \/ tickets' = [tickets EXCEPT ![k].failed = failed] /\ changed' = WriteOnly(k)
        \/ UNCHANGED <<tickets, changed>>
    BY <1>5 DEF ChildExits
  <2> HIDE DEF failed
  <2>5. ASSUME tickets' = [tickets EXCEPT ![k].failed = failed], changed' = WriteOnly(k)
        PROVE  tickets' \in [Keys -> Tickets] /\ changed' \in [stamped: SUBSET Keys, written: SUBSET Keys]
    BY <2>3, <2>5, RecordsHold
  <2>6. tickets' \in [Keys -> Tickets] /\ changed' \in [stamped: SUBSET Keys, written: SUBSET Keys]
    BY <2>4, <2>5 DEF TypeOK
  <2>7. tried' \in [Keys -> SUBSET Nat] /\ erased' \in [Keys -> SUBSET Nat]
    <3>1. \/ tried' = tried /\ erased' = erased
          \/ /\ tried' = [tried EXCEPT ![k] = @ \union {child[k].tip}]
             /\ erased' = [erased EXCEPT ![k] = @ \ {child[k].tip}]
      BY <1>5 DEF ChildExits, histories
    <3> QED
      BY <2>2, <3>1 DEF TypeOK
  <2> QED
    BY <1>5, <2>1, <2>6, <2>7 DEF ChildExits, worldVars, queueVars, TypeOK
<1>6. ASSUME NEW k \in Keys, ProcessSteps(k)
      PROVE  TypeOK'
  <2>1. CASE RelevelStarts(k)
    <3>1. To("child", k, "started") \/ To("child", k, "exited")
      BY <2>1 DEF RelevelStarts
    <3>2. child' \in [Keys -> Children] /\ hand' \in [Keys -> Stages]
      BY <1>s, <3>1, StagesHold
    <3> QED
      BY <2>1, <3>2 DEF RelevelStarts, worldVars, queueVars, histories, TypeOK
  <2>2. CASE RelevelEnds(k)
    <3>1. To("child", k, "levelled_exited") \/ To("child", k, "exited")
      BY <2>2 DEF RelevelEnds
    <3>2. child' \in [Keys -> Children] /\ hand' \in [Keys -> Stages]
      BY <1>s, <3>1, StagesHold
    <3>3. level' \in [Keys -> Nat]
      BY <2>2 DEF RelevelEnds, TypeOK
    <3> QED
      BY <2>2, <3>2, <3>3 DEF RelevelEnds, queueVars, histories, TypeOK
  <2> QED
    BY <1>6, <2>1, <2>2, TypeRun DEF ProcessSteps
<1>7. ASSUME NEW k \in Keys, StartByHand(k)
      PROVE  TypeOK'
  <2>1. events' \in 0..MaxEvents
    BY <1>7, HappensOrNot DEF StartByHand
  <2> QED
    BY <1>7, <1>s, <2>1 DEF StartByHand, queueVars, histories, TypeOK
<1>8. ASSUME NEW k \in Keys, NEW p \in Processes, Dies(p, k)
      PROVE  TypeOK'
  <2>1. events' \in 0..MaxEvents
    BY <1>8, HappensOrNot DEF Dies
  <2>2. child' \in [Keys -> Children] /\ hand' \in [Keys -> Stages]
    BY <1>8, <1>s, StagesHold DEF Dies
  <2> QED
    BY <1>8, <2>1, <2>2 DEF Dies, queueVars, histories, TypeOK
<1>9. ASSUME NEW k \in Keys, EditApproach(k)
      PROVE  TypeOK'
  <2>1. events' \in 0..MaxEvents
    BY <1>9, HappensOrNot DEF EditApproach
  <2>2. tickets[k].state \in States
    BY RecordsHold DEF Tickets
  <2>3. tickets' \in [Keys -> Tickets] /\ changed' \in [stamped: SUBSET Keys, written: SUBSET Keys]
    BY <1>9, <2>2, RecordsHold DEF EditApproach, Move
  <2> QED
    BY <1>9, <2>1, <2>3 DEF EditApproach, queueVars, histories, TypeOK
<1>10. ASSUME NEW k \in Keys, PersonEnds(k)
       PROVE  TypeOK'
  <2>1. events' \in 0..MaxEvents
    BY <1>10, HappensOrNot DEF PersonEnds
  <2>2. base' \in [tip: Nat, ahead: BOOLEAN] /\ pulls' \in [Keys -> {"none", "open", "merged", "closed"}]
    BY <1>10 DEF PersonEnds, TypeOK
  <2> QED
    BY <1>10, <2>1, <2>2 DEF PersonEnds, queueVars, histories, TypeOK
<1>11. CASE UNCHANGED vars
  BY <1>11 DEF vars, TypeOK
<1> QED
  BY <1>1, <1>2, <1>3, <1>4, <1>5, <1>6, <1>7, <1>8, <1>9, <1>10, <1>11 DEF Next

-----------------------------------------------------------------------------
(* The ceiling. *)

InTick == queue.at \in {"syncing", "asking", "merging", "sealing", "levelling", "looking"}

(* A tick knows of every child there is, whatever it read of the locks. *)
ChildrenAreKnown == InTick => ChildKeys \subseteq queue.live

OrderOfThePlan == plan \in PlansWritten /\ ahead = Ahead(plan.depends)

LEMMA LiveIsFinite ==
  ASSUME TypeOK
  PROVE  /\ IsFiniteSet(queue.live) /\ Cardinality(queue.live) \in Nat
         /\ IsFiniteSet(ChildKeys) /\ Cardinality(ChildKeys) \in Nat
BY QueueHolds, SchedulingAssumption, FS_Subset, FS_CardinalityType

(* The first of the ready, counted from the room there is, fit in it: the  *)
(* last of those started has the others ahead of it.                       *)
LEMMA StartedFit ==
  ASSUME TypeOK, OrderOfThePlan, Cardinality(queue.live) <= Capacity, NEW ready \in SUBSET Keys
  PROVE  /\ Started(ready) \subseteq ready /\ IsFiniteSet(Started(ready))
         /\ Cardinality(queue.live) + Cardinality(Started(ready)) <= Capacity
<1>1. Started(ready) \subseteq ready /\ IsFiniteSet(Started(ready)) /\ IsFiniteSet(ready)
  BY SchedulingAssumption, FS_Subset DEF Started
<1>2. Cardinality(Started(ready)) \in Nat /\ Cardinality(queue.live) \in Nat /\ Capacity \in Nat
  BY <1>1, LiveIsFinite, FS_CardinalityType, ServeAssumption
<1>3. CASE Started(ready) = {}
  BY <1>1, <1>2, <1>3, FS_EmptySet
<1>4. CASE Started(ready) # {}
  <2>1. PICK k \in Started(ready) : Started(ready) \ {k} \subseteq ahead[k]
    BY <1>1, <1>4, OrderAssumption DEF OrderOfThePlan
  <2>2. Cardinality(queue.live) + 1 + Cardinality(ahead[k] \intersect ready) <= Capacity
    BY <2>1 DEF Started
  <2>3. Started(ready) \ {k} \subseteq ahead[k] \intersect ready /\ IsFiniteSet(ahead[k] \intersect ready)
    BY <1>1, <2>1, FS_Subset
  <2>4. Cardinality(Started(ready) \ {k}) <= Cardinality(ahead[k] \intersect ready)
    BY <2>3, FS_Subset
  <2>5. Cardinality(Started(ready) \ {k}) = Cardinality(Started(ready)) - 1
    BY <1>1, <2>1, FS_RemoveElement
  <2>6. Cardinality(ahead[k] \intersect ready) \in Nat
    BY <2>3, FS_CardinalityType
  <2> QED
    BY <1>1, <1>2, <2>2, <2>4, <2>5, <2>6
<1> QED
  BY <1>3, <1>4

(* A step of the rest of the store makes no child and takes none from what *)
(* a tick knows. *)
LEMMA OthersMakeNoChild ==
  ASSUME TypeOK, [Next]_vars, ~QueueSteps
  PROVE  /\ ChildKeys' \subseteq ChildKeys
         /\ queue'.at = queue.at /\ queue'.live = queue.live
         /\ UNCHANGED <<plan, ahead>>
<1>c. child \in [Keys -> Children] /\ queue \in Queues
  BY DEF TypeOK
<1>to. ASSUME NEW p \in Processes, NEW k \in Keys, NEW x, StageOf(p, k) # "none", To(p, k, x)
       PROVE  ChildKeys' \subseteq ChildKeys
  BY <1>c, <1>to DEF To, StageOf, ChildKeys
<1>1. ASSUME NEW p \in Processes, NEW k \in Keys, RunSteps(p, k)
      PROVE  ChildKeys' \subseteq ChildKeys /\ UNCHANGED <<queue, plan, ahead>>
  <2>1. PICK x : To(p, k, x) /\ StageOf(p, k) # "none"
    BY <1>1 DEF RunSteps, RunStarts, TakeLock, RunPublishes, RunFails, RunFinishes
  <2>2. UNCHANGED <<queue, plan, ahead>>
    BY <1>1 DEF RunSteps, RunStarts, TakeLock, RunPublishes, RunFails, RunFinishes, worldVars, queueVars
  <2> QED
    BY <2>1, <2>2, <1>to
<1>2. ASSUME NEW k \in Keys, RelevelStarts(k) \/ RelevelEnds(k)
      PROVE  ChildKeys' \subseteq ChildKeys /\ UNCHANGED <<queue, plan, ahead>>
  <2>1. PICK x : To("child", k, x) /\ StageOf("child", k) # "none"
    BY <1>2 DEF RelevelStarts, RelevelEnds, StageOf
  <2>2. UNCHANGED <<queue, plan, ahead>>
    BY <1>2 DEF RelevelStarts, RelevelEnds, worldVars, queueVars
  <2> QED
    BY <2>1, <2>2, <1>to DEF Processes
<1>3. ASSUME NEW k \in Keys, NEW p \in Processes, Dies(p, k)
      PROVE  ChildKeys' \subseteq ChildKeys /\ UNCHANGED <<queue, plan, ahead>>
  BY <1>3, <1>to DEF Dies, queueVars
<1>4. ASSUME NEW k \in Keys, ChildExits(k)
      PROVE  ChildKeys' \subseteq ChildKeys /\ UNCHANGED <<queue, plan, ahead>>
  BY <1>4, <1>c DEF ChildExits, ChildKeys, NoChild, worldVars, queueVars
<1>5. ASSUME NEW k \in Keys, StartByHand(k) \/ EditApproach(k) \/ PersonEnds(k)
      PROVE  ChildKeys' \subseteq ChildKeys /\ UNCHANGED <<queue, plan, ahead>>
  BY <1>5 DEF StartByHand, EditApproach, PersonEnds, ChildKeys, queueVars
<1>6. CASE Signal
  BY <1>6, <1>c DEF Signal, ChildKeys, Queues
<1>7. CASE Pause \/ BasePushed \/ UNCHANGED vars
  BY <1>7 DEF Pause, BasePushed, ChildKeys, queueVars, vars
<1> QED
  BY <1>1, <1>2, <1>3, <1>4, <1>5, <1>6, <1>7 DEF Next, ProcessSteps

CapacityInv == OrderOfThePlan /\ ChildrenAreKnown /\ ChildrenWithinCapacity

LEMMA CapacityInit == Init => CapacityInv
<1> SUFFICES ASSUME Init
             PROVE  CapacityInv
  OBVIOUS
<1>1. ChildKeys = {}
  BY DEF Init, ChildKeys, NoChild
<1> QED
  BY <1>1, FS_EmptySet, ServeAssumption
  DEF Init, CapacityInv, OrderOfThePlan, ChildrenAreKnown, InTick, ChildrenWithinCapacity

LEMMA CapacityStep == TypeOK /\ CapacityInv /\ [Next]_vars => CapacityInv'
<1> SUFFICES ASSUME TypeOK, CapacityInv, [Next]_vars
             PROVE  CapacityInv'
  OBVIOUS
<1> USE DEF CapacityInv
<1>q. queue \in Queues /\ child \in [Keys -> Children]
  BY DEF TypeOK
<1>fewer. ASSUME ChildKeys' \subseteq ChildKeys
          PROVE  ChildrenWithinCapacity'
  <2>1. IsFiniteSet(ChildKeys) /\ Cardinality(ChildKeys) \in Nat /\ Cardinality(ChildKeys) <= Capacity
    BY LiveIsFinite DEF ChildrenWithinCapacity
  <2>2. Cardinality(ChildKeys') <= Cardinality(ChildKeys) /\ Cardinality(ChildKeys') \in Nat
    BY <1>fewer, <2>1, FS_Subset, FS_CardinalityType
  <2> QED
    BY <2>1, <2>2, ServeAssumption DEF ChildrenWithinCapacity
<1>1. CASE ~QueueSteps
  BY <1>1, <1>fewer, OthersMakeNoChild DEF OrderOfThePlan, ChildrenAreKnown, InTick
<1>2. CASE QueueSteps
  <2>o. OrderOfThePlan'
    BY <1>2 DEF QueueSteps, Tick, SyncReads, Sync, SyncMerges, ReadStore, Decide, LevelLooks, LeaveLevel, Relevel,
                LevelEnds, Start, Drain, Stop, worldVars, OrderOfThePlan
  <2>same. ASSUME UNCHANGED child
           PROVE  ChildKeys' = ChildKeys /\ ChildrenWithinCapacity'
    BY <2>same, <1>fewer DEF ChildKeys
  <2>1. CASE Tick
    BY <2>o, <2>1, <2>same, <1>q DEF Tick, ChildrenAreKnown, InTick, Queues
  <2>2. ASSUME NEW k \in Keys, SyncReads(k) \/ Sync(k) \/ SyncMerges(k) \/ LevelLooks(k) \/ LeaveLevel(k)
        PROVE  CapacityInv'
    <3>1. InTick /\ queue'.live = queue.live /\ UNCHANGED child
      BY <2>2, <1>q DEF SyncReads, Sync, SyncMerges, LevelLooks, LeaveLevel, SyncNext, LevelNext, InTick, Queues
    <3> QED
      BY <2>o, <2>same, <3>1 DEF ChildrenAreKnown
  <2>3. CASE ReadStore \/ Decide
    <3>1. InTick /\ queue'.live = LookAgain /\ UNCHANGED child
      BY <2>3, <1>q DEF ReadStore, Decide, DecideOn, InTick, Queues
    <3> QED
      BY <2>o, <2>same, <3>1 DEF LookAgain, ChildrenAreKnown
  <2>4. ASSUME NEW k \in Keys, Relevel(k)
        PROVE  CapacityInv'
    <3>1. ChildKeys \subseteq queue.live /\ Cardinality(queue.live) + 1 <= Capacity
      BY <2>4 DEF Relevel, LevelNext, Room, ChildrenAreKnown, InTick
    <3>2. ChildKeys' \subseteq queue.live \union {k} /\ queue'.live = queue.live \union {k}
      BY <2>4, <3>1, <1>q DEF Relevel, ChildKeys, Queues
    <3>3. IsFiniteSet(queue.live \union {k}) /\ Cardinality(queue.live \union {k}) <= Cardinality(queue.live) + 1
      <4>1. IsFiniteSet(queue.live) /\ Cardinality(queue.live) \in Nat
        BY LiveIsFinite
      <4>2. /\ IsFiniteSet(queue.live \union {k})
            /\ \/ Cardinality(queue.live \union {k}) = Cardinality(queue.live)
               \/ Cardinality(queue.live \union {k}) = Cardinality(queue.live) + 1
        BY <4>1, FS_AddElement
      <4> QED
        BY <4>1, <4>2
    <3>4. /\ Cardinality(ChildKeys') <= Cardinality(queue.live \union {k})
          /\ Cardinality(ChildKeys') \in Nat /\ Cardinality(queue.live \union {k}) \in Nat
          /\ Cardinality(queue.live) \in Nat /\ Capacity \in Nat
      BY <3>2, <3>3, FS_Subset, FS_CardinalityType, LiveIsFinite, ServeAssumption
    <3>5. ChildrenWithinCapacity'
      BY <3>1, <3>3, <3>4 DEF ChildrenWithinCapacity
    <3> QED
      BY <2>o, <3>2, <3>5 DEF ChildrenAreKnown
  <2>5. CASE LevelEnds \/ Drain \/ Stop
    BY <2>o, <2>5, <2>same, <1>q DEF LevelEnds, LevelNext, Drain, Stop, ChildrenAreKnown, InTick, Queues
  <2>6. CASE Start
    <3>1. ~InTick' /\ ChildKeys \subseteq queue.live
      BY <2>6, <1>q DEF Start, Asleep, InTick, Queues, ChildrenAreKnown
    <3> DEFINE ready == queue.ready \ queue.live
    <3>2. ready \in SUBSET Keys
      BY <1>q DEF Queues
    <3>3. ChildKeys' \subseteq ChildKeys \union Started(ready)
      BY <2>6, <1>q DEF Start, ChildKeys
    <3>4. CASE ChildKeys' \subseteq ChildKeys
      BY <2>o, <3>1, <3>4, <1>fewer DEF ChildrenAreKnown
    <3>5. CASE ~(ChildKeys' \subseteq ChildKeys)
      <4> HIDE DEF ready
      <4>1. PICK k \in Started(ready) : TRUE
        BY <3>3, <3>5
      <4>2. Cardinality(queue.live) + 1 + Cardinality(ahead[k] \intersect ready) <= Capacity
        BY <4>1 DEF Started
      <4>3. IsFiniteSet(ahead[k] \intersect ready) /\ Cardinality(ahead[k] \intersect ready) \in Nat
        BY <3>2, SchedulingAssumption, FS_Subset, FS_CardinalityType
      <4>4. Cardinality(queue.live) \in Nat /\ Capacity \in Nat /\ Cardinality(queue.live) <= Capacity
        BY <4>2, <4>3, LiveIsFinite, ServeAssumption
      <4>5. /\ IsFiniteSet(Started(ready)) /\ Started(ready) \subseteq ready
            /\ Cardinality(queue.live) + Cardinality(Started(ready)) <= Capacity
        BY <3>2, <4>4, StartedFit
      <4>6. queue.live \intersect Started(ready) = {}
        BY <4>5 DEF ready
      <4>7. /\ IsFiniteSet(queue.live \union Started(ready))
            /\ Cardinality(queue.live \union Started(ready)) = Cardinality(queue.live) + Cardinality(Started(ready))
        <5>1. IsFiniteSet(queue.live) /\ Cardinality(queue.live \intersect Started(ready)) = 0
          BY <4>6, LiveIsFinite, FS_EmptySet
        <5>2. Cardinality(Started(ready)) \in Nat
          BY <4>5, FS_CardinalityType
        <5> QED
          BY <4>4, <4>5, <5>1, <5>2, FS_Union
      <4>8. ChildKeys' \subseteq queue.live \union Started(ready)
        BY <3>1, <3>3
      <4>9. /\ Cardinality(ChildKeys') <= Cardinality(queue.live \union Started(ready))
            /\ Cardinality(ChildKeys') \in Nat
        BY <4>7, <4>8, FS_Subset, FS_CardinalityType
      <4>10. ChildrenWithinCapacity'
        <5>1. Cardinality(Started(ready)) \in Nat
          BY <4>5, FS_CardinalityType
        <5> QED
          BY <4>4, <4>5, <4>7, <4>9, <5>1 DEF ChildrenWithinCapacity
      <4> QED
        BY <2>o, <3>1, <4>10 DEF ChildrenAreKnown
    <3> QED
      BY <3>4, <3>5
  <2> QED
    BY <1>2, <2>1, <2>2, <2>3, <2>4, <2>5, <2>6 DEF QueueSteps
<1> QED
  BY <1>1, <1>2

-----------------------------------------------------------------------------
(* What a step of the rest of the store leaves as it was. *)

KeptByOthers ==
  /\ \A k \in Keys : tickets'[k].failed = tickets[k].failed
  /\ UNCHANGED <<tried, erased, snap>> /\ base'.tip = base.tip
  /\ \A k \in Keys : level'[k] \in {level[k], base.tip}
  /\ \A k \in Keys : child'[k].kind = child[k].kind /\ child'[k].tip = child[k].tip
  /\ queue'.at = queue.at /\ queue'.live = queue.live /\ queue'.todo = queue.todo
  /\ changed' = changed \/ \E k \in Keys : changed' = Stamp(k)

LEMMA RunsKeep ==
  ASSUME TypeOK, NEW p \in Processes, NEW k \in Keys, RunSteps(p, k)
  PROVE  KeptByOthers
<1>t. /\ tickets \in [Keys -> Tickets] /\ child \in [Keys -> Children] /\ level \in [Keys -> Nat]
      /\ \A j \in Keys : tickets[j] \in Tickets /\ child[j] \in Children
  BY DEF TypeOK
<1>move. ASSUME NEW x, Move(k, x)
         PROVE  (\A j \in Keys : tickets'[j].failed = tickets[j].failed) /\ changed' = Stamp(k)
  BY <1>move, <1>t DEF Move, Tickets
<1>to. ASSUME NEW x, To(p, k, x)
       PROVE  \A j \in Keys : child'[j].kind = child[j].kind /\ child'[j].tip = child[j].tip
  BY <1>to, <1>t DEF To, Children
<1>1. \A j \in Keys : child'[j].kind = child[j].kind /\ child'[j].tip = child[j].tip
  BY <1>to DEF RunSteps, RunStarts, TakeLock, RunPublishes, RunFails, RunFinishes
<1>2. /\ \A j \in Keys : tickets'[j].failed = tickets[j].failed
      /\ changed' = changed \/ changed' = Stamp(k)
  BY <1>move DEF RunSteps, RunStarts, TakeLock, RunPublishes, RunFails, RunFinishes
<1>3. \A j \in Keys : level'[j] \in {level[j], base.tip}
  BY <1>t DEF RunSteps, RunStarts, TakeLock, RunPublishes, RunFails, RunFinishes, worldVars
<1>4. UNCHANGED <<tried, erased, snap, base, queue>>
  BY DEF RunSteps, RunStarts, TakeLock, RunPublishes, RunFails, RunFinishes, worldVars, queueVars, histories
<1> QED
  BY <1>1, <1>2, <1>3, <1>4 DEF KeptByOthers

LEMMA OthersKeep ==
  ASSUME TypeOK, [Next]_vars, ~QueueSteps, \A k \in Keys : ~ChildExits(k)
  PROVE  KeptByOthers
<1>t. /\ tickets \in [Keys -> Tickets] /\ child \in [Keys -> Children] /\ level \in [Keys -> Nat]
      /\ queue \in Queues /\ base \in [tip: Nat, ahead: BOOLEAN]
      /\ \A j \in Keys : tickets[j] \in Tickets /\ child[j] \in Children
  BY DEF TypeOK
<1>to. ASSUME NEW p \in Processes, NEW k \in Keys, NEW x, To(p, k, x)
       PROVE  \A j \in Keys : child'[j].kind = child[j].kind /\ child'[j].tip = child[j].tip
  BY <1>to, <1>t DEF To, Children
<1>1. ASSUME NEW k \in Keys, RelevelStarts(k)
      PROVE  KeptByOthers
  <2>1. \A j \in Keys : child'[j].kind = child[j].kind /\ child'[j].tip = child[j].tip
    BY <1>1, <1>to DEF RelevelStarts, Processes
  <2> QED
    BY <1>1, <2>1 DEF RelevelStarts, worldVars, queueVars, histories, KeptByOthers
<1>2. ASSUME NEW k \in Keys, RelevelEnds(k)
      PROVE  KeptByOthers
  <2>1. \A j \in Keys : child'[j].kind = child[j].kind /\ child'[j].tip = child[j].tip
    BY <1>2, <1>to DEF RelevelEnds, Processes
  <2>2. \A j \in Keys : level'[j] \in {level[j], base.tip}
    BY <1>2, <1>t DEF RelevelEnds
  <2> QED
    BY <1>2, <2>1, <2>2 DEF RelevelEnds, queueVars, histories, KeptByOthers
<1>3. ASSUME NEW k \in Keys, NEW p \in Processes, Dies(p, k)
      PROVE  KeptByOthers
  <2>1. \A j \in Keys : child'[j].kind = child[j].kind /\ child'[j].tip = child[j].tip
    BY <1>3, <1>to DEF Dies
  <2> QED
    BY <1>3, <2>1 DEF Dies, queueVars, histories, KeptByOthers
<1>4. ASSUME NEW k \in Keys, EditApproach(k)
      PROVE  KeptByOthers
  <2>1. (\A j \in Keys : tickets'[j].failed = tickets[j].failed) /\ changed' = Stamp(k)
    BY <1>4, <1>t DEF EditApproach, Move, Tickets
  <2> QED
    BY <1>4, <2>1 DEF EditApproach, queueVars, histories, KeptByOthers
<1>5. ASSUME NEW k \in Keys, StartByHand(k)
      PROVE  KeptByOthers
  BY <1>5 DEF StartByHand, queueVars, histories, KeptByOthers
<1>6. ASSUME NEW k \in Keys, PersonEnds(k)
      PROVE  KeptByOthers
  BY <1>6, <1>t DEF PersonEnds, queueVars, histories, KeptByOthers
<1>7. CASE BasePushed
  BY <1>7, <1>t DEF BasePushed, queueVars, histories, KeptByOthers
<1>8. CASE Signal
  BY <1>8, <1>t DEF Signal, histories, KeptByOthers, Queues
<1>9. CASE Pause \/ UNCHANGED vars
  BY <1>9 DEF Pause, vars, histories, KeptByOthers
<1> QED
  BY <1>1, <1>2, <1>3, <1>4, <1>5, <1>6, <1>7, <1>8, <1>9, RunsKeep DEF Next, ProcessSteps

-----------------------------------------------------------------------------
(* Decisions. *)

(* While decisions are in the making, a record that was written is stamped *)
(* or is of a ticket the tick knows a run of. *)
WritesAreSeen ==
  /\ ~Reading => changed.written = {} /\ changed.stamped = {}
  /\ queue.at = "sealing" => changed.written \ changed.stamped \subseteq queue.live

LEMMA WritesStep == TypeOK /\ ChildrenAreKnown /\ WritesAreSeen /\ [Next]_vars => WritesAreSeen'
<1> SUFFICES ASSUME TypeOK, ChildrenAreKnown, WritesAreSeen, [Next]_vars
             PROVE  WritesAreSeen'
  OBVIOUS
<1>t. queue \in Queues /\ changed \in [stamped: SUBSET Keys, written: SUBSET Keys]
  BY DEF TypeOK
<1>1. ASSUME NEW k \in Keys, ChildExits(k)
      PROVE  WritesAreSeen'
  <2>1. k \in ChildKeys /\ UNCHANGED queue
    BY <1>1 DEF ChildExits, ChildKeys, queueVars
  <2>2. changed' = changed \/ changed' = WriteOnly(k)
    BY <1>1 DEF ChildExits
  <2> QED
    BY <2>1, <2>2, <1>t DEF WriteOnly, WritesAreSeen, Reading, ChildrenAreKnown, InTick
<1>2. CASE ~QueueSteps /\ (\A k \in Keys : ~ChildExits(k))
  <2>1. KeptByOthers
    BY <1>2, OthersKeep
  <2>2. CASE changed' = changed
    BY <2>1, <2>2 DEF KeptByOthers, WritesAreSeen, Reading
  <2>3. ASSUME NEW k \in Keys, changed' = Stamp(k)
        PROVE  WritesAreSeen'
    <3>1. CASE queue.at = "sealing"
      <4>1. changed'.written = changed.written \union {k} /\ changed'.stamped = changed.stamped \union {k}
        BY <2>3, <3>1, <1>t DEF Stamp, WriteOnly, Reading
      <4> QED
        BY <2>1, <3>1, <4>1 DEF KeptByOthers, WritesAreSeen, Reading
    <3>2. CASE queue.at # "sealing"
      BY <2>1, <2>3, <3>2 DEF KeptByOthers, Stamp, WriteOnly, WritesAreSeen, Reading
    <3> QED
      BY <3>1, <3>2
  <2> QED
    BY <2>1, <2>2, <2>3 DEF KeptByOthers
<1>3. CASE Tick
  BY <1>3, <1>t DEF Tick, WritesAreSeen, Reading, Queues
<1>4. ASSUME NEW k \in Keys, SyncReads(k) \/ Sync(k) \/ SyncMerges(k)
      PROVE  WritesAreSeen'
  <2>1. ~Reading /\ queue'.at \in {"syncing", "asking", "merging"} /\ changed' = changed
    BY <1>4, <1>t DEF SyncReads, Sync, SyncMerges, SyncNext, Reading, Queues
  <2> QED
    BY <2>1 DEF WritesAreSeen, Reading
<1>5. CASE ReadStore
  BY <1>5, <1>t DEF ReadStore, WritesAreSeen, Reading, Queues
<1>6. ASSUME Decide \/ LevelEnds \/ \E k \in Keys : LevelLooks(k) \/ LeaveLevel(k) \/ Relevel(k)
      PROVE  WritesAreSeen'
  <2>1. queue'.at \in {"levelling", "looking"}
    BY <1>6, <1>t DEF Decide, DecideOn, LevelEnds, LevelLooks, LeaveLevel, Relevel, Queues
  <2> QED
    BY <2>1 DEF WritesAreSeen, Reading
<1>7. CASE Start
  BY <1>7 DEF Start, Asleep, WritesAreSeen, Reading
<1>8. CASE Drain \/ Stop
  BY <1>8, <1>t DEF Drain, Stop, WritesAreSeen, Reading, Queues
<1> QED
  BY <1>1, <1>2, <1>3, <1>4, <1>5, <1>6, <1>7, <1>8 DEF QueueSteps

LEMMA DecideStep ==
  ASSUME TypeOK, WritesAreSeen, Decide, NEW k \in Keys, k \in changed.written
  PROVE  tickets'[k] = tickets[k]
<1>1. PICK sealed \in SUBSET SnapOpen : DecideOn(sealed)
  BY DEF Decide
<1>2. k \in changed.stamped \/ k \in queue.live
  BY DEF Decide, WritesAreSeen
<1> QED
  BY <1>1, <1>2 DEF DecideOn, MovedSince, Considered

-----------------------------------------------------------------------------
(* Re-levels. *)

(* A tip that a re-level did not level is no later than the base's; at the *)
(* base's own the record says so, until the branch is level there or a     *)
(* sync erases it; and a re-level under way is at a tip that none has      *)
(* failed at whose record stands.                                          *)
TipsAreAnswered ==
  \A k \in Keys :
    /\ \A t \in tried[k] : t <= base.tip
    /\ base.tip \in tried[k] \ erased[k] => tickets[k].failed = base.tip \/ level[k] = base.tip
    /\ child[k].kind = "relevel" => child[k].tip <= base.tip /\ base.tip \notin tried[k] \ erased[k]

(* What a tick read of a re-level that failed is still so for the branches *)
(* it has to look at, none of which a run is inside.                       *)
ReadingsHold ==
  /\ queue.at = "sealing" => \A k \in Keys \ queue.live : snap[k].failed = tickets[k].failed
  /\ queue.at \in {"levelling", "looking"} =>
       /\ queue.todo \intersect queue.live = {}
       /\ \A k \in queue.todo : snap[k].failed = tickets[k].failed

RelevelInv == TipsAreAnswered /\ ReadingsHold

LEMMA RelevelAtAFreshTip ==
  ASSUME TypeOK, TipsAreAnswered, ReadingsHold, NEW k \in Keys, Relevel(k)
  PROVE  base.tip \notin tried[k] \ erased[k]
<1>1. k \in queue.todo /\ queue.at = "looking" /\ level[k] < base.tip /\ snap[k].failed # base.tip
  BY DEF Relevel, LevelNext, FirstOf
<1> QED
  BY <1>1 DEF TipsAreAnswered, ReadingsHold, TypeOK

LEMMA RelevelStep ==
  TypeOK /\ ChildrenAreKnown /\ RelevelInv /\ [Next]_vars => RelevelInv'
<1> SUFFICES ASSUME TypeOK, ChildrenAreKnown, RelevelInv, [Next]_vars
             PROVE  RelevelInv'
  OBVIOUS
<1> USE DEF RelevelInv
<1>t. /\ queue \in Queues /\ base \in [tip: Nat, ahead: BOOLEAN] /\ level \in [Keys -> Nat]
      /\ tickets \in [Keys -> Tickets] /\ child \in [Keys -> Children] /\ tried \in [Keys -> SUBSET Nat]
      /\ erased \in [Keys -> SUBSET Nat]
      /\ \A k \in Keys : tickets[k] \in Tickets /\ child[k] \in Children /\ tried[k] \subseteq Nat
      /\ base.tip \in Nat /\ (\A k \in Keys : child[k].tip \in Nat /\ tickets[k].failed \in Nat)
  BY DEF TypeOK, Children, Tickets
<1>1. ASSUME NEW k \in Keys, ChildExits(k)
      PROVE  RelevelInv'
  <2>1. /\ k \in ChildKeys /\ child' = [child EXCEPT ![k] = NoChild]
        /\ UNCHANGED <<queue, base, level, snap>>
    BY <1>1 DEF ChildExits, ChildKeys, queueVars, worldVars
  <2>2. \A j \in Keys \ {k} :
          tickets'[j].failed = tickets[j].failed /\ tried'[j] = tried[j] /\ erased'[j] = erased[j]
    BY <1>1, <1>t DEF ChildExits, histories
  <2>3. child'[k].kind = "run" /\ (\A j \in Keys \ {k} : child'[j] = child[j])
    BY <2>1, <1>t DEF NoChild
  <2>4. CASE child[k].kind = "run"
    <3>1. tickets' = tickets /\ tried' = tried /\ erased' = erased
      BY <1>1, <2>4 DEF ChildExits, histories
    <3> QED
      BY <2>1, <2>3, <3>1 DEF TipsAreAnswered, ReadingsHold
  <2>5. CASE child[k].kind = "relevel" /\ child[k].stage = "exited"
    <3>1. /\ tickets'[k].failed = child[k].tip
          /\ tried'[k] = tried[k] \union {child[k].tip} /\ erased'[k] = erased[k] \ {child[k].tip}
      BY <1>1, <2>5, <1>t DEF ChildExits, Tickets
    <3>2. TipsAreAnswered'
      BY <2>1, <2>2, <2>3, <2>5, <3>1 DEF TipsAreAnswered
    <3>3. ReadingsHold'
      BY <2>1, <2>2, <1>t DEF ReadingsHold, ChildrenAreKnown, InTick, Queues
    <3> QED
      BY <3>2, <3>3
  <2>6. CASE child[k].kind = "relevel" /\ child[k].stage # "exited"
    <3>1. tried' = tried /\ erased' = erased
      BY <1>1, <2>6 DEF ChildExits, histories
    <3>2. TipsAreAnswered'
      BY <2>1, <2>2, <2>3, <2>6, <3>1 DEF TipsAreAnswered
    <3>3. ReadingsHold'
      BY <2>1, <2>2, <1>t DEF ReadingsHold, ChildrenAreKnown, InTick, Queues
    <3> QED
      BY <3>2, <3>3
  <2> QED
    BY <2>4, <2>5, <2>6, <1>t DEF Children
<1>2. CASE ~QueueSteps /\ (\A k \in Keys : ~ChildExits(k))
  <2>1. KeptByOthers
    BY <1>2, OthersKeep
  <2>2. TipsAreAnswered'
    BY <2>1 DEF KeptByOthers, TipsAreAnswered
  <2>3. ReadingsHold'
    BY <2>1, <1>t DEF KeptByOthers, ReadingsHold, Queues
  <2> QED
    BY <2>2, <2>3
<1>3. CASE Tick
  <2>1. UNCHANGED <<tickets, tried, erased, level, child>> /\ (base'.tip = base.tip \/ base'.tip = base.tip + 1)
    BY <1>3 DEF Tick, histories
  <2>2. TipsAreAnswered'
    <3>1. CASE base'.tip = base.tip
      BY <2>1, <3>1 DEF TipsAreAnswered
    <3>2. CASE base'.tip = base.tip + 1
      <4>1. \A k \in Keys : base.tip + 1 \notin tried[k]
        BY <1>t DEF TipsAreAnswered
      <4>2. \A k \in Keys : \A t \in tried[k] : t <= base.tip + 1
        BY <1>t DEF TipsAreAnswered
      <4>3. \A k \in Keys : child[k].kind = "relevel" => child[k].tip <= base.tip + 1
        BY <1>t DEF TipsAreAnswered
      <4> QED
        BY <2>1, <3>2, <4>1, <4>2, <4>3 DEF TipsAreAnswered
    <3> QED
      BY <2>1, <3>1, <3>2
  <2>3. ReadingsHold'
    BY <1>3, <1>t DEF Tick, ReadingsHold, Queues
  <2> QED
    BY <2>2, <2>3
<1>0. ASSUME NEW k \in Keys, SyncReads(k) \/ LevelLooks(k)
      PROVE  RelevelInv'
  <2>1. UNCHANGED <<tickets, tried, erased, level, child, base>>
    BY <1>0 DEF SyncReads, LevelLooks, worldVars, histories
  <2>2. ReadingsHold'
    BY <1>0, <2>1, <1>t DEF SyncReads, LevelLooks, ReadingsHold, Queues
  <2> QED
    BY <2>1, <2>2 DEF TipsAreAnswered
<1>4. ASSUME NEW k \in Keys, Sync(k) \/ SyncMerges(k)
      PROVE  RelevelInv'
  <2>1. UNCHANGED <<tickets, erased>> \/ \E x : WritesBack(k, x)
    BY <1>4 DEF Sync, SyncMerges
  <2>2. /\ \A j \in Keys \ {k} : tickets'[j].failed = tickets[j].failed
        /\ \A j \in Keys : erased[j] \subseteq erased'[j]
        /\ tickets'[k].failed = tickets[k].failed \/ tickets[k].failed \in erased'[k]
    <3>1. CASE UNCHANGED <<tickets, erased>>
      BY <3>1
    <3>2. ASSUME NEW x, WritesBack(k, x)
          PROVE  /\ \A j \in Keys \ {k} : tickets'[j] = tickets[j]
                 /\ tickets'[k].failed = snap[k].failed
                 /\ erased' = IF snap[k].failed = tickets[k].failed THEN erased
                              ELSE [erased EXCEPT ![k] = @ \union {tickets[k].failed}]
      <4>1. snap[k] \in Tickets
        BY DEF TypeOK
      <4> QED
        BY <3>2, <4>1, <1>t DEF WritesBack, Tickets
    <3>3. CASE \E x : WritesBack(k, x)
      BY <3>2, <3>3, <1>t
    <3> QED
      BY <2>1, <3>1, <3>3
  <2>3. UNCHANGED <<tried, level, child>> /\ base'.tip = base.tip /\ queue'.at = "syncing"
    BY <1>4, <1>t DEF Sync, SyncMerges, Queues
  <2> QED
    BY <2>2, <2>3 DEF TipsAreAnswered, ReadingsHold
<1>5. CASE ReadStore
  BY <1>5, <1>t DEF ReadStore, worldVars, histories, TipsAreAnswered, ReadingsHold, Queues
<1>6. CASE Decide
  <2>1. PICK sealed \in SUBSET SnapOpen : DecideOn(sealed)
    BY <1>6 DEF Decide
  <2>2. queue.at = "sealing" /\ UNCHANGED <<tried, erased, level, child, base>>
    BY <1>6 DEF Decide, histories
  <2>3. \A k \in Keys : Decided(sealed, k).failed = snap[k].failed
    BY DEF Decided, TypeOK, Tickets
  <2>4. \A k \in Keys : tickets'[k].failed = tickets[k].failed
    BY <2>1, <2>2, <2>3, <1>t DEF DecideOn, ReadingsHold, Considered
  <2>5. /\ queue'.at = "levelling" /\ queue'.live = LookAgain /\ queue'.todo = SnapOpen \ LookAgain
        /\ \A k \in SnapOpen : snap'[k] = snap[k]
    BY <2>1, <1>t DEF DecideOn, Queues, SnapOpen
  <2>6. ReadingsHold'
    BY <2>2, <2>4, <2>5 DEF ReadingsHold, LookAgain, SnapOpen
  <2> QED
    BY <2>2, <2>4, <2>6 DEF TipsAreAnswered
<1>7. ASSUME NEW k \in Keys, LeaveLevel(k)
      PROVE  RelevelInv'
  <2>1. /\ queue.at = "looking" /\ queue'.at = "levelling" /\ queue'.live = queue.live
        /\ queue'.todo = queue.todo \ {k} /\ UNCHANGED <<tried, erased, level, child, base, snap>>
    BY <1>7, <1>t DEF LeaveLevel, LevelNext, histories, Queues
  <2>2. \/ tickets' = tickets
        \/ level[k] = base.tip /\ tickets' = [tickets EXCEPT ![k].failed = 0]
    BY <1>7 DEF LeaveLevel
  <2>3. /\ \A j \in Keys \ {k} : tickets'[j].failed = tickets[j].failed
        /\ level[k] = base.tip \/ tickets'[k].failed = tickets[k].failed
    BY <2>2, <1>t
  <2>4. TipsAreAnswered'
    BY <2>1, <2>3 DEF TipsAreAnswered
  <2>5. ReadingsHold'
    BY <2>1, <2>3, <1>t DEF ReadingsHold, Queues
  <2> QED
    BY <2>4, <2>5
<1>8. ASSUME NEW k \in Keys, Relevel(k)
      PROVE  RelevelInv'
  <2>1. /\ queue.at = "looking" /\ queue'.at = "levelling" /\ queue'.live = queue.live \union {k}
        /\ queue'.todo = queue.todo \ {k} /\ UNCHANGED <<tried, erased, level, base, snap, tickets>>
    BY <1>8, <1>t DEF Relevel, LevelNext, worldVars, histories, Queues
  <2>2. child'[k].tip = base.tip /\ (\A j \in Keys \ {k} : child'[j] = child[j])
    BY <1>8, <1>t DEF Relevel
  <2>3. base.tip \notin tried[k] \ erased[k]
    BY <1>8, <1>t, RelevelAtAFreshTip
  <2>4. TipsAreAnswered'
    BY <2>1, <2>2, <2>3, <1>t DEF TipsAreAnswered
  <2>5. ReadingsHold'
    BY <2>1 DEF ReadingsHold
  <2> QED
    BY <2>4, <2>5
<1>9. CASE LevelEnds \/ Drain \/ Stop
  BY <1>9, <1>t DEF LevelEnds, Drain, Stop, worldVars, histories, TipsAreAnswered, ReadingsHold, Queues
<1>10. CASE Start
  <2>1. \A k \in Keys : child'[k] = child[k] \/ child'[k].kind = "run"
    BY <1>10, <1>t DEF Start
  <2>2. UNCHANGED <<tried, erased, level, base, tickets>> /\ queue'.at = "sleeping"
    BY <1>10, <1>t DEF Start, Asleep, worldVars, histories, Queues
  <2> QED
    BY <2>1, <2>2 DEF TipsAreAnswered, ReadingsHold
<1> QED
  BY <1>0, <1>1, <1>2, <1>3, <1>4, <1>5, <1>6, <1>7, <1>8, <1>9, <1>10 DEF QueueSteps

LEMMA NewRelevels ==
  ASSUME TypeOK, RelevelInv, [Next]_vars, NEW k \in Keys, child[k] = NoChild, child'[k].kind = "relevel"
  PROVE  child'[k].tip \notin tried[k] \ erased[k]
<1>t. child \in [Keys -> Children] /\ child[k].kind = "run"
  BY DEF TypeOK, NoChild
<1>1. CASE Relevel(k)
  <2>1. child'[k].tip = base.tip
    BY <1>1, <1>t DEF Relevel
  <2> QED
    BY <1>1, <2>1, RelevelAtAFreshTip DEF RelevelInv
<1>2. ASSUME NEW j \in Keys, Relevel(j), j # k
      PROVE  FALSE
  BY <1>2, <1>t DEF Relevel
<1>3. ASSUME NEW j \in Keys, ChildExits(j)
      PROVE  FALSE
  BY <1>3, <1>t DEF ChildExits, NoChild
<1>4. CASE ~QueueSteps /\ (\A j \in Keys : ~ChildExits(j))
  BY <1>4, <1>t, OthersKeep DEF KeptByOthers
<1>5. CASE Start
  BY <1>5, <1>t DEF Start
<1>6. CASE child' = child
  BY <1>6, <1>t
<1>7. CASE QueueSteps /\ ~Start /\ (\A j \in Keys : ~Relevel(j))
  BY <1>6, <1>7 DEF QueueSteps, Tick, SyncReads, Sync, SyncMerges, ReadStore, Decide, LevelLooks, LeaveLevel, LevelEnds,
                         Drain, Stop
<1> QED
  BY <1>1, <1>2, <1>3, <1>4, <1>5, <1>7

-----------------------------------------------------------------------------
(* Starts. *)

(* A record nobody wrote since the tick read it is as it was read, or as   *)
(* it was decided on.                                                      *)
ReadingIsCurrent ==
  Reading =>
    /\ changed.stamped \subseteq changed.written
    /\ \A k \in Keys \ changed.written : tickets[k] = snap[k]

(* What stands in a ticket's way as some reading of the store has it. *)
InTheWay(k, read) ==
  DependencyWaits(plan, [j \in Keys |-> read[j].state], k)
    \union {h \in ahead[k] :
              /\ read[h].state \in QUEUE_HOLDING_STATES
              /\ <<k, h>> \in plan.globs
              /\ read[h].state = "pr_open" => k \in plan.paths[h]}

(* Of the tickets to be started, those nobody wrote since were decided to  *)
(* have nothing in their way but what was written.                         *)
ReadyIsClear ==
  queue.at \in {"levelling", "looking"} =>
    \A k \in queue.ready \ changed.written : snap[k].state = "ready" /\ InTheWay(k, snap) \subseteq changed.written

(* A run started by hand has moved its ticket by the time it asks for the  *)
(* lock, and nothing moves a ticket back to be decided on: no sync reads   *)
(* one that is to be, and so none writes one back.                         *)
HandsHaveMoved ==
  /\ \A k \in Keys : hand[k] \notin {"none", "spawned"} => tickets[k].state \notin {"ready", "blocked"}
  /\ queue.at \in {"syncing", "asking", "merging"} =>
       \A k \in queue.todo : tickets[k].state \notin {"ready", "blocked"}
  /\ queue.at \in {"asking", "merging"} =>
       \A k \in Keys : FirstOf(queue.todo, k) => snap[k].state \notin {"ready", "blocked"}

StartInv == ReadingIsCurrent /\ ReadyIsClear /\ HandsHaveMoved

(* The steps that leave the tick where it is mark what they write. *)
Marks ==
  /\ queue'.at = queue.at \/ {queue'.at, queue.at} \subseteq {"levelling", "looking"}
  /\ queue'.ready = queue.ready /\ UNCHANGED <<snap, plan, ahead>>
  /\ \/ UNCHANGED <<tickets, changed>>
     \/ \E k \in Keys : /\ changed' \in {Stamp(k), WriteOnly(k)}
                        /\ \A j \in Keys \ {k} : tickets'[j] = tickets[j]

LEMMA RunsMark ==
  ASSUME TypeOK, NEW p \in Processes, NEW k \in Keys, RunSteps(p, k)
  PROVE  Marks
<1>1. UNCHANGED <<queue, snap, plan, ahead>>
  BY DEF RunSteps, RunStarts, TakeLock, RunPublishes, RunFails, RunFinishes, worldVars, queueVars
<1>2. UNCHANGED <<tickets, changed>> \/ \E x : Move(k, x)
  BY DEF RunSteps, RunStarts, TakeLock, RunPublishes, RunFails, RunFinishes
<1>3. ASSUME NEW x, Move(k, x)
      PROVE  changed' = Stamp(k) /\ \A j \in Keys \ {k} : tickets'[j] = tickets[j]
  BY <1>3 DEF Move, TypeOK
<1> QED
  BY <1>1, <1>2, <1>3 DEF Marks

LEMMA OthersMark ==
  ASSUME TypeOK, [Next]_vars, ~QueueSteps
  PROVE  Marks
<1>t. tickets \in [Keys -> Tickets] /\ queue \in Queues
  BY DEF TypeOK
<1>1. ASSUME NEW k \in Keys, ChildExits(k)
      PROVE  Marks
  BY <1>1, <1>t DEF ChildExits, worldVars, queueVars, Marks
<1>2. ASSUME NEW k \in Keys, RelevelStarts(k) \/ RelevelEnds(k)
      PROVE  Marks
  BY <1>2 DEF RelevelStarts, RelevelEnds, worldVars, queueVars, Marks
<1>3. ASSUME NEW k \in Keys, NEW p \in Processes, Dies(p, k)
      PROVE  Marks
  BY <1>3 DEF Dies, queueVars, Marks
<1>4. ASSUME NEW k \in Keys, EditApproach(k)
      PROVE  Marks
  BY <1>4, <1>t DEF EditApproach, Move, queueVars, Marks
<1>5. ASSUME NEW k \in Keys, StartByHand(k) \/ PersonEnds(k)
      PROVE  Marks
  BY <1>5 DEF StartByHand, PersonEnds, queueVars, Marks
<1>6. CASE Signal
  BY <1>6, <1>t DEF Signal, Queues, Marks
<1>7. CASE Pause \/ BasePushed \/ UNCHANGED vars
  BY <1>7 DEF Pause, BasePushed, queueVars, vars, Marks
<1> QED
  BY <1>1, <1>2, <1>3, <1>4, <1>5, <1>6, <1>7, RunsMark DEF Next, ProcessSteps

LEMMA QueueMarks ==
  ASSUME TypeOK, NEW k \in Keys, LevelLooks(k) \/ LeaveLevel(k) \/ Relevel(k) \/ LevelEnds
  PROVE  Marks
<1>t. tickets \in [Keys -> Tickets] /\ queue \in Queues
  BY DEF TypeOK
<1>1. /\ {queue'.at, queue.at} \subseteq {"levelling", "looking"}
      /\ queue'.ready = queue.ready /\ UNCHANGED <<snap, plan, ahead>>
  BY <1>t DEF LevelLooks, LeaveLevel, Relevel, LevelEnds, LevelNext, worldVars, Queues
<1>2. CASE LeaveLevel(k)
  BY <1>1, <1>2, <1>t DEF LeaveLevel, Marks
<1>3. CASE LevelLooks(k) \/ Relevel(k) \/ LevelEnds
  BY <1>1, <1>3 DEF LevelLooks, Relevel, LevelEnds, Marks
<1> QED
  BY <1>2, <1>3

LEMMA MarksKeep ==
  ASSUME TypeOK, ReadingIsCurrent, ReadyIsClear, Marks
  PROVE  ReadingIsCurrent' /\ ReadyIsClear'
<1>t. changed \in [stamped: SUBSET Keys, written: SUBSET Keys]
  BY DEF TypeOK
<1>1. CASE UNCHANGED <<tickets, changed>>
  BY <1>1 DEF Marks, ReadingIsCurrent, ReadyIsClear, Reading, InTheWay, DependencyWaits
<1>2. ASSUME NEW k \in Keys, changed' \in {Stamp(k), WriteOnly(k)}, Reading,
             \A j \in Keys \ {k} : tickets'[j] = tickets[j]
      PROVE  ReadingIsCurrent' /\ ReadyIsClear'
  <2>1. /\ changed'.written = changed.written \union {k}
        /\ changed'.stamped \subseteq changed.stamped \union {k}
    BY <1>2, <1>t DEF Stamp, WriteOnly
  <2>2. ReadingIsCurrent'
    BY <1>2, <2>1 DEF Marks, ReadingIsCurrent, Reading
  <2>3. ReadyIsClear'
    BY <2>1 DEF Marks, ReadyIsClear, InTheWay, DependencyWaits
  <2> QED
    BY <2>2, <2>3
<1>3. CASE ~Reading
  BY <1>3 DEF Marks, ReadingIsCurrent, ReadyIsClear, Reading
<1> QED
  BY <1>1, <1>2, <1>3 DEF Marks

(* A ticket the tick decides is ready waits on nothing, and so has nothing *)
(* in its way: a sealed ticket that overlaps by its paths and its globs    *)
(* would have held it, read or not.                                        *)
LEMMA DecidedReadyIsClear ==
  ASSUME TypeOK, NEW sealed \in SUBSET SnapOpen, NEW k \in Keys, Decided(sealed, k).state = "ready"
  PROVE  InTheWay(k, snap) = {}
<1> DEFINE state == [j \in Keys |-> snap[j].state]
<1>1. WaitsFor(plan, ahead, state, sealed, k) = {}
  BY DEF Decided, TypeOK, Tickets
<1>2. DependencyWaits(plan, state, k) = {} /\ ScopeWaits(plan, ahead, state, sealed, k) = {}
  BY <1>1 DEF WaitsFor
<1>3. ASSUME NEW h \in ahead[k], snap[h].state \in QUEUE_HOLDING_STATES, <<k, h>> \in plan.globs,
             snap[h].state = "pr_open" => k \in plan.paths[h]
      PROVE  FALSE
  <2>1. h \in Keys /\ state[h] = snap[h].state
    BY DEF TypeOK
  <2>2. h \in sealed => k \in plan.paths[h]
    BY <1>3 DEF SnapOpen
  <2>3. h \in ScopeWaits(plan, ahead, state, sealed, k)
    BY <1>2, <1>3, <2>1, <2>2 DEF ScopeWaits
  <2> QED
    BY <1>2, <2>3
<1> QED
  BY <1>2, <1>3 DEF InTheWay

(* A reading that has a ticket ready where another has it blocked, or the  *)
(* other way about, puts it in the way of the same tickets.                *)
LEMMA SameInTheWay ==
  ASSUME TypeOK, NEW read, NEW again, NEW k \in Keys, NEW w \in InTheWay(k, again),
         w \in Keys => \/ again[w].state = read[w].state
                      \/ {again[w].state, read[w].state} \subseteq {"ready", "blocked"}
  PROVE  w \in InTheWay(k, read)
<1>1. ahead[k] \subseteq Keys
  BY DEF TypeOK
<1>2. w \in Keys => /\ (again[w].state = "merged") = (read[w].state = "merged")
                   /\ (again[w].state = "pr_open") = (read[w].state = "pr_open")
                   /\ (again[w].state \in QUEUE_HOLDING_STATES) = (read[w].state \in QUEUE_HOLDING_STATES)
  BY DEF QUEUE_HOLDING_STATES
<1>3. CASE w \in DependencyWaits(plan, [j \in Keys |-> again[j].state], k)
  <2>1. w \in DependencyWaits(plan, [j \in Keys |-> read[j].state], k)
    BY <1>2, <1>3 DEF DependencyWaits, DEPENDENCY_SATISFIED_STATES
  <2> QED
    BY <2>1 DEF InTheWay
<1>4. CASE w \notin DependencyWaits(plan, [j \in Keys |-> again[j].state], k)
  BY <1>1, <1>2, <1>4 DEF InTheWay
<1> QED
  BY <1>3, <1>4

LEMMA DecideKeeps ==
  ASSUME TypeOK, ReadingIsCurrent, Decide
  PROVE  ReadingIsCurrent' /\ ReadyIsClear'
<1>t. /\ queue \in Queues /\ changed \in [stamped: SUBSET Keys, written: SUBSET Keys]
      /\ \A k \in Keys : snap[k] \in Tickets /\ tickets[k] \in Tickets
  BY DEF TypeOK
<1>1. PICK sealed \in SUBSET SnapOpen : DecideOn(sealed)
  BY DEF Decide
<1> DEFINE differs == {k \in Considered : Decided(sealed, k) # snap[k]}
           yields == {k \in differs : MovedSince(k)}
<1>2. /\ tickets' = [k \in Keys |-> IF k \in differs \ yields THEN Decided(sealed, k) ELSE tickets[k]]
      /\ snap' = [k \in Keys |-> IF k \in SnapOpen THEN snap[k] ELSE tickets'[k]]
      /\ queue'.ready = {k \in Considered \ yields : Decided(sealed, k).state = "ready"}
                          \union {k \in yields : tickets[k].state = "ready"}
      /\ queue'.at = "levelling"
  BY <1>1, <1>t DEF DecideOn, Queues
<1>3. /\ changed'.written = changed.written /\ changed'.stamped = {} /\ UNCHANGED <<plan, ahead>>
      /\ queue.at = "sealing"
  BY <1>t DEF Decide
<1>4. \A k \in Keys \ changed.written : tickets[k] = snap[k]
  BY <1>3 DEF ReadingIsCurrent, Reading
<1>5. yields \subseteq changed.written
  BY <1>3, <1>4 DEF MovedSince, Considered, ReadingIsCurrent, Reading
<1>6. \A k \in SnapOpen : k \notin Considered
  BY DEF SnapOpen, Considered
<1>7. ReadingIsCurrent'
  <2>1. ASSUME NEW k \in Keys \ changed.written
        PROVE  tickets'[k] = snap'[k]
    <3>1. CASE k \in SnapOpen
      BY <1>2, <1>4, <1>6, <3>1
    <3>2. CASE k \notin SnapOpen
      BY <1>2, <3>2
    <3> QED
      BY <3>1, <3>2
  <2> QED
    BY <1>3, <2>1 DEF ReadingIsCurrent
<1>8. ReadyIsClear'
  <2> SUFFICES ASSUME NEW k \in queue'.ready, k \notin changed'.written
               PROVE  snap'[k].state = "ready" /\ InTheWay(k, snap)' \subseteq changed'.written
    BY <1>2 DEF ReadyIsClear
  <2>1. k \in Considered \ yields /\ k \in Keys /\ Decided(sealed, k).state = "ready"
    BY <1>2, <1>3, <1>5 DEF Considered
  <2>2. k \notin SnapOpen
    BY <1>6, <2>1
  <2>3. snap'[k].state = "ready"
    <3>1. CASE k \in differs
      BY <1>2, <2>1, <2>2, <3>1
    <3>2. CASE k \notin differs
      BY <1>2, <1>3, <1>4, <2>1, <2>2, <3>2
    <3> QED
      BY <3>1, <3>2
  <2>4. ASSUME NEW w \in InTheWay(k, snap'), w \notin changed.written
        PROVE  FALSE
    <3>1. ASSUME w \in Keys
          PROVE  \/ snap'[w].state = snap[w].state
                 \/ {snap'[w].state, snap[w].state} \subseteq {"ready", "blocked"}
      <4>1. CASE w \in differs
        <5>1. snap'[w] = Decided(sealed, w)
          BY <1>2, <1>5, <1>6, <2>4, <4>1 DEF Considered
        <5>2. Decided(sealed, w).state \in {"ready", "blocked"}
          BY <1>t, <3>1 DEF Decided, Tickets
        <5>3. snap[w].state \in {"ready", "blocked"}
          BY <4>1 DEF Considered
        <5> QED
          BY <5>1, <5>2, <5>3
      <4>2. CASE w \notin differs
        BY <1>2, <1>4, <2>4, <3>1, <4>2
      <4> QED
        BY <4>1, <4>2
    <3>2. w \in InTheWay(k, snap)
      BY <2>1, <2>4, <3>1, SameInTheWay
    <3> QED
      BY <2>1, <3>2, DecidedReadyIsClear
  <2>5. InTheWay(k, snap)' = InTheWay(k, snap')
    BY <1>3 DEF InTheWay, DependencyWaits
  <2> QED
    BY <1>3, <2>3, <2>4, <2>5
<1> QED
  BY <1>7, <1>8

(* A loop has one ticket to look at next. *)
LEMMA OneIsFirst ==
  ASSUME OrderOfThePlan, NEW ks \in SUBSET Keys, NEW j \in Keys, NEW k \in Keys, FirstOf(ks, j), FirstOf(ks, k)
  PROVE  j = k
<1>1. {j, k} \in (SUBSET Keys) \ {{}}
  OBVIOUS
<1>2. \E i \in {j, k} : {j, k} \ {i} \subseteq ahead[i]
  BY <1>1, OrderAssumption DEF OrderOfThePlan
<1> QED
  BY <1>2 DEF FirstOf

(* How a ticket comes to be ready or blocked, and a run by hand to ask for *)
(* the lock. *)
LEMMA HandsStep == TypeOK /\ OrderOfThePlan /\ HandsHaveMoved /\ [Next]_vars => HandsHaveMoved'
<1> SUFFICES ASSUME TypeOK, OrderOfThePlan, HandsHaveMoved, [Next]_vars
             PROVE  HandsHaveMoved'
  OBVIOUS
<1>t. /\ tickets \in [Keys -> Tickets] /\ hand \in [Keys -> Stages] /\ queue \in Queues
      /\ queue.todo \subseteq Keys /\ snap \in [Keys -> Tickets]
      /\ \A k \in Keys : tickets[k] \in Tickets
  BY DEF TypeOK, Queues
<1> DEFINE back == \A k \in Keys : tickets'[k].state \in {"ready", "blocked"} => tickets[k].state \in {"ready", "blocked"}
           still == queue'.at = queue.at /\ queue'.todo = queue.todo /\ UNCHANGED <<snap, ahead>>
           other == queue'.at \notin {"syncing", "asking", "merging"}
<1>same. ASSUME back, hand' = hand, still \/ other
         PROVE  HandsHaveMoved'
  BY <1>same, <1>t DEF HandsHaveMoved, FirstOf
<1>on. ASSUME NEW p \in Processes, NEW k \in Keys, NEW x, To(p, k, x), StageOf(p, k) \notin {"none", "spawned"},
              UNCHANGED tickets, still
       PROVE  HandsHaveMoved'
  BY <1>on, <1>t DEF To, StageOf, HandsHaveMoved, FirstOf
<1>exit. ASSUME NEW p \in Processes, NEW k \in Keys, To(p, k, "exited"), back, still
         PROVE  HandsHaveMoved'
  BY <1>exit, <1>t DEF To, HandsHaveMoved, FirstOf
<1>1. ASSUME NEW p \in Processes, NEW k \in Keys, RunSteps(p, k)
      PROVE  HandsHaveMoved'
  <2>s. still
    BY <1>1 DEF RunSteps, RunStarts, TakeLock, RunPublishes, RunFails, RunFinishes, worldVars, queueVars
  <2>1. CASE RunStarts(p, k)
    <3>1. CASE tickets[k].state \in Reopenable
      <4>1. To(p, k, "started") /\ tickets' = [tickets EXCEPT ![k].state = "provisioning"]
        BY <2>1, <3>1 DEF RunStarts, Move
      <4>2. tickets'[k].state = "provisioning" /\ (\A j \in Keys \ {k} : tickets'[j] = tickets[j])
        BY <4>1, <1>t DEF Tickets
      <4>3. \A j \in Keys \ {k} : hand'[j] = hand[j]
        BY <4>1, <1>t DEF To
      <4> QED
        BY <4>2, <4>3, <2>s, <1>t DEF HandsHaveMoved, FirstOf
    <3>2. CASE tickets[k].state \notin Reopenable
      BY <2>1, <2>s, <3>2, <1>exit DEF RunStarts
    <3> QED
      BY <3>1, <3>2
  <2>2. CASE TakeLock(p, k) \/ RunPublishes(p, k) \/ RunFails(p, k)
    BY <2>2, <2>s, <1>on DEF TakeLock, RunPublishes, RunFails, worldVars
  <2>3. CASE RunFinishes(p, k)
    <3>1. To(p, k, "exited")
      BY <2>3 DEF RunFinishes
    <3>2. tickets' = tickets \/ \E x \in {"pr_open", "settled"} : tickets' = [tickets EXCEPT ![k].state = x]
      BY <2>3 DEF RunFinishes, Move
    <3>3. \A j \in Keys : tickets'[j].state \in {"ready", "blocked"} => tickets[j].state \in {"ready", "blocked"}
      BY <3>2, <1>t DEF Tickets
    <3> QED
      BY <2>s, <3>1, <3>3, <1>exit
  <2> QED
    BY <1>1, <2>1, <2>2, <2>3 DEF RunSteps
<1>2. ASSUME NEW k \in Keys, RelevelStarts(k) \/ RelevelEnds(k)
      PROVE  HandsHaveMoved'
  BY <1>2, <1>same DEF RelevelStarts, RelevelEnds, To, worldVars, queueVars
<1>3. ASSUME NEW k \in Keys, NEW p \in Processes, Dies(p, k)
      PROVE  HandsHaveMoved'
  BY <1>3, <1>exit DEF Dies, queueVars
<1>4. ASSUME NEW k \in Keys, ChildExits(k)
      PROVE  HandsHaveMoved'
  <2>1. hand' = hand /\ still /\ (tickets' = tickets \/ \E x : tickets' = [tickets EXCEPT ![k].failed = x])
    BY <1>4 DEF ChildExits, worldVars, queueVars
  <2> QED
    BY <2>1, <1>same, <1>t DEF Tickets
<1>5. ASSUME NEW k \in Keys, EditApproach(k)
      PROVE  HandsHaveMoved'
  <2>1. hand' = hand /\ still /\ tickets' = [tickets EXCEPT ![k].state = tickets[k].state]
    BY <1>5 DEF EditApproach, Move, queueVars
  <2>2. \A j \in Keys : tickets'[j].state = tickets[j].state
    BY <2>1, <1>t DEF Tickets
  <2> QED
    BY <2>1, <2>2, <1>same
<1>6. ASSUME NEW k \in Keys, StartByHand(k)
      PROVE  HandsHaveMoved'
  BY <1>6, <1>t DEF StartByHand, HandsHaveMoved, FirstOf, queueVars
<1>7. ASSUME NEW k \in Keys, Sync(k) \/ SyncMerges(k)
      PROVE  HandsHaveMoved'
  <2>1. /\ hand' = hand /\ queue'.at = "syncing" /\ queue'.todo = queue.todo \ {k}
        /\ queue.at \in {"asking", "merging"}
    BY <1>7, <1>t DEF Sync, SyncMerges, SyncNext, Queues
  <2>2. snap[k].state \notin {"ready", "blocked"}
    BY <1>7 DEF Sync, SyncMerges, SyncNext, HandsHaveMoved
  <2>3. \A x \in Synced(snap[k].state, pulls[k]) : x \notin {"ready", "blocked"}
    BY <2>2 DEF Synced
  <2>4. tickets' = tickets \/ \E x : x \notin {"ready", "blocked"} /\ WritesBack(k, x)
    <3>1. CASE Sync(k)
      BY <3>1, <2>2, <2>3 DEF Sync
    <3>2. CASE SyncMerges(k)
      BY <3>2 DEF SyncMerges
    <3> QED
      BY <1>7, <3>1, <3>2
  <2>5. back
    BY <2>4, <1>t DEF WritesBack, Tickets
  <2> QED
    BY <2>1, <2>5, <1>t DEF HandsHaveMoved
<1>r. ASSUME NEW k \in Keys, SyncReads(k)
      PROVE  HandsHaveMoved'
  <2>1. UNCHANGED <<tickets, hand, ahead>> /\ queue'.todo = queue.todo /\ queue.at = "syncing" /\ FirstOf(queue.todo, k)
    BY <1>r, <1>t DEF SyncReads, worldVars, Queues
  <2>2. snap'[k] = tickets[k]
    BY <1>r, <1>t DEF SyncReads
  <2>4. \A j \in Keys : FirstOf(queue.todo, j) => j = k
    BY <2>1, <1>t, OneIsFirst
  <2> QED
    BY <2>1, <2>2, <2>4, <1>t DEF HandsHaveMoved, FirstOf
<1>b. CASE Tick
  <2>1. queue'.at = "syncing" /\ UNCHANGED <<tickets, hand>>
    BY <1>b, <1>t DEF Tick, Queues
  <2>2. \A k \in queue'.todo : tickets[k].state \in {"pr_open", "provisioning"}
    BY <1>b, <1>t DEF Tick, STRANDED_STATES, Queues
  <2> QED
    BY <2>1, <2>2 DEF HandsHaveMoved
<1>8. CASE Decide
  <2>1. PICK sealed \in SUBSET SnapOpen : DecideOn(sealed)
    BY <1>8 DEF Decide
  <2>2. ASSUME NEW k \in Keys, tickets'[k].state \in {"ready", "blocked"}
        PROVE  tickets[k].state \in {"ready", "blocked"}
    BY <2>1, <2>2 DEF DecideOn, Considered, MovedSince
  <2> QED
    BY <1>8, <2>1, <2>2, <1>t, <1>same DEF Decide, DecideOn, Queues
<1>9. ASSUME NEW k \in Keys, LeaveLevel(k)
      PROVE  HandsHaveMoved'
  <2>1. hand' = hand /\ other /\ (tickets' = tickets \/ tickets' = [tickets EXCEPT ![k].failed = 0])
    BY <1>9, <1>t DEF LeaveLevel, Queues
  <2> QED
    BY <2>1, <1>same, <1>t DEF Tickets
<1>10. ASSUME UNCHANGED <<tickets, hand>>, still \/ other
       PROVE  HandsHaveMoved'
  BY <1>10, <1>same
<1>11. CASE QueueSteps
  <2>1. ASSUME ReadStore \/ LevelEnds \/ Start \/ Drain \/ Stop \/ (\E k \in Keys : Relevel(k) \/ LevelLooks(k))
        PROVE  UNCHANGED <<tickets, hand>> /\ other
    BY <2>1, <1>t DEF ReadStore, LevelEnds, Start, Asleep, Drain, Stop, Relevel, LevelLooks, Queues
  <2> QED
    BY <1>11, <1>7, <1>r, <1>b, <1>8, <1>9, <1>10, <2>1 DEF QueueSteps
<1>12. ASSUME Signal \/ Pause \/ BasePushed \/ UNCHANGED vars \/ (\E k \in Keys : PersonEnds(k))
       PROVE  UNCHANGED <<tickets, hand>> /\ still
  BY <1>12, <1>t DEF Signal, Pause, BasePushed, vars, PersonEnds, queueVars, Queues
<1> QED
  BY <1>1, <1>2, <1>3, <1>4, <1>5, <1>6, <1>10, <1>11, <1>12 DEF Next, ProcessSteps

LEMMA StartInit == Init => StartInv
<1> SUFFICES ASSUME Init
             PROVE  StartInv
  OBVIOUS
<1> QED
  BY DEF Init, StartInv, ReadingIsCurrent, Reading, ReadyIsClear, HandsHaveMoved

LEMMA StartStep == TypeOK /\ OrderOfThePlan /\ WritesAreSeen /\ StartInv /\ [Next]_vars => StartInv'
<1> SUFFICES ASSUME TypeOK, OrderOfThePlan, WritesAreSeen, StartInv, [Next]_vars
             PROVE  StartInv'
  OBVIOUS
<1>t. queue \in Queues
  BY DEF TypeOK
<1>1. HandsHaveMoved'
  BY HandsStep DEF StartInv
<1>2. ASSUME Marks
      PROVE  ReadingIsCurrent' /\ ReadyIsClear'
  BY <1>2, MarksKeep DEF StartInv
<1>3. ASSUME queue'.at \notin {"sealing", "levelling", "looking"}
      PROVE  ReadingIsCurrent' /\ ReadyIsClear'
  BY <1>3 DEF ReadingIsCurrent, Reading, ReadyIsClear
<1>4. CASE ReadStore
  <2>1. /\ queue'.at = "sealing" /\ snap' = tickets /\ tickets' = tickets
        /\ changed' = changed /\ changed.stamped = {}
    BY <1>4, <1>t DEF ReadStore, WritesAreSeen, Reading, Queues
  <2> QED
    BY <1>1, <2>1 DEF StartInv, ReadingIsCurrent, ReadyIsClear
<1>5. CASE Decide
  BY <1>1, <1>5, DecideKeeps DEF StartInv
<1>6. ASSUME Tick \/ Start \/ Drain \/ Stop \/ \E k \in Keys : SyncReads(k) \/ Sync(k) \/ SyncMerges(k)
      PROVE  queue'.at \notin {"sealing", "levelling", "looking"}
  BY <1>6, <1>t DEF Tick, Start, Drain, Stop, Asleep, SyncReads, Sync, SyncMerges, Queues
<1>7. ASSUME \E k \in Keys : LevelLooks(k) \/ LeaveLevel(k) \/ Relevel(k) \/ LevelEnds
      PROVE  Marks
  BY <1>7, QueueMarks
<1>8. CASE LevelEnds
  <2>1. PICK k \in Keys : TRUE
    BY <1>8, <1>t DEF LevelEnds, LevelNext, Queues
  <2> QED
    BY <1>1, <1>2, <1>7, <1>8, <2>1 DEF StartInv
<1>9. ReadingIsCurrent' /\ ReadyIsClear'
  BY <1>2, <1>3, <1>4, <1>5, <1>6, <1>7, <1>8, OthersMark DEF QueueSteps, StartInv
<1> QED
  BY <1>1, <1>9 DEF StartInv

(* Only the end of a tick makes a child that is a run. *)
LEMMA NewRuns ==
  ASSUME TypeOK, [Next]_vars, NEW k \in Keys,
         child[k] = NoChild, child'[k] # NoChild, child'[k].kind = "run"
  PROVE  Start /\ k \in queue.ready /\ queue.at = "levelling"
<1>t. child \in [Keys -> Children] /\ child[k].stage = "none"
  BY DEF TypeOK, NoChild
<1>1. CASE Start
  BY <1>1, <1>t DEF Start, Started
<1>2. ASSUME NEW j \in Keys, Relevel(j)
      PROVE  FALSE
  BY <1>2, <1>t DEF Relevel
<1>3. CASE child' = child
  BY <1>3
<1>4. CASE QueueSteps /\ ~Start /\ (\A j \in Keys : ~Relevel(j))
  BY <1>3, <1>4 DEF QueueSteps, Tick, SyncReads, Sync, SyncMerges, ReadStore, Decide, LevelLooks, LeaveLevel, LevelEnds,
                         Drain, Stop
<1>to. ASSUME NEW p \in Processes, NEW j \in Keys, NEW x, StageOf(p, j) # "none", To(p, j, x)
       PROVE  FALSE
  BY <1>to, <1>t DEF To, StageOf
<1>5. ASSUME NEW p \in Processes, NEW j \in Keys, RunSteps(p, j)
      PROVE  FALSE
  <2>1. PICK x : To(p, j, x) /\ StageOf(p, j) # "none"
    BY <1>5 DEF RunSteps, RunStarts, TakeLock, RunPublishes, RunFails, RunFinishes
  <2> QED
    BY <2>1, <1>to
<1>6. ASSUME NEW j \in Keys, RelevelStarts(j) \/ RelevelEnds(j)
      PROVE  FALSE
  <2>1. PICK x : To("child", j, x) /\ StageOf("child", j) # "none"
    BY <1>6 DEF RelevelStarts, RelevelEnds, StageOf
  <2> QED
    BY <2>1, <1>to DEF Processes
<1>7. ASSUME NEW p \in Processes, NEW j \in Keys, Dies(p, j)
      PROVE  FALSE
  BY <1>7, <1>to DEF Dies
<1>8. ASSUME NEW j \in Keys, ChildExits(j)
      PROVE  FALSE
  BY <1>8, <1>t DEF ChildExits
<1>9. ASSUME Signal \/ Pause \/ BasePushed \/ UNCHANGED vars
               \/ (\E j \in Keys : StartByHand(j) \/ EditApproach(j) \/ PersonEnds(j))
      PROVE  child' = child
  BY <1>9 DEF Signal, Pause, BasePushed, vars, StartByHand, EditApproach, PersonEnds
<1> QED
  BY <1>1, <1>2, <1>3, <1>4, <1>5, <1>6, <1>7, <1>8, <1>9 DEF Next, ProcessSteps

LEMMA StartsInTheClear ==
  ASSUME TypeOK, StartInv, [Next]_vars, NEW k \in Keys,
         child[k] = NoChild, child'[k] # NoChild, child'[k].kind = "run", k \notin changed.written
  PROVE  /\ DependencyWaits(plan, State, k) \union Overlapping(k) \subseteq changed.written
         /\ hand[k] \in {"none", "spawned"}
<1>1. queue.at = "levelling" /\ k \in queue.ready
  BY NewRuns
<1>2. snap[k].state = "ready" /\ InTheWay(k, snap) \subseteq changed.written
  BY <1>1 DEF StartInv, ReadyIsClear
<1>3. \A j \in Keys \ changed.written : tickets[j] = snap[j]
  BY <1>1 DEF StartInv, ReadingIsCurrent, Reading
<1>4. DependencyWaits(plan, State, k) \union Overlapping(k) = InTheWay(k, tickets)
  BY DEF Overlapping, InTheWay, State
<1>5. ASSUME NEW w \in InTheWay(k, tickets), w \notin changed.written
      PROVE  FALSE
  <2>1. w \in Keys => tickets[w].state = snap[w].state
    BY <1>3, <1>5
  <2>2. w \in InTheWay(k, snap)
    BY <1>5, <2>1, SameInTheWay
  <2> QED
    BY <1>2, <1>5, <2>2
<1>6. hand[k] \in {"none", "spawned"}
  BY <1>2, <1>3 DEF StartInv, HandsHaveMoved
<1> QED
  BY <1>4, <1>5, <1>6

-----------------------------------------------------------------------------
(* The invariant of the queue: its types, its children within the ceiling  *)
(* and among the runs the tick knows of, every write of a record seen,     *)
(* every tip a re-level failed at answered for, and what is to be started  *)
(* clear of all that nobody wrote since.                                   *)
IInv == TypeOK /\ CapacityInv /\ WritesAreSeen /\ RelevelInv /\ StartInv

LEMMA InitIInv == Init => IInv
<1> SUFFICES ASSUME Init
             PROVE  IInv
  OBVIOUS
<1>1. TypeOK /\ CapacityInv
  BY TypeInit, CapacityInit
<1>2. WritesAreSeen
  BY DEF Init, WritesAreSeen
<1>3. TipsAreAnswered /\ ReadingsHold
  BY DEF Init, TipsAreAnswered, ReadingsHold, NoChild
<1>4. StartInv
  BY StartInit
<1> QED
  BY <1>1, <1>2, <1>3, <1>4 DEF IInv, RelevelInv

LEMMA StepIInv == IInv /\ [Next]_vars => IInv'
<1> SUFFICES ASSUME IInv, [Next]_vars
             PROVE  IInv'
  OBVIOUS
<1>1. TypeOK' /\ CapacityInv'
  BY TypeStep, CapacityStep DEF IInv
<1>2. WritesAreSeen'
  BY WritesStep DEF IInv, CapacityInv
<1>3. RelevelInv'
  BY RelevelStep DEF IInv, CapacityInv
<1>4. StartInv'
  BY StartStep DEF IInv, CapacityInv
<1> QED
  BY <1>1, <1>2, <1>3, <1>4 DEF IInv

LEMMA Invariant == Spec => []IInv
  BY InitIInv, StepIInv, PTL DEF Spec

(* For every store, plan and capacity, what the queue and its children     *)
(* hold is what it is meant to be.                                         *)
THEOREM TypeCorrect == Spec => []TypeOK
  BY Invariant, PTL DEF IInv

(* The queue never has more children than `concurrent_local_attempts`,     *)
(* however runs come and go between its readings of their locks.           *)
THEOREM Ceiling == Spec => []ChildrenWithinCapacity
  BY Invariant, PTL DEF IInv, CapacityInv

(* A record written since the tick read it is never written over by what   *)
(* the tick decided of it.                                                 *)
THEOREM DecisionsYield == Spec => DecisionsOverWhatTheyRead
<1>1. IInv /\ [Next]_vars => [\A k \in Keys : Decide /\ k \in changed.written => tickets'[k] = tickets[k]]_vars
  BY DecideStep DEF IInv
<1> QED
  BY <1>1, Invariant, PTL DEF Spec, DecisionsOverWhatTheyRead

(* No branch is re-levelled twice at a tip it could not be levelled to,    *)
(* though its failure is recorded in the middle of another tick, unless a  *)
(* sync that had read the ticket before wrote over that record.            *)
THEOREM OneRelevelATip == Spec => RelevelledOnceATip
<1>1. IInv /\ [Next]_vars =>
        [\A k \in Keys :
           (child[k] = NoChild /\ child'[k].kind = "relevel") => child'[k].tip \notin tried[k] \ erased[k]]_vars
  BY NewRelevels DEF IInv
<1> QED
  BY <1>1, Invariant, PTL DEF Spec, RelevelledOnceATip

(* A ticket the queue starts has nothing in its way, neither a dependency  *)
(* nor another ticket of its scope nor a run by hand, but what was written *)
(* since the tick read the store.                                          *)
THEOREM StartsInTheClearOnly == Spec => StartsAreClear
<1>1. IInv /\ [Next]_vars =>
        [\A k \in Keys :
           (child[k] = NoChild /\ child'[k] # NoChild /\ child'[k].kind = "run" /\ k \notin changed.written)
             => /\ DependencyWaits(plan, State, k) \union Overlapping(k) \subseteq changed.written
                /\ hand[k] \in {"none", "spawned"}]_vars
  BY StartsInTheClear DEF IInv
<1> QED
  BY <1>1, Invariant, PTL DEF Spec, StartsAreClear
=============================================================================
