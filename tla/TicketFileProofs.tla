-------------------------- MODULE TicketFileProofs --------------------------
(***************************************************************************)
(* What TicketFile keeps for any number of runs, syncs and pull requests.  *)
(* The first half is about the functions of TicketRecord: the lifecycle    *)
(* table, a transition, a reopening, a walk.  A walk is a recursive        *)
(* function; what it does along a path of any length is proved by          *)
(* induction over a set of numbers.                                        *)
(***************************************************************************)
EXTENDS TicketFile, SequenceTheorems, WellFoundedInduction, TLAPS

-----------------------------------------------------------------------------
(* Natural numbers, without an operator as parameter. *)

(* A set of numbers that is not empty has a least one. *)
LEMMA Least ==
  ASSUME NEW T, T \subseteq Nat, T # {}
  PROVE  \E x \in T : \A y \in T : x <= y
<1> DEFINE L == OpToRel(<, Nat)
<1>1. IsWellFoundedOn(L, Nat)
  BY NatLessThanWellFounded
<1>2. PICK x \in T : \A y \in T : ~ (<<y, x>> \in L)
  <2> HIDE DEF L
  <2> QED
    BY <1>1, WFMin
<1>3. \A y \in T : <<y, x>> \in L <=> y < x
  BY <1>2 DEF OpToRel
<1> HIDE DEF L
<1>4. ASSUME NEW y \in T
      PROVE  x <= y
  <2>1. ~(y < x)
    BY <1>2, <1>3
  <2> QED
    BY <2>1
<1> QED
  BY <1>4

(* A set with 0, and with n + 1 for each n of its own, has every number. *)
LEMMA SetInduction ==
  ASSUME NEW S, 0 \in S, \A n \in Nat : n \in S => n + 1 \in S
  PROVE  Nat \subseteq S
<1> DEFINE T == Nat \ S
<1>1. SUFFICES ASSUME T # {} PROVE FALSE
  OBVIOUS
<1>2. PICK x \in T : \A y \in T : x <= y
  <2>1. T \subseteq Nat
    OBVIOUS
  <2> HIDE DEF T
  <2> QED
    BY <1>1, <2>1, Least
<1>3. x \in Nat /\ x \notin S /\ x # 0
  BY <1>2
<1>4. x - 1 \in Nat /\ (x - 1) + 1 = x
  BY <1>3
<1>5. x - 1 \in T
  BY <1>3, <1>4
<1> QED
  BY <1>2, <1>3, <1>5

-----------------------------------------------------------------------------
(* The lifecycle table. *)

(* What each row is. *)
LEMMA Table ==
  /\ DOMAIN TICKET_TRANSITIONS = 1 .. 29
  /\ TICKET_TRANSITIONS[1] = Row("plan_review", "ready", "always")
  /\ TICKET_TRANSITIONS[2] = Row("plan_review", "cancelled", "always")
  /\ TICKET_TRANSITIONS[3] = Row("ready", "provisioning", "always")
  /\ TICKET_TRANSITIONS[4] = Row("ready", "cancelled", "always")
  /\ TICKET_TRANSITIONS[5] = Row("ready", "blocked", "always")
  /\ TICKET_TRANSITIONS[6] = Row("ready", "plan_invalid", "always")
  /\ TICKET_TRANSITIONS[7] = Row("blocked", "ready", "always")
  /\ TICKET_TRANSITIONS[8] = Row("blocked", "cancelled", "always")
  /\ TICKET_TRANSITIONS[9] = Row("provisioning", "executing", "always")
  /\ TICKET_TRANSITIONS[10] = Row("provisioning", "failed", "always")
  /\ TICKET_TRANSITIONS[11] = Row("executing", "verifying", "always")
  /\ TICKET_TRANSITIONS[12] = Row("executing", "failed", "always")
  /\ TICKET_TRANSITIONS[13] = Row("executing", "cancelled", "always")
  /\ TICKET_TRANSITIONS[14] = Row("executing", "pr_open", "direct_arm")
  /\ TICKET_TRANSITIONS[15] = Row("verifying", "independent_review", "always")
  /\ TICKET_TRANSITIONS[16] = Row("verifying", "failed", "always")
  /\ TICKET_TRANSITIONS[17] = Row("independent_review", "pr_open", "always")
  /\ TICKET_TRANSITIONS[18] = Row("provisioning", "pr_open", "decided_delivery")
  /\ TICKET_TRANSITIONS[19] = Row("provisioning", "changes_requested", "answers_owed")
  /\ TICKET_TRANSITIONS[20] = Row("independent_review", "changes_requested", "always")
  /\ TICKET_TRANSITIONS[21] = Row("independent_review", "failed", "always")
  /\ TICKET_TRANSITIONS[22] = Row("changes_requested", "ready", "always")
  /\ TICKET_TRANSITIONS[23] = Row("changes_requested", "cancelled", "always")
  /\ TICKET_TRANSITIONS[24] = Row("failed", "ready", "always")
  /\ TICKET_TRANSITIONS[25] = Row("pr_open", "merged", "always")
  /\ TICKET_TRANSITIONS[26] = Row("pr_open", "closed", "pull_request_closed")
  /\ TICKET_TRANSITIONS[27] = Row("pr_open", "changes_requested", "pull_request_closed")
  /\ TICKET_TRANSITIONS[28] = Row("closed", "ready", "always")
  /\ TICKET_TRANSITIONS[29] = Row("failed", "pr_open", "always")
<1>1. DOMAIN TICKET_TRANSITIONS = 1 .. 29
  BY DEF TICKET_TRANSITIONS
<1>2. /\ TICKET_TRANSITIONS[1] = Row("plan_review", "ready", "always")
      /\ TICKET_TRANSITIONS[2] = Row("plan_review", "cancelled", "always")
      /\ TICKET_TRANSITIONS[3] = Row("ready", "provisioning", "always")
      /\ TICKET_TRANSITIONS[4] = Row("ready", "cancelled", "always")
      /\ TICKET_TRANSITIONS[5] = Row("ready", "blocked", "always")
      /\ TICKET_TRANSITIONS[6] = Row("ready", "plan_invalid", "always")
      /\ TICKET_TRANSITIONS[7] = Row("blocked", "ready", "always")
      /\ TICKET_TRANSITIONS[8] = Row("blocked", "cancelled", "always")
      /\ TICKET_TRANSITIONS[9] = Row("provisioning", "executing", "always")
      /\ TICKET_TRANSITIONS[10] = Row("provisioning", "failed", "always")
  BY DEF TICKET_TRANSITIONS
<1>3. /\ TICKET_TRANSITIONS[11] = Row("executing", "verifying", "always")
      /\ TICKET_TRANSITIONS[12] = Row("executing", "failed", "always")
      /\ TICKET_TRANSITIONS[13] = Row("executing", "cancelled", "always")
      /\ TICKET_TRANSITIONS[14] = Row("executing", "pr_open", "direct_arm")
      /\ TICKET_TRANSITIONS[15] = Row("verifying", "independent_review", "always")
      /\ TICKET_TRANSITIONS[16] = Row("verifying", "failed", "always")
      /\ TICKET_TRANSITIONS[17] = Row("independent_review", "pr_open", "always")
      /\ TICKET_TRANSITIONS[18] = Row("provisioning", "pr_open", "decided_delivery")
      /\ TICKET_TRANSITIONS[19] = Row("provisioning", "changes_requested", "answers_owed")
      /\ TICKET_TRANSITIONS[20] = Row("independent_review", "changes_requested", "always")
  BY DEF TICKET_TRANSITIONS
<1>4. /\ TICKET_TRANSITIONS[21] = Row("independent_review", "failed", "always")
      /\ TICKET_TRANSITIONS[22] = Row("changes_requested", "ready", "always")
      /\ TICKET_TRANSITIONS[23] = Row("changes_requested", "cancelled", "always")
      /\ TICKET_TRANSITIONS[24] = Row("failed", "ready", "always")
      /\ TICKET_TRANSITIONS[25] = Row("pr_open", "merged", "always")
      /\ TICKET_TRANSITIONS[26] = Row("pr_open", "closed", "pull_request_closed")
      /\ TICKET_TRANSITIONS[27] = Row("pr_open", "changes_requested", "pull_request_closed")
      /\ TICKET_TRANSITIONS[28] = Row("closed", "ready", "always")
      /\ TICKET_TRANSITIONS[29] = Row("failed", "pr_open", "always")
  BY DEF TICKET_TRANSITIONS
<1> QED
  BY <1>1, <1>2, <1>3, <1>4, Zenon

LEMMA RowFields ==
  ASSUME NEW from, NEW to, NEW guard
  PROVE  /\ Row(from, to, guard).from = from
         /\ Row(from, to, guard).to = to
         /\ Row(from, to, guard).when = guard
  BY DEF Row

LEMMA RowsAreTheTable ==
  \A row : row \in Rows <=> \E i \in 1 .. 29 : row = TICKET_TRANSITIONS[i]
  BY Table DEF Rows, ToSet

(* A row starts and ends at two states. *)
LEMMA RowsLeadOn ==
  ASSUME NEW row \in Rows
  PROVE  row.from \in States /\ row.to \in States /\ row.from # row.to
<1>1. PICK i \in 1 .. 29 : row = TICKET_TRANSITIONS[i]
  BY RowsAreTheTable
<1> QED
  BY <1>1, Table, RowFields DEF States

(* Any record may go where the table says `always`. *)
LEMMA AlwaysLegal ==
  ASSUME NEW from, NEW to, Row(from, to, "always") \in Rows,
         NEW t, t.state = from, NEW note
  PROVE  Legal(t, to, note)
  BY DEF Legal, Admits, Row

LEMMA AlwaysRows ==
  /\ Row("ready", "provisioning", "always") \in Rows
  /\ Row("ready", "plan_invalid", "always") \in Rows
  /\ Row("provisioning", "executing", "always") \in Rows
  /\ Row("provisioning", "failed", "always") \in Rows
  /\ Row("executing", "verifying", "always") \in Rows
  /\ Row("verifying", "independent_review", "always") \in Rows
  /\ Row("verifying", "failed", "always") \in Rows
  /\ Row("independent_review", "pr_open", "always") \in Rows
  /\ Row("independent_review", "changes_requested", "always") \in Rows
  /\ Row("independent_review", "failed", "always") \in Rows
  /\ Row("failed", "ready", "always") \in Rows
  /\ Row("failed", "pr_open", "always") \in Rows
  /\ Row("pr_open", "merged", "always") \in Rows
  BY Table, RowsAreTheTable

LEMMA GuardedRows ==
  /\ Row("provisioning", "pr_open", "decided_delivery") \in Rows
  /\ Row("provisioning", "changes_requested", "answers_owed") \in Rows
  /\ Row("pr_open", "closed", "pull_request_closed") \in Rows
  /\ Row("pr_open", "changes_requested", "pull_request_closed") \in Rows
  BY Table, RowsAreTheTable

-----------------------------------------------------------------------------
(* A record, and what a transition makes of it. *)

Said ==
  {"run_started", "spec_is_stale", "answers_owed", "new_attempt_after", "reopened_through",
   "observed", "approved", "gate_closed", "did_not_complete", "decided_delivery",
   "reconciled", "merged", "closed_without_merging", "handed_off", "resumed",
   "opener_not_recorded"}

Notes == Said \X (States \union {"none"})

HistoryRows == [from: States, to: States, note: Notes]

DeliveryRecords ==
  [branch: BOOLEAN, number: Nat, state: {"none", "open", "closed", "merged"},
   openedBy: Openers, arm: {"loop"}]

TicketRecords == [state: States, history: Seq(HistoryRows), delivery: DeliveryRecords]

Edges == {<<row.from, row.to>> : row \in Rows}

(* HistoryIsALifecycle, of any record. *)
IsALifecycle(t) ==
  /\ \A i \in 1 .. Len(t.history) : <<t.history[i].from, t.history[i].to>> \in Edges
  /\ \A i \in 1 .. Len(t.history) - 1 : t.history[i].to = t.history[i + 1].from
  /\ t.history # <<>> => t.history[Len(t.history)].to = t.state

(* Rows are only ever appended. *)
Extends(new, old) ==
  /\ Len(new.history) >= Len(old.history)
  /\ \A i \in 1 .. Len(old.history) : new.history[i] = old.history[i]

LEMMA RecordFields ==
  ASSUME NEW t \in TicketRecords
  PROVE  /\ t.state \in States
         /\ t.history \in Seq(HistoryRows)
         /\ Len(t.history) \in Nat
         /\ DOMAIN t.history = 1 .. Len(t.history)
         /\ \A i \in 1 .. Len(t.history) : t.history[i] \in HistoryRows
         /\ t.delivery \in DeliveryRecords
<1>1. /\ t.state \in States
      /\ t.history \in Seq(HistoryRows)
      /\ t.delivery \in DeliveryRecords
  BY DEF TicketRecords
<1> QED
  BY <1>1, LenProperties, ElementOfSeq

LEMMA ExtendsItself ==
  ASSUME NEW t \in TicketRecords
  PROVE  Extends(t, t)
  BY RecordFields DEF Extends

LEMMA ExtendsFurther ==
  ASSUME NEW t \in TicketRecords, NEW u \in TicketRecords, NEW v \in TicketRecords,
         Extends(u, t), Extends(v, u)
  PROVE  Extends(v, t)
<1>1. Len(t.history) \in Nat /\ Len(u.history) \in Nat /\ Len(v.history) \in Nat
  BY RecordFields
<1> QED
  BY <1>1 DEF Extends

LEMMA TransitionIs ==
  ASSUME NEW t \in TicketRecords, NEW to \in States, NEW note \in Notes,
         NEW u, u = Transition(t, to, note)
  PROVE  /\ u \in TicketRecords
         /\ u.state = to
         /\ u.delivery = t.delivery
         /\ Len(u.history) = Len(t.history) + 1
         /\ u.history[Len(t.history) + 1] = [from |-> t.state, to |-> to, note |-> note]
         /\ Extends(u, t)
<1> DEFINE row == [from |-> t.state, to |-> to, note |-> note]
<1>1. /\ t.state \in States
      /\ t.history \in Seq(HistoryRows)
      /\ Len(t.history) \in Nat
      /\ t.delivery \in DeliveryRecords
  BY RecordFields
<1>2. row \in HistoryRows
  BY <1>1 DEF HistoryRows
<1>3. /\ Append(t.history, row) \in Seq(HistoryRows)
      /\ Len(Append(t.history, row)) = Len(t.history) + 1
      /\ \A i \in 1 .. Len(t.history) : Append(t.history, row)[i] = t.history[i]
      /\ Append(t.history, row)[Len(t.history) + 1] = row
  BY <1>1, <1>2, AppendProperties
<1>4. u = [state |-> to, history |-> Append(t.history, row), delivery |-> t.delivery]
  BY DEF Transition, TicketRecords
<1> HIDE DEF row
<1>5. /\ u.state = to
      /\ u.history = Append(t.history, row)
      /\ u.delivery = t.delivery
  BY <1>4
<1>6. u \in TicketRecords
  BY <1>1, <1>3, <1>4 DEF TicketRecords
<1>7. Extends(u, t)
  BY <1>1, <1>3, <1>5 DEF Extends
<1> QED
  BY <1>3, <1>5, <1>6, <1>7 DEF row

(* A legal transition leaves a path of the lifecycle one row longer. *)
LEMMA LegalTransition ==
  ASSUME NEW t \in TicketRecords, IsALifecycle(t),
         NEW to, NEW note \in Notes, Legal(t, to, note),
         NEW u, u = Transition(t, to, note)
  PROVE  /\ to \in States
         /\ u \in TicketRecords
         /\ IsALifecycle(u)
<1>1. PICK row \in Rows : row.from = t.state /\ row.to = to
  BY DEF Legal
<1>2. to \in States /\ <<t.state, to>> \in Edges
  BY <1>1, RowsLeadOn DEF Edges
<1> DEFINE n == Len(t.history)
           last == [from |-> t.state, to |-> to, note |-> note]
<1>3. /\ u \in TicketRecords
      /\ u.state = to
      /\ Len(u.history) = n + 1
      /\ u.history[n + 1] = last
      /\ \A i \in 1 .. n : u.history[i] = t.history[i]
  BY <1>2, TransitionIs DEF Extends
<1>4. n \in Nat
  BY RecordFields
<1>5. last.from = t.state /\ last.to = to
  OBVIOUS
<1> HIDE DEF n, last
<1>6. ASSUME NEW i \in 1 .. n + 1
      PROVE  <<u.history[i].from, u.history[i].to>> \in Edges
  <2>1. CASE i = n + 1
    BY <2>1, <1>2, <1>3, <1>5
  <2>2. CASE i # n + 1
    <3>1. i \in 1 .. n
      BY <2>2, <1>4
    <3> QED
      BY <3>1, <1>3 DEF IsALifecycle, n
  <2> QED
    BY <2>1, <2>2
<1>7. ASSUME NEW i \in 1 .. n
      PROVE  u.history[i].to = u.history[i + 1].from
  <2>1. CASE i = n
    <3>1. t.history # <<>> /\ t.history[n].to = t.state
      <4>1. t.history # <<>>
        BY <2>1, <1>4 DEF n
      <4> QED
        BY <4>1 DEF IsALifecycle, n
    <3>2. u.history[i] = t.history[n] /\ u.history[i + 1] = last
      BY <2>1, <1>3
    <3> QED
      BY <3>1, <3>2, <1>5
  <2>2. CASE i # n
    <3>1. i \in 1 .. n - 1 /\ i + 1 \in 1 .. n
      BY <2>2, <1>4
    <3>2. t.history[i].to = t.history[i + 1].from
      BY <3>1 DEF IsALifecycle, n
    <3> QED
      BY <3>1, <3>2, <1>3
  <2> QED
    BY <2>1, <2>2
<1>8. u.history[n + 1].to = u.state
  BY <1>3, <1>5
<1>9. Len(u.history) - 1 = n
  BY <1>3, <1>4
<1> QED
  BY <1>2, <1>3, <1>6, <1>7, <1>8, <1>9 DEF IsALifecycle

-----------------------------------------------------------------------------
(* Walks. *)

Steps == States \X Notes

(* A walk is the function its definition says: there is one, and CHOOSE    *)
(* finds it.                                                               *)
LEMMA WalkedIs ==
  ASSUME NEW t, NEW p, Len(p) \in Nat
  PROVE  Walked(t, p) =
           [i \in 0 .. Len(p) |-> IF i = 0 THEN t ELSE WalkStep(Walked(t, p)[i - 1], p[i])]
<1> DEFINE Stepped(f, n) == [i \in 0 .. n |-> IF i = 0 THEN t ELSE WalkStep(f[i - 1], p[i])]
           Is(f) == f = Stepped(f, Len(p))
           S == {n \in Nat : \E f : f = Stepped(f, n)}
<1>1. Walked(t, p) = CHOOSE f : Is(f)
  BY DEF Walked
<1>2. 0 \in S
  <2>1. [i \in 0 .. 0 |-> t] = Stepped([i \in 0 .. 0 |-> t], 0)
    OBVIOUS
  <2> QED
    BY <2>1, Zenon
<1>3. ASSUME NEW n \in Nat, n \in S
      PROVE  n + 1 \in S
  <2>1. PICK f : f = Stepped(f, n)
    BY <1>3
  <2> DEFINE g == [i \in 0 .. n + 1 |-> IF i = n + 1 THEN WalkStep(f[n], p[n + 1]) ELSE f[i]]
  <2>2. g = Stepped(g, n + 1)
    <3>1. ASSUME NEW i \in 0 .. n + 1
          PROVE  g[i] = Stepped(g, n + 1)[i]
      <4>1. CASE i = n + 1
        BY <4>1
      <4>2. CASE i # n + 1
        <5>1. i \in 0 .. n /\ f[i] = IF i = 0 THEN t ELSE WalkStep(f[i - 1], p[i])
          BY <2>1, <4>2
        <5> QED
          BY <5>1, <4>2
      <4> QED
        BY <4>1, <4>2
    <3> QED
      BY <3>1
  <2> QED
    BY <2>2, n + 1 \in Nat
<1>4. Len(p) \in S
  <2> HIDE DEF S
  <2> QED
    BY <1>2, <1>3, SetInduction
<1>5. \E f : Is(f)
  BY <1>4
<1>6. Is(CHOOSE f : Is(f))
  <2> HIDE DEF Is
  <2> QED
    BY <1>5, Zenon
<1> QED
  BY <1>1, <1>6

LEMMA WalkedSteps ==
  ASSUME NEW t, NEW p, Len(p) \in Nat
  PROVE  /\ Walked(t, p)[0] = t
         /\ \A i \in 1 .. Len(p) : Walked(t, p)[i] = WalkStep(Walked(t, p)[i - 1], p[i])
<1>1. Len(p) \in Nat
  OBVIOUS
<1> DEFINE W == Walked(t, p)
<1>2. W = [i \in 0 .. Len(p) |-> IF i = 0 THEN t ELSE WalkStep(W[i - 1], p[i])]
  BY <1>1, WalkedIs
<1> HIDE DEF W
<1>3. W[0] = t
  BY <1>1, <1>2
<1>4. ASSUME NEW i \in 1 .. Len(p)
      PROVE  W[i] = WalkStep(W[i - 1], p[i])
  <2>1. i \in 0 .. Len(p) /\ i # 0
    BY <1>1
  <2> QED
    BY <1>2, <2>1
<1> QED
  BY <1>3, <1>4 DEF W

LEMMA WalkNothing ==
  ASSUME NEW t
  PROVE  ApplyObservedPath(t, <<>>) = t
<1>1. Len(<<>>) = 0
  BY EmptySeq
<1> QED
  BY <1>1, WalkedSteps DEF ApplyObservedPath

(* The path q is p and then x. *)
OneMore(q, p, x) ==
  /\ Len(q) = Len(p) + 1
  /\ \A i \in 1 .. Len(p) : q[i] = p[i]
  /\ q[Len(q)] = x

(* A path one step longer is walked one step further. *)
LEMMA WalkFurther ==
  ASSUME NEW t, NEW p, NEW q, NEW x, Len(p) \in Nat, OneMore(q, p, x)
  PROVE  ApplyObservedPath(t, q) = WalkStep(ApplyObservedPath(t, p), x)
<1> DEFINE V == Walked(t, p)
           W == Walked(t, q)
           Same == {i \in Nat : i <= Len(p) => W[i] = V[i]}
<1>1. /\ Len(p) \in Nat
      /\ Len(q) = Len(p) + 1
      /\ \A i \in 1 .. Len(p) : q[i] = p[i]
      /\ q[Len(q)] = x
  BY DEF OneMore
<1>2. V[0] = t /\ \A i \in 1 .. Len(p) : V[i] = WalkStep(V[i - 1], p[i])
  BY WalkedSteps
<1>3. W[0] = t /\ \A i \in 1 .. Len(q) : W[i] = WalkStep(W[i - 1], q[i])
  BY <1>1, WalkedSteps
<1> HIDE DEF V, W
<1>4. 0 \in Same
  BY <1>2, <1>3
<1>5. ASSUME NEW i \in Nat, i \in Same
      PROVE  i + 1 \in Same
  <2>1. SUFFICES ASSUME i + 1 <= Len(p)
                 PROVE  W[i + 1] = V[i + 1]
    OBVIOUS
  <2>2. i + 1 \in 1 .. Len(p) /\ i + 1 \in 1 .. Len(q) /\ (i + 1) - 1 = i /\ i <= Len(p)
    BY <2>1, <1>1
  <2>3. W[i + 1] = WalkStep(W[i], p[i + 1])
    BY <2>2, <1>3, <1>1
  <2>4. V[i + 1] = WalkStep(V[i], p[i + 1])
    BY <2>2, <1>2
  <2>5. W[i] = V[i]
    BY <1>5, <2>2
  <2> QED
    BY <2>3, <2>4, <2>5
<1>6. Len(p) \in Same
  <2> HIDE DEF Same
  <2> QED
    BY <1>1, <1>4, <1>5, SetInduction
<1>7. W[Len(p)] = V[Len(p)]
  BY <1>6, <1>1
<1>8. Len(q) \in 1 .. Len(q) /\ Len(q) - 1 = Len(p)
  BY <1>1
<1>9. W[Len(q)] = WalkStep(W[Len(p)], q[Len(q)])
  BY <1>8, <1>3
<1>10. q[Len(q)] = x
  BY <1>1
<1> QED
  BY <1>7, <1>9, <1>10 DEF ApplyObservedPath, V, W

(* What a walk along steps of S makes of t. *)
Along(v, t, S) ==
  /\ v \in TicketRecords
  /\ IsALifecycle(v)
  /\ Extends(v, t)
  /\ v.delivery = t.delivery
  /\ v.state = t.state \/ \E x \in S : v.state = x[1]
  /\ v.state # t.state => Len(v.history) > Len(t.history)
  /\ \A j \in Len(t.history) + 1 .. Len(v.history) :
       \E x \in S :
         /\ v.history[j].to = x[1]
         /\ v.history[j].note = x[2]
         /\ v.history[j].from = t.state \/ \E y \in S : v.history[j].from = y[1]

LEMMA StepAlong ==
  ASSUME NEW t \in TicketRecords, NEW S, S \subseteq Steps, NEW v, Along(v, t, S), NEW x \in S
  PROVE  Along(WalkStep(v, x), t, S)
<1> DEFINE u == Transition(v, x[1], x[2])
           n == Len(v.history)
           row == [from |-> v.state, to |-> x[1], note |-> x[2]]
<1>1. CASE ~Legal(v, x[1], x[2])
  BY <1>1 DEF WalkStep
<1>2. CASE Legal(v, x[1], x[2])
  <2>1. x[1] \in States /\ x[2] \in Notes
    BY DEF Steps
  <2>2. v \in TicketRecords /\ IsALifecycle(v) /\ Extends(v, t) /\ v.delivery = t.delivery
    BY DEF Along
  <2>3. u \in TicketRecords /\ IsALifecycle(u)
    BY <1>2, <2>1, <2>2, LegalTransition
  <2>4. /\ u.state = x[1]
        /\ u.delivery = v.delivery
        /\ Len(u.history) = n + 1
        /\ u.history[n + 1] = row
        /\ Extends(u, v)
    BY <2>1, <2>2, TransitionIs
  <2>5. Extends(u, t)
    BY <2>2, <2>3, <2>4, ExtendsFurther
  <2>6. n \in Nat /\ Len(t.history) \in Nat /\ n >= Len(t.history)
    BY <2>2, RecordFields DEF Extends
  <2>7. row.to = x[1] /\ row.note = x[2] /\ row.from = v.state
    OBVIOUS
  <2>8. v.state = t.state \/ \E y \in S : v.state = y[1]
    BY DEF Along
  <2>9. WalkStep(v, x) = u
    BY <1>2 DEF WalkStep
  <2> HIDE DEF u, row
  <2>10. ASSUME NEW j \in Len(t.history) + 1 .. Len(u.history)
         PROVE  \E z \in S :
                  /\ u.history[j].to = z[1]
                  /\ u.history[j].note = z[2]
                  /\ u.history[j].from = t.state \/ \E y \in S : u.history[j].from = y[1]
    <3>1. CASE j = n + 1
      BY <3>1, <2>4, <2>7, <2>8
    <3>2. CASE j # n + 1
      <4>1. j \in Len(t.history) + 1 .. n /\ j \in 1 .. n
        BY <3>2, <2>4, <2>6
      <4>2. u.history[j] = v.history[j]
        BY <4>1, <2>4 DEF Extends
      <4> QED
        BY <4>1, <4>2 DEF Along, n
    <3> QED
      BY <3>1, <3>2
  <2>11. Len(u.history) > Len(t.history)
    BY <2>4, <2>6
  <2> QED
    BY <2>2, <2>3, <2>4, <2>5, <2>9, <2>10, <2>11 DEF Along
<1> QED
  BY <1>1, <1>2

(* However long the path is, and whichever of its steps the table skips. *)
LEMMA WalkAlong ==
  ASSUME NEW t \in TicketRecords, IsALifecycle(t),
         NEW S, S \subseteq Steps, NEW p \in Seq(S)
  PROVE  Along(ApplyObservedPath(t, p), t, S)
<1> DEFINE W == Walked(t, p)
           Good == {i \in Nat : i <= Len(p) => Along(W[i], t, S)}
<1>1. Len(p) \in Nat /\ \A i \in 1 .. Len(p) : p[i] \in S
  BY LenProperties, ElementOfSeq
<1>2. W[0] = t /\ \A i \in 1 .. Len(p) : W[i] = WalkStep(W[i - 1], p[i])
  BY WalkedSteps
<1> HIDE DEF W
<1>3. Along(t, t, S)
  <2>1. Len(t.history) \in Nat
    BY RecordFields
  <2>2. Len(t.history) + 1 .. Len(t.history) = {}
    BY <2>1
  <2> QED
    BY <2>2, ExtendsItself DEF Along
<1>4. 0 \in Good
  BY <1>2, <1>3
<1>5. ASSUME NEW i \in Nat, i \in Good
      PROVE  i + 1 \in Good
  <2>1. SUFFICES ASSUME i + 1 <= Len(p)
                 PROVE  Along(W[i + 1], t, S)
    OBVIOUS
  <2>2. i + 1 \in 1 .. Len(p) /\ (i + 1) - 1 = i /\ i <= Len(p)
    BY <2>1, <1>1
  <2>3. Along(W[i], t, S)
    BY <1>5, <2>2
  <2>4. W[i + 1] = WalkStep(W[i], p[i + 1]) /\ p[i + 1] \in S
    BY <1>1, <1>2, <2>2
  <2> QED
    BY <2>3, <2>4, StepAlong
<1>6. Len(p) \in Good
  <2> HIDE DEF Good
  <2> QED
    BY <1>1, <1>4, <1>5, SetInduction
<1> QED
  BY <1>1, <1>6 DEF ApplyObservedPath, W

LEMMA Appended ==
  ASSUME NEW S, NEW p \in Seq(S), NEW x \in S, NEW q, q = Append(p, x)
  PROVE  q \in Seq(S) /\ OneMore(q, p, x)
<1>1. /\ Len(p) \in Nat
      /\ q \in Seq(S) /\ Len(q) = Len(p) + 1
      /\ \A i \in 1 .. Len(p) : q[i] = p[i]
      /\ q[Len(p) + 1] = x
  BY LenProperties, AppendProperties
<1> QED
  BY <1>1 DEF OneMore

LEMMA LastOfMore ==
  ASSUME NEW S, NEW p \in Seq(S), NEW q \in Seq(S), NEW x, OneMore(q, p, x)
  PROVE  q # <<>> /\ Last(q) = x
<1>1. Len(p) \in Nat /\ Len(q) = Len(p) + 1 /\ q[Len(q)] = x
  BY LenProperties DEF OneMore
<1> QED
  BY <1>1 DEF Last

(* The path q is p, then x, then y. *)
TwoMore(q, p, x, y) == \E r : Len(r) \in Nat /\ OneMore(r, p, x) /\ OneMore(q, r, y)

(* A path with one more step, with two more. *)
LEMMA PathOnce ==
  ASSUME NEW S, NEW p \in Seq(S), NEW x \in S, NEW q, q = p \o <<x>>
  PROVE  /\ q \in Seq(S)
         /\ OneMore(q, p, x)
<1>1. <<x>> \in Seq(S) /\ Len(<<x>>) = 1 /\ <<x>>[1] = x /\ Len(p) \in Nat
  BY LenProperties
<1>2. /\ q \in Seq(S) /\ Len(q) = Len(p) + 1
      /\ \A i \in 1 .. Len(p) : q[i] = p[i]
      /\ q[Len(p) + 1] = x
  BY <1>1, ConcatProperties
<1> QED
  BY <1>1, <1>2 DEF OneMore

LEMMA PathTwice ==
  ASSUME NEW S, NEW p \in Seq(S), NEW x \in S, NEW y \in S, NEW q, q = p \o <<x, y>>
  PROVE  /\ q \in Seq(S)
         /\ TwoMore(q, p, x, y)
         /\ q # <<>> /\ Last(q) = y
<1>1. PICK r : r = Append(p, x)
  OBVIOUS
<1>2. r \in Seq(S) /\ OneMore(r, p, x)
  BY <1>1, Appended
<1>3. /\ <<x, y>> \in Seq(S) /\ Len(<<x, y>>) = 2 /\ <<x, y>>[1] = x /\ <<x, y>>[2] = y
      /\ Len(p) \in Nat
  BY LenProperties
<1>4. /\ q \in Seq(S) /\ Len(q) = Len(p) + 2
      /\ \A i \in 1 .. Len(p) : q[i] = p[i]
      /\ q[Len(p) + 1] = x
      /\ q[Len(p) + 2] = y
  BY <1>3, ConcatProperties
<1>5. OneMore(q, r, y)
  BY <1>2, <1>3, <1>4 DEF OneMore
<1>6. TwoMore(q, p, x, y)
  <2>1. Len(r) \in Nat
    BY <1>2, LenProperties
  <2> QED
    BY <2>1, <1>2, <1>5 DEF TwoMore
<1>7. q # <<>> /\ Last(q) = y
  BY <1>3, <1>4 DEF Last
<1> QED
  BY <1>4, <1>6, <1>7

LEMMA WalkTwice ==
  ASSUME NEW t, NEW p, NEW q, NEW x, NEW y, Len(p) \in Nat, TwoMore(q, p, x, y)
  PROVE  ApplyObservedPath(t, q) = WalkStep(WalkStep(ApplyObservedPath(t, p), x), y)
<1>1. PICK r : Len(r) \in Nat /\ OneMore(r, p, x) /\ OneMore(q, r, y)
  BY DEF TwoMore
<1>2. ApplyObservedPath(t, r) = WalkStep(ApplyObservedPath(t, p), x)
  BY <1>1, WalkFurther
<1>3. ApplyObservedPath(t, q) = WalkStep(ApplyObservedPath(t, r), y)
  BY <1>1, WalkFurther
<1> QED
  BY <1>2, <1>3

-----------------------------------------------------------------------------
(* The paths of a run's result and of a reconciliation. *)

RunResults ==
  [rounds: BOOLEAN, judged: BOOLEAN, completed: BOOLEAN,
   outcome: {"approved", "gated", "failed"}, publishes: BOOLEAN, number: Nat]

Seen ==
  {<<state, Note("observed")>> :
     state \in {"provisioning", "executing", "verifying", "independent_review"}}

(* The last step of a result that came out so. *)
EndSteps(outcome) ==
  CASE outcome = "approved" -> {<<"pr_open", Note("approved")>>,
                                <<"pr_open", Note("decided_delivery")>>}
    [] outcome = "gated"    -> {<<"changes_requested", Note("gate_closed")>>}
    [] outcome = "failed"   -> {<<"failed", Note("did_not_complete")>>}

ObservedSteps(outcome) == Seen \union EndSteps(outcome)

LEMMA NotesAreNotes ==
  ASSUME NEW says \in Said
  PROVE  Note(says) \in Notes
  BY DEF Note, Notes

LEMMA StepsAre ==
  ASSUME NEW state \in States, NEW says \in Said
  PROVE  <<state, Note(says)>> \in Steps
  BY NotesAreNotes DEF Steps

LEMMA ObservedStepsAreSteps ==
  ASSUME NEW outcome \in {"approved", "gated", "failed"}
  PROVE  /\ ObservedSteps(outcome) \subseteq Steps
         /\ EndSteps(outcome) \subseteq ObservedSteps(outcome)
         /\ <<"provisioning", Note("observed")>> \in ObservedSteps(outcome)
         /\ <<"executing", Note("observed")>> \in ObservedSteps(outcome)
         /\ <<"verifying", Note("observed")>> \in ObservedSteps(outcome)
         /\ <<"independent_review", Note("observed")>> \in ObservedSteps(outcome)
<1>1. Seen \subseteq Steps
  <2>1. "observed" \in Said
    BY DEF Said
  <2> QED
    BY <2>1, StepsAre DEF Seen, States
<1>2. EndSteps(outcome) \subseteq Steps
  <2>1. /\ "approved" \in Said /\ "decided_delivery" \in Said
        /\ "gate_closed" \in Said /\ "did_not_complete" \in Said
    BY DEF Said
  <2>2. "pr_open" \in States /\ "changes_requested" \in States /\ "failed" \in States
    BY DEF States
  <2>3. CASE outcome = "approved"
    BY <2>1, <2>2, <2>3, StepsAre DEF EndSteps
  <2>4. CASE outcome = "gated"
    BY <2>1, <2>2, <2>4, StepsAre DEF EndSteps
  <2>5. CASE outcome = "failed"
    BY <2>1, <2>2, <2>5, StepsAre DEF EndSteps
  <2> QED
    BY <2>3, <2>4, <2>5
<1>3. /\ <<"provisioning", Note("observed")>> \in Seen
      /\ <<"executing", Note("observed")>> \in Seen
      /\ <<"verifying", Note("observed")>> \in Seen
      /\ <<"independent_review", Note("observed")>> \in Seen
  BY DEF Seen
<1> QED
  BY <1>1, <1>2, <1>3 DEF ObservedSteps

(* The states of a result, one part after the other. *)
FirstSeen == <<<<"provisioning", Note("observed")>>>>
RoundsSeen(result) ==
  FirstSeen
  \o If(result.rounds, << <<"executing", Note("observed")>>, <<"verifying", Note("observed")>> >>)
ReviewSeen(result) ==
  RoundsSeen(result) \o If(result.judged, <<<<"independent_review", Note("observed")>>>>)
EndSeen(result) ==
  CASE result.outcome = "approved" -> <<"pr_open", Note("approved")>>
    [] result.outcome = "gated"    -> <<"changes_requested", Note("gate_closed")>>
    [] result.outcome = "failed"   -> <<"failed", Note("did_not_complete")>>

LEMMA SeenInParts ==
  ASSUME NEW result \in RunResults
  PROVE  StatesObserved(result) = ReviewSeen(result) \o <<EndSeen(result)>>
<1>1. result.outcome \in {"approved", "gated", "failed"}
  BY DEF RunResults
<1>2. (CASE result.outcome = "approved" -> <<<<"pr_open", Note("approved")>>>>
         [] result.outcome = "gated"    -> <<<<"changes_requested", Note("gate_closed")>>>>
         [] result.outcome = "failed"   -> <<<<"failed", Note("did_not_complete")>>>>)
      = <<EndSeen(result)>>
  BY <1>1 DEF EndSeen
<1> QED
  BY <1>2 DEF StatesObserved, ReviewSeen, RoundsSeen, FirstSeen

LEMMA SeenAreSteps ==
  ASSUME NEW result \in RunResults, NEW S, S = ObservedSteps(result.outcome)
  PROVE  /\ FirstSeen \in Seq(S)
         /\ RoundsSeen(result) \in Seq(S)
         /\ ReviewSeen(result) \in Seq(S)
         /\ EndSeen(result) \in EndSteps(result.outcome)
         /\ EndSeen(result) \in S
<1>1. result.outcome \in {"approved", "gated", "failed"}
  BY DEF RunResults
<1>2. /\ EndSteps(result.outcome) \subseteq S
      /\ <<"provisioning", Note("observed")>> \in S
      /\ <<"executing", Note("observed")>> \in S
      /\ <<"verifying", Note("observed")>> \in S
      /\ <<"independent_review", Note("observed")>> \in S
  BY <1>1, ObservedStepsAreSteps
<1>3. FirstSeen \in Seq(S)
  BY <1>2 DEF FirstSeen
<1>4. RoundsSeen(result) \in Seq(S)
  <2> DEFINE two == << <<"executing", Note("observed")>>, <<"verifying", Note("observed")>> >>
  <2>1. two \in Seq(S)
    BY <1>2
  <2>2. RoundsSeen(result) = FirstSeen \o If(result.rounds, two)
    BY DEF RoundsSeen
  <2> HIDE DEF two
  <2>3. If(result.rounds, two) \in Seq(S)
    BY <2>1, EmptySeq DEF If
  <2> QED
    BY <1>3, <2>2, <2>3, ConcatProperties
<1>5. ReviewSeen(result) \in Seq(S)
  BY <1>2, <1>4, PathOnce, ConcatEmptySeq DEF ReviewSeen, If
<1>6. EndSeen(result) \in EndSteps(result.outcome)
  BY <1>1 DEF EndSeen, EndSteps
<1> QED
  BY <1>2, <1>3, <1>4, <1>5, <1>6

LEMMA ObservedPathIs ==
  ASSUME NEW result \in RunResults
  PROVE  /\ ObservedPath(result) \in Seq(ObservedSteps(result.outcome))
         /\ ObservedPath(result) # <<>>
         /\ Last(ObservedPath(result)) \in EndSteps(result.outcome)
<1> DEFINE S == ObservedSteps(result.outcome)
           p == StatesObserved(result)
<1>1. /\ ReviewSeen(result) \in Seq(S)
      /\ EndSeen(result) \in EndSteps(result.outcome)
      /\ EndSeen(result) \in S
  BY SeenAreSteps
<1>2. p = ReviewSeen(result) \o <<EndSeen(result)>>
  BY SeenInParts
<1>3. p \in Seq(S) /\ p # <<>> /\ Last(p) = EndSeen(result)
  <2> HIDE DEF p, S
  <2>1. p \in Seq(S) /\ OneMore(p, ReviewSeen(result), EndSeen(result))
    BY <1>1, <1>2, PathOnce
  <2> QED
    BY <1>1, <2>1, LastOfMore, Zenon
<1>4. CASE result.outcome = "approved" /\ ~result.rounds
  <2> DEFINE q == << <<"provisioning", Note("observed")>>,
                     <<"pr_open", Note("decided_delivery")>> >>
  <2>1. ObservedPath(result) = q
    BY <1>4 DEF ObservedPath
  <2>2. /\ <<"provisioning", Note("observed")>> \in S
        /\ <<"pr_open", Note("decided_delivery")>> \in EndSteps(result.outcome)
        /\ <<"pr_open", Note("decided_delivery")>> \in S
    <3>1. <<"pr_open", Note("decided_delivery")>> \in EndSteps(result.outcome)
      BY <1>4 DEF EndSteps
    <3> QED
      BY <1>4, <3>1, ObservedStepsAreSteps
  <2> HIDE DEF S
  <2>3. q \in Seq(S) /\ q # <<>> /\ Last(q) = <<"pr_open", Note("decided_delivery")>>
    BY <2>2 DEF Last
  <2> QED
    BY <2>1, <2>2, <2>3 DEF S
<1>5. CASE ~(result.outcome = "approved" /\ ~result.rounds)
  BY <1>1, <1>3, <1>5 DEF ObservedPath
<1> QED
  BY <1>4, <1>5

ReconciledSteps(said) ==
  {<<state, Note("reconciled")>> :
     state \in {"executing", "verifying", "independent_review", "pr_open", "changes_requested"}
                 \union (IF said = "merged" THEN {"merged"} ELSE {})}

LEMMA ReconciledPathIs ==
  ASSUME NEW had, NEW said \in {"open", "closed", "merged"},
         NEW p, p = StatesReconciled(had, said)
  PROVE  /\ ReconciledSteps(said) \subseteq Steps
         /\ p \in Seq(ReconciledSteps(said))
         /\ p # <<>>
         /\ Last(p)[1] = CASE said = "open"   -> "pr_open"
                           [] said = "merged" -> "merged"
                           [] said = "closed" -> "changes_requested"
<1> DEFINE S == ReconciledSteps(said)
           N == Note("reconciled")
           a == If(had # {}, << <<"executing", N>>, <<"verifying", N>> >>)
           b == a \o If("completed" \in had, <<<<"independent_review", N>>>>)
<1>1. S \subseteq Steps
  <2>1. "reconciled" \in Said
    BY DEF Said
  <2> QED
    BY <2>1, StepsAre DEF ReconciledSteps, States
<1>2. /\ <<"executing", N>> \in S /\ <<"verifying", N>> \in S
      /\ <<"independent_review", N>> \in S /\ <<"pr_open", N>> \in S
      /\ <<"changes_requested", N>> \in S
      /\ said = "merged" => <<"merged", N>> \in S
  BY DEF ReconciledSteps
<1>3. p = b \o CASE said = "open"   -> <<<<"pr_open", N>>>>
                 [] said = "merged" -> << <<"pr_open", N>>, <<"merged", N>> >>
                 [] said = "closed" -> <<<<"changes_requested", N>>>>
  BY DEF StatesReconciled
<1> HIDE DEF S, N
<1>4. a \in Seq(S)
  <2>1. <<>> \in Seq(S)
    BY EmptySeq
  <2>2. << <<"executing", N>>, <<"verifying", N>> >> \in Seq(S)
    BY <1>2
  <2> QED
    BY <2>1, <2>2 DEF If
<1> HIDE DEF a
<1>5. b \in Seq(S)
  BY <1>2, <1>4, PathOnce, ConcatEmptySeq DEF If
<1> HIDE DEF b
<1>6. CASE said = "open"
  <2>1. p = b \o <<<<"pr_open", N>>>>
    BY <1>3, <1>6
  <2>2. p \in Seq(S) /\ OneMore(p, b, <<"pr_open", N>>)
    BY <1>2, <1>5, <2>1, PathOnce
  <2>3. p # <<>> /\ Last(p) = <<"pr_open", N>>
    BY <1>5, <2>2, LastOfMore, Zenon
  <2> QED
    BY <1>1, <1>6, <2>2, <2>3 DEF S
<1>7. CASE said = "merged"
  <2> DEFINE x == <<"pr_open", N>>
             y == <<"merged", N>>
  <2>1. p = b \o <<x, y>> /\ x \in S /\ y \in S
    BY <1>2, <1>3, <1>7
  <2>2. y[1] = "merged"
    OBVIOUS
  <2> HIDE DEF x, y
  <2>3. /\ <<x, y>> \in Seq(S) /\ Len(<<x, y>>) = 2 /\ <<x, y>>[2] = y
        /\ Len(b) \in Nat
    BY <2>1, <1>5, LenProperties
  <2>4. p \in Seq(S) /\ Len(p) = Len(b) + 2 /\ p[Len(b) + 2] = y
    BY <2>1, <2>3, <1>5, ConcatProperties
  <2>5. p # <<>> /\ Last(p) = y
    BY <2>3, <2>4 DEF Last
  <2> QED
    BY <1>1, <1>7, <2>2, <2>4, <2>5 DEF S
<1>8. CASE said = "closed"
  <2>1. p = b \o <<<<"changes_requested", N>>>>
    BY <1>3, <1>8
  <2>2. p \in Seq(S) /\ OneMore(p, b, <<"changes_requested", N>>)
    BY <1>2, <1>5, <2>1, PathOnce
  <2>3. p # <<>> /\ Last(p) = <<"changes_requested", N>>
    BY <1>5, <2>2, LastOfMore, Zenon
  <2> QED
    BY <1>1, <1>8, <2>2, <2>3 DEF S
<1> QED
  BY <1>6, <1>7, <1>8

(* Every result but the gate of a run that judged no round has a way from  *)
(* `provisioning` to its end.                                              *)
LEMMA FromProvisioning ==
  ASSUME NEW t \in TicketRecords, IsALifecycle(t), t.state = "provisioning",
         NEW result \in RunResults,
         result.judged => result.rounds,
         result.outcome = "approved" => result.judged \/ ~result.rounds,
         result.outcome = "gated" => result.judged
  PROVE  ReachesItsEnd(t, ObservedPath(result))
<1> DEFINE S == ObservedSteps(result.outcome)
           N == Note("observed")
           first == ApplyObservedPath(t, FirstSeen)
           rounds == ApplyObservedPath(t, RoundsSeen(result))
           review == ApplyObservedPath(t, ReviewSeen(result))
<1>1. result.outcome \in {"approved", "gated", "failed"}
  BY DEF RunResults
<1>2. /\ S \subseteq Steps
      /\ EndSteps(result.outcome) \subseteq S
      /\ <<"provisioning", N>> \in S
      /\ <<"executing", N>> \in S
      /\ <<"verifying", N>> \in S
      /\ <<"independent_review", N>> \in S
  BY <1>1, ObservedStepsAreSteps
<1>3. /\ FirstSeen \in Seq(S)
      /\ RoundsSeen(result) \in Seq(S)
      /\ ReviewSeen(result) \in Seq(S)
      /\ EndSeen(result) \in S
  BY SeenAreSteps
<1>4. first.state = "provisioning"
  <2>1. FirstSeen = <<>> \o <<<<"provisioning", N>>>> /\ <<>> \in Seq(S)
    BY EmptySeq DEF FirstSeen
  <2>2. first = WalkStep(ApplyObservedPath(t, <<>>), <<"provisioning", N>>)
    <3> HIDE DEF S, N
    <3>1. OneMore(FirstSeen, <<>>, <<"provisioning", N>>)
      BY <1>2, <2>1, PathOnce
    <3> QED
      BY <3>1, WalkFurther
  <2>3. first = WalkStep(t, <<"provisioning", N>>)
    BY <2>2, WalkNothing
  <2> HIDE DEF first, N
  <2>4. ~Legal(t, "provisioning", N)
    BY RowsLeadOn DEF Legal
  <2> QED
    BY <2>3, <2>4 DEF WalkStep
<1>5. first \in TicketRecords /\ rounds \in TicketRecords /\ review \in TicketRecords
  BY <1>2, <1>3, WalkAlong DEF Along
<1>6. rounds.state = IF result.rounds THEN "verifying" ELSE "provisioning"
  <2>1. CASE result.rounds
    <3> DEFINE once == WalkStep(first, <<"executing", N>>)
    <3>1. RoundsSeen(result) = FirstSeen \o << <<"executing", N>>, <<"verifying", N>> >>
      BY <2>1 DEF RoundsSeen, If
    <3>2. rounds = WalkStep(once, <<"verifying", N>>)
      <4> HIDE DEF S, N
      <4>1. TwoMore(RoundsSeen(result), FirstSeen, <<"executing", N>>, <<"verifying", N>>)
        BY <1>2, <1>3, <3>1, PathTwice
      <4> QED
        BY <1>3, <4>1, WalkTwice, LenProperties
    <3> HIDE DEF rounds, first, N
    <3>3. Legal(first, "executing", N)
      BY <1>4, AlwaysLegal, AlwaysRows
    <3>4. once.state = "executing"
      BY <1>5, <3>3 DEF WalkStep, Transition, TicketRecords
    <3>5. once \in TicketRecords
      BY <1>2, <1>5, <3>3, TransitionIs DEF WalkStep, Steps
    <3> HIDE DEF once
    <3>6. Legal(once, "verifying", N)
      BY <3>4, AlwaysLegal, AlwaysRows
    <3> QED
      BY <2>1, <3>2, <3>5, <3>6 DEF WalkStep, Transition, TicketRecords
  <2>2. CASE ~result.rounds
    <3>1. RoundsSeen(result) = FirstSeen
      BY <2>2, <1>3, ConcatEmptySeq DEF RoundsSeen, If
    <3> QED
      BY <2>2, <3>1, <1>4
  <2> QED
    BY <2>1, <2>2
<1>7. review.state = IF result.judged THEN "independent_review" ELSE rounds.state
  <2>1. CASE result.judged
    <3>1. ReviewSeen(result) = RoundsSeen(result) \o <<<<"independent_review", N>>>>
      BY <2>1 DEF ReviewSeen, If
    <3>2. review = WalkStep(rounds, <<"independent_review", N>>)
      <4> HIDE DEF S, N
      <4>1. OneMore(ReviewSeen(result), RoundsSeen(result), <<"independent_review", N>>)
        BY <1>2, <1>3, <3>1, PathOnce
      <4> QED
        BY <1>3, <4>1, WalkFurther, LenProperties
    <3>3. rounds.state = "verifying"
      BY <2>1, <1>6
    <3> HIDE DEF rounds, review, N
    <3>4. Legal(rounds, "independent_review", N)
      BY <3>3, AlwaysLegal, AlwaysRows
    <3> QED
      BY <2>1, <3>2, <3>4, <1>5 DEF WalkStep, Transition, TicketRecords
  <2>2. CASE ~result.judged
    <3>1. ReviewSeen(result) = RoundsSeen(result)
      BY <2>2, <1>3, ConcatEmptySeq DEF ReviewSeen, If
    <3> QED
      BY <2>2, <3>1
  <2> QED
    BY <2>1, <2>2
<1> HIDE DEF first, rounds, review, S
<1>8. ASSUME NEW u \in TicketRecords, NEW p, NEW x \in Steps, x = Last(p),
             ApplyObservedPath(t, p) = WalkStep(u, x), Legal(u, x[1], x[2])
      PROVE  ReachesItsEnd(t, p)
  BY <1>8 DEF ReachesItsEnd, WalkStep, Transition, TicketRecords
<1>9. CASE result.outcome = "approved" /\ ~result.rounds
  <2> DEFINE q == FirstSeen \o <<<<"pr_open", Note("decided_delivery")>>>>
             x == <<"pr_open", Note("decided_delivery")>>
  <2>1. ObservedPath(result) = q
    BY <1>9 DEF ObservedPath, FirstSeen
  <2>2. x \in S
    <3>1. x \in EndSteps(result.outcome)
      BY <1>9 DEF EndSteps
    <3> QED
      BY <3>1, <1>2
  <2>3. Legal(first, "pr_open", Note("decided_delivery"))
    <3>1. Admits(Row("provisioning", "pr_open", "decided_delivery"), first, Note("decided_delivery"))
      BY RowFields DEF Admits, Note
    <3> QED
      BY <3>1, <1>4, GuardedRows, RowFields DEF Legal
  <2>4. x[1] = "pr_open" /\ x[2] = Note("decided_delivery")
    OBVIOUS
  <2> HIDE DEF x
  <2>5. q \in Seq(S) /\ OneMore(q, FirstSeen, x)
    BY <1>3, <2>2, PathOnce DEF x
  <2>6. Last(q) = x /\ ApplyObservedPath(t, q) = WalkStep(first, x)
    <3> HIDE DEF q
    <3> QED
      BY <1>3, <2>5, LastOfMore, WalkFurther, LenProperties DEF first
  <2> HIDE DEF q
  <2> QED
    BY <1>2, <1>5, <1>8, <2>1, <2>2, <2>3, <2>4, <2>5, <2>6
<1>10. CASE ~(result.outcome = "approved" /\ ~result.rounds)
  <2> DEFINE q == ReviewSeen(result) \o <<EndSeen(result)>>
             x == EndSeen(result)
  <2>1. ObservedPath(result) = q
    BY <1>10, SeenInParts DEF ObservedPath
  <2>2. x \in S
    BY <1>3
  <2>3. Legal(review, x[1], x[2])
    <3>1. CASE result.outcome = "approved"
      <4>1. review.state = "independent_review" /\ x[1] = "pr_open"
        BY <3>1, <1>7, <1>10 DEF EndSeen
      <4> QED
        BY <4>1, AlwaysLegal, AlwaysRows
    <3>2. CASE result.outcome = "gated"
      <4>1. review.state = "independent_review" /\ x[1] = "changes_requested"
        BY <3>2, <1>7 DEF EndSeen
      <4> QED
        BY <4>1, AlwaysLegal, AlwaysRows
    <3>3. CASE result.outcome = "failed"
      <4>1. /\ review.state \in {"provisioning", "verifying", "independent_review"}
            /\ x[1] = "failed"
        BY <3>3, <1>6, <1>7 DEF EndSeen
      <4> QED
        BY <4>1, AlwaysLegal, AlwaysRows
    <3> QED
      BY <1>1, <3>1, <3>2, <3>3
  <2> HIDE DEF x
  <2>4. q \in Seq(S) /\ OneMore(q, ReviewSeen(result), x)
    BY <1>3, <2>2, PathOnce DEF x
  <2>5. Last(q) = x /\ ApplyObservedPath(t, q) = WalkStep(review, x)
    <3> HIDE DEF q
    <3> QED
      BY <1>3, <2>4, LastOfMore, WalkFurther, LenProperties DEF review
  <2> HIDE DEF q
  <2> QED
    BY <1>2, <1>5, <1>8, <2>1, <2>2, <2>3, <2>4, <2>5
<1> QED
  BY <1>9, <1>10

-----------------------------------------------------------------------------
(* Reopening. *)

LEMMA ReopenNotes ==
  ASSUME NEW t \in TicketRecords, NEW to \in States
  PROVE  NewAttemptNote(t.state) \in Notes /\ ReopenNote(t, to) \in Notes
<1>1. t.state \in States
  BY RecordFields
<1>2. "new_attempt_after" \in Said /\ "reopened_through" \in Said
  BY DEF Said
<1> QED
  BY <1>1, <1>2 DEF NewAttemptNote, ReopenNote, Notes

(* A reopened ticket is at `ready` by one more row or by two, the last of  *)
(* which names the state it was reopened from: its own start where one row *)
(* was enough.                                                             *)
LEMMA Reopening ==
  ASSUME NEW t \in TicketRecords, IsALifecycle(t), CanReopen(t), NEW u, u = Reopen(t)
  PROVE  /\ u \in TicketRecords
         /\ IsALifecycle(u)
         /\ Extends(u, t)
         /\ u.state = "ready"
         /\ u.delivery = t.delivery
         /\ Len(u.history) > Len(t.history)
         /\ u.history[Len(u.history)].to = "ready"
         /\ u.history[Len(u.history)].note = NewAttemptNote(t.state)
         /\ u.history[Len(u.history)].from = t.state <=> ReopensAtOnce(t)
         /\ \A j \in Len(t.history) + 1 .. Len(u.history) :
              /\ u.history[j].note[1] \in {"new_attempt_after", "reopened_through"}
              /\ ~(u.history[j].from = "failed" /\ u.history[j].to = "pr_open")
<1> DEFINE n == Len(t.history)
           final == NewAttemptNote(t.state)
<1>1. n \in Nat /\ t.state \in States
  BY RecordFields
<1>2. final \in Notes /\ final[1] = "new_attempt_after" /\ "ready" \in States
  <2>1. final \in Notes
    BY ReopenNotes, "ready" \in States DEF States
  <2> QED
    BY <2>1 DEF NewAttemptNote, States
<1>3. CASE ReopensAtOnce(t)
  <2>1. u = Transition(t, "ready", final)
    BY <1>3 DEF Reopen, Hop, ReopenNote
  <2>2. Legal(t, "ready", final)
    BY <1>3 DEF ReopensAtOnce
  <2> DEFINE row == [from |-> t.state, to |-> "ready", note |-> final]
  <2>3. row.from = t.state /\ row.to = "ready" /\ row.note = final
    OBVIOUS
  <2> HIDE DEF final
  <2>4. u \in TicketRecords /\ IsALifecycle(u)
    BY <1>2, <2>1, <2>2, LegalTransition
  <2>5. /\ u.state = "ready" /\ u.delivery = t.delivery /\ Extends(u, t)
        /\ Len(u.history) = n + 1 /\ u.history[n + 1] = row
    BY <1>2, <2>1, TransitionIs
  <2> HIDE DEF row, n
  <2>6. \A j \in n + 1 .. Len(u.history) : u.history[j] = row
    BY <1>1, <2>5
  <2> QED
    BY <1>1, <1>2, <1>3, <2>3, <2>4, <2>5, <2>6 DEF final, n
<1>4. CASE ~ReopensAtOnce(t)
  <2> DEFINE V == Vias(t)
             via == CHOOSE i \in V : \A j \in V : i <= j
             mid == TICKET_TRANSITIONS[via].to
             note == ReopenNote(t, mid)
             h == Hop(t, mid)
  <2>1. V # {} /\ V \subseteq Nat
    BY <1>4, Table DEF CanReopen, Vias
  <2>2. via \in V
    <3> HIDE DEF V
    <3>1. \E i \in V : \A j \in V : i <= j
      BY <2>1, Least
    <3> QED
      BY <3>1
  <2>3. u = Transition(h, "ready", final)
    BY <1>4 DEF Reopen
  <2> HIDE DEF via
  <2>4. /\ TICKET_TRANSITIONS[via] \in Rows
        /\ TICKET_TRANSITIONS[via].from = t.state
        /\ Admits(TICKET_TRANSITIONS[via], t, note)
        /\ Legal(h, "ready", final)
    BY <2>2, Table, RowsAreTheTable DEF Vias
  <2>5. mid \in States /\ mid # t.state
    BY <2>4, RowsLeadOn
  <2> HIDE DEF mid
  <2>6. Legal(t, mid, note)
    BY <2>4 DEF Legal, mid
  <2>7. note \in Notes /\ note[1] \in {"new_attempt_after", "reopened_through"}
    <3>1. note \in Notes
      BY <2>5, ReopenNotes
    <3> QED
      BY <3>1 DEF ReopenNote, NewAttemptNote
  <2>8. h = Transition(t, mid, note)
    BY DEF Hop
  <2> DEFINE row1 == [from |-> t.state, to |-> mid, note |-> note]
             row2 == [from |-> mid, to |-> "ready", note |-> final]
  <2>9. /\ row1.from = t.state /\ row1.to = mid /\ row1.note = note
        /\ row2.from = mid /\ row2.to = "ready" /\ row2.note = final
    OBVIOUS
  <2> HIDE DEF h, note, final
  <2>10. h \in TicketRecords /\ IsALifecycle(h)
    BY <2>6, <2>7, <2>8, LegalTransition
  <2>11. /\ h.state = mid /\ h.delivery = t.delivery /\ Extends(h, t)
         /\ Len(h.history) = n + 1 /\ h.history[n + 1] = row1
    BY <2>5, <2>7, <2>8, TransitionIs
  <2>12. u \in TicketRecords /\ IsALifecycle(u)
    BY <1>2, <2>3, <2>4, <2>10, LegalTransition
  <2>13. /\ u.state = "ready" /\ u.delivery = h.delivery /\ Extends(u, h)
         /\ Len(u.history) = Len(h.history) + 1
         /\ u.history[Len(h.history) + 1] = row2
    BY <1>2, <2>3, <2>10, <2>11, TransitionIs
  <2>14. Extends(u, t)
    BY <2>10, <2>11, <2>12, <2>13, ExtendsFurther
  <2> HIDE DEF row1, row2, n
  <2>15. u.history[n + 1] = row1 /\ u.history[n + 2] = row2 /\ Len(u.history) = n + 2
    <3>1. n + 1 \in 1 .. Len(h.history) /\ Len(h.history) + 1 = n + 2
      BY <1>1, <2>11
    <3> QED
      BY <3>1, <2>11, <2>13 DEF Extends
  <2>16. \A j \in n + 1 .. Len(u.history) : u.history[j] = row1 \/ u.history[j] = row2
    BY <1>1, <2>15
  <2>17. t.state # "failed"
    BY <1>4, AlwaysLegal, AlwaysRows DEF ReopensAtOnce
  <2>18. ASSUME NEW j \in n + 1 .. Len(u.history)
         PROVE  /\ u.history[j].note[1] \in {"new_attempt_after", "reopened_through"}
                /\ ~(u.history[j].from = "failed" /\ u.history[j].to = "pr_open")
    <3>1. CASE u.history[j] = row1
      BY <3>1, <2>7, <2>9, <2>17
    <3>2. CASE u.history[j] = row2
      BY <3>2, <1>2, <2>9
    <3> QED
      BY <2>16, <3>1, <3>2
  <2> QED
    BY <1>1, <1>4, <2>5, <2>9, <2>11, <2>12, <2>13, <2>14, <2>15, <2>18 DEF final, n
<1> QED
  BY <1>3, <1>4

-----------------------------------------------------------------------------
(* Deliveries, and who opened the pull request. *)

LEMMA DeliveryFields ==
  ASSUME NEW t \in TicketRecords
  PROVE  /\ t.delivery.branch \in BOOLEAN
         /\ t.delivery.number \in Nat
         /\ t.delivery.state \in {"none", "open", "closed", "merged"}
         /\ t.delivery.openedBy \in Openers
         /\ t.delivery.arm = "loop"
<1>1. t.delivery \in DeliveryRecords
  BY RecordFields
<1> QED
  BY <1>1 DEF DeliveryRecords

(* The record t with another delivery. *)
LEMMA Redelivered ==
  ASSUME NEW t \in TicketRecords, NEW d \in DeliveryRecords,
         NEW u, u = [t EXCEPT !.delivery = d]
  PROVE  /\ u \in TicketRecords
         /\ u.state = t.state
         /\ u.history = t.history
         /\ u.delivery = d
         /\ Extends(u, t)
         /\ IsALifecycle(t) => IsALifecycle(u)
<1>1. u.state = t.state /\ u.history = t.history /\ u.delivery = d
  BY DEF TicketRecords
<1>2. u \in TicketRecords
  BY DEF TicketRecords
<1>3. Extends(u, t)
  BY <1>1, RecordFields DEF Extends
<1>4. IsALifecycle(t) => IsALifecycle(u)
  BY <1>1 DEF IsALifecycle
<1> QED
  BY <1>1, <1>2, <1>3, <1>4

LEMMA OpenersAre ==
  ASSUME NEW t \in TicketRecords, NEW number, NEW midRun
  PROVE  /\ RecordedOpener(t) \in Openers
         /\ AttributePullRequest(t, number) \in Openers
         /\ AttributionOnRecord(t, number, midRun) \in Openers
<1>1. AttributionFromHistory(t.history) \in Openers
  BY DEF AttributionFromHistory, Openers
<1>2. RecordedOpener(t) \in Openers
  BY <1>1, DeliveryFields DEF RecordedOpener
<1>3. AttributePullRequest(t, number) \in Openers
  BY <1>2 DEF AttributePullRequest, Openers
<1>4. AttributionOnRecord(t, number, midRun) \in Openers
  BY <1>2 DEF AttributionOnRecord, Openers
<1> QED
  BY <1>2, <1>3, <1>4

IsRecorded(u, t, result) ==
  /\ u \in TicketRecords
  /\ u.state = t.state
  /\ u.history = t.history
  /\ u.delivery.number = IF result.number = 0 THEN t.delivery.number ELSE result.number
  /\ u.delivery.openedBy = IF result.number # 0 THEN "loop"
                           ELSE IF t.delivery.number # 0 THEN t.delivery.openedBy
                           ELSE "unknown"
  /\ Extends(u, t)
  /\ IsALifecycle(t) => IsALifecycle(u)

LEMMA DeliveryRecorded ==
  ASSUME NEW t \in TicketRecords, NEW result \in RunResults,
         NEW u, u = RecordDelivery(t, result)
  PROVE  IsRecorded(u, t, result)
<1>1. result.number \in Nat
  BY DEF RunResults
<1>2. CASE result.number = 0 /\ t.delivery.number # 0
  <2> DEFINE d == [t.delivery EXCEPT !.branch = TRUE]
  <2>1. u = [t EXCEPT !.delivery = d]
    BY <1>2 DEF RecordDelivery
  <2>2. t.delivery \in DeliveryRecords
    BY RecordFields
  <2>3. /\ d \in DeliveryRecords
        /\ d.number = t.delivery.number /\ d.openedBy = t.delivery.openedBy
    BY <2>2 DEF DeliveryRecords
  <2> HIDE DEF d
  <2>4. /\ u \in TicketRecords /\ u.state = t.state /\ u.history = t.history /\ u.delivery = d
        /\ Extends(u, t) /\ (IsALifecycle(t) => IsALifecycle(u))
    BY <2>1, <2>3, Redelivered
  <2> QED
    BY <1>2, <2>3, <2>4 DEF IsRecorded
<1>3. CASE ~(result.number = 0 /\ t.delivery.number # 0)
  <2> DEFINE d == [branch   |-> TRUE,
                   number   |-> result.number,
                   state    |-> IF result.number = 0 THEN "none" ELSE "open",
                   openedBy |-> IF result.number = 0 THEN "unknown" ELSE "loop",
                   arm      |-> "loop"]
  <2>1. u = [t EXCEPT !.delivery = d]
    BY <1>3 DEF RecordDelivery
  <2>2. /\ d \in DeliveryRecords
        /\ d.number = result.number
        /\ d.openedBy = IF result.number = 0 THEN "unknown" ELSE "loop"
    BY <1>1 DEF DeliveryRecords, Openers
  <2> HIDE DEF d
  <2>3. /\ u \in TicketRecords /\ u.state = t.state /\ u.history = t.history /\ u.delivery = d
        /\ Extends(u, t) /\ (IsALifecycle(t) => IsALifecycle(u))
    BY <2>1, <2>2, Redelivered
  <2> QED
    BY <1>3, <2>2, <2>3 DEF IsRecorded
<1> QED
  BY <1>2, <1>3 DEF IsRecorded

IsWritten(u, t, number, said, midRun) ==
  /\ u \in TicketRecords
  /\ u.state = t.state
  /\ u.history = t.history
  /\ u.delivery.number = number
  /\ u.delivery.state = said
  /\ u.delivery.openedBy = AttributionOnRecord(t, number, midRun)
  /\ Extends(u, t)
  /\ IsALifecycle(t) => IsALifecycle(u)

LEMMA DeliveryWritten ==
  ASSUME NEW t \in TicketRecords, NEW number \in Nat,
         NEW said \in {"none", "open", "closed", "merged"}, NEW midRun,
         NEW u, u = WrittenDelivery(t, number, said, midRun)
  PROVE  IsWritten(u, t, number, said, midRun)
<1> DEFINE by == AttributionOnRecord(t, number, midRun)
           d == [branch |-> TRUE, number |-> number, state |-> said,
                 openedBy |-> by, arm |-> t.delivery.arm]
<1>1. u = [t EXCEPT !.delivery = d]
  BY DEF WrittenDelivery
<1>2. by \in Openers /\ t.delivery.arm = "loop"
  BY OpenersAre, DeliveryFields
<1> HIDE DEF by
<1>3. /\ d \in DeliveryRecords
      /\ d.number = number /\ d.state = said /\ d.openedBy = by
  BY <1>2 DEF DeliveryRecords
<1> HIDE DEF d
<1>4. /\ u \in TicketRecords /\ u.state = t.state /\ u.history = t.history /\ u.delivery = d
      /\ Extends(u, t) /\ (IsALifecycle(t) => IsALifecycle(u))
  BY <1>1, <1>3, Redelivered
<1> QED
  BY <1>3, <1>4 DEF by, IsWritten

(* A pull request that was shown resumes a failed ticket, on a row that    *)
(* says how.                                                               *)
LEMMA Resumes ==
  ASSUME NEW t \in TicketRecords, IsALifecycle(t), t.state = "failed",
         NEW attribution \in Openers, NEW u, u = FromFailedToPullRequest(t, attribution)
  PROVE  /\ u \in TicketRecords
         /\ IsALifecycle(u)
         /\ Extends(u, t)
         /\ u.state = "pr_open"
         /\ u.delivery = t.delivery
         /\ Len(u.history) = Len(t.history) + 1
         /\ u.history[Len(t.history) + 1].from = "failed"
         /\ u.history[Len(t.history) + 1].note[1] \in {"handed_off", "resumed", "opener_not_recorded"}
<1> DEFINE note == Note(CASE attribution = "hand_off" -> "handed_off"
                          [] attribution = "loop"     -> "resumed"
                          [] attribution = "unknown"  -> "opener_not_recorded")
           row == [from |-> t.state, to |-> "pr_open", note |-> note]
<1>1. /\ note[1] \in {"handed_off", "resumed", "opener_not_recorded"}
      /\ note \in Notes
  <2>1. PICK says \in {"handed_off", "resumed", "opener_not_recorded"} : note = Note(says)
    BY DEF Openers
  <2>2. says \in Said
    BY DEF Said
  <2>3. Note(says) \in Notes
    BY <2>2, NotesAreNotes
  <2>4. Note(says)[1] = says
    BY DEF Note
  <2> QED
    BY <2>1, <2>3, <2>4
<1>2. u = Transition(t, "pr_open", note)
  BY DEF FromFailedToPullRequest
<1>3. row.from = "failed" /\ row.note = note
  OBVIOUS
<1> HIDE DEF note
<1>4. Legal(t, "pr_open", note)
  BY AlwaysLegal, AlwaysRows
<1>5. u \in TicketRecords /\ IsALifecycle(u)
  BY <1>1, <1>2, <1>4, LegalTransition
<1>6. "pr_open" \in States
  BY DEF States
<1>7. /\ u.state = "pr_open" /\ u.delivery = t.delivery /\ Extends(u, t)
      /\ Len(u.history) = Len(t.history) + 1
      /\ u.history[Len(t.history) + 1] = row
  BY <1>1, <1>2, <1>6, TransitionIs
<1> QED
  BY <1>1, <1>3, <1>5, <1>7

(* What a ticket at `pr_open` is settled to. *)
LEMMA Settles ==
  ASSUME NEW t \in TicketRecords, IsALifecycle(t), t.state = "pr_open",
         NEW said \in {"open", "closed", "merged"}, t.delivery.state = said,
         NEW u \in Settled(t, said)
  PROVE  /\ u \in TicketRecords
         /\ IsALifecycle(u)
         /\ Extends(u, t)
         /\ u.delivery = t.delivery
         /\ u.state \in {"pr_open", "merged", "closed", "changes_requested"}
         /\ u.state = "merged" => said = "merged"
         /\ \A j \in Len(t.history) + 1 .. Len(u.history) : u.history[j].from = "pr_open"
<1>1. CASE said = "open"
  <2>1. u = t
    BY <1>1 DEF Settled
  <2>2. Len(t.history) + 1 .. Len(t.history) = {}
    BY RecordFields
  <2> QED
    BY <2>1, <2>2, ExtendsItself
<1>2. ASSUME NEW to \in {"merged", "closed", "changes_requested"}, NEW says \in Said,
             u = Transition(t, to, Note(says)), Legal(t, to, Note(says)),
             to = "merged" => said = "merged"
      PROVE  /\ u \in TicketRecords /\ IsALifecycle(u) /\ Extends(u, t)
             /\ u.delivery = t.delivery
             /\ u.state \in {"pr_open", "merged", "closed", "changes_requested"}
             /\ u.state = "merged" => said = "merged"
             /\ \A j \in Len(t.history) + 1 .. Len(u.history) : u.history[j].from = "pr_open"
  <2> DEFINE note == Note(says)
             row == [from |-> t.state, to |-> to, note |-> note]
  <2>1. note \in Notes /\ to \in States
    BY NotesAreNotes DEF States
  <2>2. row.from = "pr_open"
    OBVIOUS
  <2>3. u = Transition(t, to, note) /\ Legal(t, to, note)
    BY <1>2
  <2> HIDE DEF note
  <2>4. u \in TicketRecords /\ IsALifecycle(u)
    BY <2>1, <2>3, LegalTransition
  <2>5. /\ u.state = to /\ u.delivery = t.delivery /\ Extends(u, t)
        /\ Len(u.history) = Len(t.history) + 1
        /\ u.history[Len(t.history) + 1] = row
    BY <2>1, <2>3, TransitionIs
  <2>6. Len(t.history) \in Nat
    BY RecordFields
  <2> QED
    BY <1>2, <2>2, <2>4, <2>5, <2>6
<1>3. CASE said = "merged"
  <2>1. u = Transition(t, "merged", Note("merged"))
    BY <1>3 DEF Settled
  <2>2. Legal(t, "merged", Note("merged"))
    BY AlwaysLegal, AlwaysRows
  <2>3. "merged" \in Said
    BY DEF Said
  <2> QED
    BY <1>2, <1>3, <2>1, <2>2, <2>3
<1>4. CASE said = "closed"
  <2>1. PICK to \in {"closed", "changes_requested"} :
          u = Transition(t, to, Note("closed_without_merging"))
    BY <1>4 DEF Settled
  <2>2. Legal(t, to, Note("closed_without_merging"))
    <3>1. Admits(Row("pr_open", to, "pull_request_closed"), t, Note("closed_without_merging"))
      BY <1>4, RowFields DEF Admits
    <3>2. Row("pr_open", to, "pull_request_closed") \in Rows
      BY GuardedRows
    <3> QED
      BY <3>1, <3>2, RowFields DEF Legal
  <2>3. "closed_without_merging" \in Said
    BY DEF Said
  <2> QED
    BY <1>2, <2>1, <2>2, <2>3
<1> QED
  BY <1>1, <1>3, <1>4

-----------------------------------------------------------------------------
(* What each command writes, from the record it goes by. *)

(* A run that starts, or finds its spec stale, over any ticket it may. *)
Begun(u, to, note) ==
  /\ Readied \in TicketRecords
  /\ u \in TicketRecords
  /\ IsALifecycle(u)
  /\ Extends(u, ticket)
  /\ Extends(u, Readied)
  /\ u.state = to
  /\ u.delivery = ticket.delivery
  /\ Len(u.history) = Len(Readied.history) + 1
  /\ u.history[Len(u.history)] = [from |-> "ready", to |-> to, note |-> note]
  /\ \A j \in Len(ticket.history) + 1 .. Len(u.history) :
       ~(u.history[j].from = "failed" /\ u.history[j].to = "pr_open")

LEMMA Begins ==
  ASSUME ticket \in TicketRecords, IsALifecycle(ticket), Startable,
         NEW to \in States, NEW note \in Notes, Row("ready", to, "always") \in Rows,
         NEW u, u = Transition(Readied, to, note)
  PROVE  Begun(u, to, note)
<1> DEFINE w == Readied
           n == Len(w.history)
           row == [from |-> w.state, to |-> to, note |-> note]
<1>1. /\ w \in TicketRecords /\ IsALifecycle(w) /\ Extends(w, ticket)
      /\ w.state = "ready" /\ w.delivery = ticket.delivery
      /\ \A j \in Len(ticket.history) + 1 .. n :
           ~(w.history[j].from = "failed" /\ w.history[j].to = "pr_open")
  <2>1. CASE ticket.state = "ready"
    <3>1. w = ticket
      BY <2>1 DEF Readied
    <3>2. Len(ticket.history) + 1 .. Len(ticket.history) = {}
      BY RecordFields
    <3> QED
      BY <2>1, <3>1, <3>2, ExtendsItself
  <2>2. CASE ticket.state # "ready"
    <3>1. w = Reopen(ticket) /\ CanReopen(ticket)
      BY <2>2 DEF Readied, Startable
    <3> HIDE DEF w
    <3> QED
      BY <3>1, Reopening
  <2> QED
    BY <2>1, <2>2
<1>2. row = [from |-> "ready", to |-> to, note |-> note] /\ row.from = "ready"
  BY <1>1
<1>3. u = Transition(w, to, note)
  OBVIOUS
<1> HIDE DEF w
<1>4. Legal(w, to, note)
  BY <1>1, AlwaysLegal
<1>5. u \in TicketRecords /\ IsALifecycle(u)
  BY <1>1, <1>3, <1>4, LegalTransition
<1>6. /\ u.state = to /\ u.delivery = w.delivery /\ Extends(u, w)
      /\ Len(u.history) = n + 1 /\ u.history[n + 1] = row
  BY <1>1, <1>3, TransitionIs
<1>7. Extends(u, ticket)
  BY <1>1, <1>5, <1>6, ExtendsFurther
<1>8. n \in Nat /\ Len(ticket.history) \in Nat
  BY <1>1, RecordFields
<1>9. ASSUME NEW j \in Len(ticket.history) + 1 .. Len(u.history)
      PROVE  ~(u.history[j].from = "failed" /\ u.history[j].to = "pr_open")
  <2>1. CASE j = n + 1
    BY <2>1, <1>2, <1>6
  <2>2. CASE j # n + 1
    <3>1. j \in Len(ticket.history) + 1 .. n /\ j \in 1 .. n
      BY <2>2, <1>6, <1>8
    <3>2. u.history[j] = w.history[j]
      BY <3>1, <1>6 DEF Extends
    <3> QED
      BY <3>1, <3>2, <1>1
  <2> QED
    BY <2>1, <2>2
<1> HIDE DEF row
<1> QED
  BY <1>1, <1>2, <1>5, <1>6, <1>7, <1>9 DEF w, n, Begun

(* A refusal that moves the ticket. *)
PutBack(u, to) ==
  /\ u \in TicketRecords
  /\ IsALifecycle(u)
  /\ Extends(u, ticket)
  /\ u.state = to
  /\ u.delivery = ticket.delivery
  /\ \A j \in Len(ticket.history) + 1 .. Len(u.history) : u.history[j].from = "provisioning"

LEMMA Refuses ==
  ASSUME ticket \in TicketRecords, IsALifecycle(ticket), ticket.state = "provisioning",
         NEW to \in {"changes_requested", "failed"},
         NEW u, u = Transition(ticket, to, AnswersOwedNote)
  PROVE  PutBack(u, to)
<1> DEFINE note == AnswersOwedNote
           row == [from |-> ticket.state, to |-> to, note |-> note]
<1>1. to \in States /\ note \in Notes
  <2>1. "answers_owed" \in Said
    BY DEF Said
  <2> QED
    BY <2>1, NotesAreNotes DEF States, AnswersOwedNote
<1>2. Legal(ticket, to, note)
  <2>1. CASE to = "failed"
    BY <2>1, AlwaysLegal, AlwaysRows
  <2>2. CASE to = "changes_requested"
    <3>1. Admits(Row("provisioning", "changes_requested", "answers_owed"), ticket, note)
      BY RowFields DEF Admits, AnswersOwedNote, Note
    <3> QED
      BY <2>2, <3>1, GuardedRows, RowFields DEF Legal
  <2> QED
    BY <2>1, <2>2
<1>3. row.from = "provisioning"
  OBVIOUS
<1>4. u = Transition(ticket, to, note)
  OBVIOUS
<1> HIDE DEF note
<1>5. u \in TicketRecords /\ IsALifecycle(u)
  BY <1>1, <1>2, <1>4, LegalTransition
<1>6. /\ u.state = to /\ u.delivery = ticket.delivery /\ Extends(u, ticket)
      /\ Len(u.history) = Len(ticket.history) + 1
      /\ u.history[Len(ticket.history) + 1] = row
  BY <1>1, <1>4, TransitionIs
<1>7. Len(ticket.history) \in Nat
  BY RecordFields
<1> QED
  BY <1>3, <1>5, <1>6, <1>7 DEF PutBack

(* A run that finishes. *)
Finished(u, d) ==
  /\ u \in TicketRecords
  /\ IsALifecycle(u)
  /\ Extends(u, ticket)
  /\ u.delivery = d.delivery
  /\ u.state \in {"pr_open", "changes_requested", "failed"}
  /\ \A j \in Len(ticket.history) + 1 .. Len(u.history) :
       u.history[j].from = "failed" /\ u.history[j].to = "pr_open" => ticket.state = "failed"

LEMMA Finishes ==
  ASSUME ticket \in TicketRecords, IsALifecycle(ticket), NEW result \in RunResults,
         NEW d, d = RecordDelivery(ticket, result),
         ReachesItsEnd(d, ObservedPath(result)),
         NEW u, u = ApplyObservedPath(d, ObservedPath(result))
  PROVE  Finished(u, d)
<1> DEFINE S == ObservedSteps(result.outcome)
           p == ObservedPath(result)
<1>1. result.outcome \in {"approved", "gated", "failed"}
  BY DEF RunResults
<1>2. S \subseteq Steps
  BY <1>1, ObservedStepsAreSteps
<1>3. p \in Seq(S) /\ p # <<>> /\ Last(p) \in EndSteps(result.outcome)
  BY ObservedPathIs
<1>4. /\ d \in TicketRecords /\ d.state = ticket.state /\ d.history = ticket.history
      /\ Extends(d, ticket) /\ IsALifecycle(d)
  BY DeliveryRecorded DEF IsRecorded
<1>5. ReachesItsEnd(d, p) /\ u = ApplyObservedPath(d, p)
  OBVIOUS
<1>6. \A x \in S : ~(\E y \in S : y[1] = "failed" /\ x[1] = "pr_open")
  BY <1>1 DEF ObservedSteps, Seen, EndSteps
<1> HIDE DEF p, S
<1>7. Along(u, d, S)
  BY <1>2, <1>3, <1>4, <1>5, WalkAlong
<1>8. u.state \in {"pr_open", "changes_requested", "failed"}
  <2>1. u.state = Last(p)[1]
    BY <1>3, <1>5 DEF ReachesItsEnd
  <2>2. \A x \in EndSteps(result.outcome) : x[1] \in {"pr_open", "changes_requested", "failed"}
    BY <1>1 DEF EndSteps
  <2> QED
    BY <1>3, <2>1, <2>2
<1>9. u \in TicketRecords /\ Extends(u, d) /\ IsALifecycle(u) /\ u.delivery = d.delivery
  BY <1>7 DEF Along
<1>10. Extends(u, ticket)
  BY <1>4, <1>9, ExtendsFurther
<1>11. ASSUME NEW j \in Len(ticket.history) + 1 .. Len(u.history),
              u.history[j].from = "failed", u.history[j].to = "pr_open"
       PROVE  ticket.state = "failed"
  <2>1. j \in Len(d.history) + 1 .. Len(u.history)
    BY <1>4
  <2>2. PICK x \in S : /\ u.history[j].to = x[1]
                       /\ u.history[j].from = d.state \/ \E y \in S : u.history[j].from = y[1]
    BY <2>1, <1>7 DEF Along
  <2> QED
    BY <2>2, <1>4, <1>6, <1>11
<1> QED
  BY <1>8, <1>9, <1>10, <1>11 DEF Finished

(* A failed ticket that is resumed and then settled. *)
LEMMA ResumesAndSettles ==
  ASSUME NEW w \in TicketRecords, IsALifecycle(w), w.state = "failed",
         NEW said \in {"open", "closed", "merged"}, w.delivery.state = said,
         NEW by \in Openers, NEW u \in Settled(FromFailedToPullRequest(w, by), said)
  PROVE  /\ u \in TicketRecords
         /\ IsALifecycle(u)
         /\ Extends(u, w)
         /\ u.delivery = w.delivery
         /\ u.state \in {"pr_open", "merged", "closed", "changes_requested"}
         /\ u.state = "merged" => said = "merged"
         /\ \A j \in Len(w.history) + 1 .. Len(u.history) :
              u.history[j].from = "failed" =>
                u.history[j].note[1] \in {"handed_off", "resumed", "opener_not_recorded"}
<1> DEFINE n == Len(w.history)
<1>1. PICK v : v = FromFailedToPullRequest(w, by)
  OBVIOUS
<1>2. /\ v \in TicketRecords /\ IsALifecycle(v) /\ Extends(v, w)
      /\ v.state = "pr_open" /\ v.delivery = w.delivery
      /\ Len(v.history) = n + 1
      /\ v.history[n + 1].note[1] \in {"handed_off", "resumed", "opener_not_recorded"}
  BY <1>1, Resumes
<1>3. u \in Settled(v, said)
  BY <1>1
<1>4. /\ u \in TicketRecords /\ IsALifecycle(u) /\ Extends(u, v)
      /\ u.delivery = v.delivery
      /\ u.state \in {"pr_open", "merged", "closed", "changes_requested"}
      /\ u.state = "merged" => said = "merged"
      /\ \A j \in Len(v.history) + 1 .. Len(u.history) : u.history[j].from = "pr_open"
  BY <1>2, <1>3, Settles
<1>5. Extends(u, w)
  BY <1>2, <1>4, ExtendsFurther
<1>6. n \in Nat
  BY RecordFields
<1> HIDE DEF n
<1>7. ASSUME NEW j \in n + 1 .. Len(u.history), u.history[j].from = "failed"
      PROVE  u.history[j].note[1] \in {"handed_off", "resumed", "opener_not_recorded"}
  <2>1. CASE j = n + 1
    <3>1. j \in 1 .. Len(v.history)
      BY <1>2, <1>6, <2>1
    <3>2. u.history[j] = v.history[j]
      BY <1>4, <3>1 DEF Extends
    <3> QED
      BY <1>2, <2>1, <3>2
  <2>2. CASE j # n + 1
    <3>1. j \in Len(v.history) + 1 .. Len(u.history)
      BY <1>2, <1>6, <2>2
    <3> QED
      BY <1>4, <1>7, <3>1
  <2> QED
    BY <2>1, <2>2
<1> QED
  BY <1>2, <1>4, <1>5, <1>7 DEF n

(* A sync that moves the ticket: from the record it read. *)
IsReconciledFrom(u, t, w, said, stranded) ==
  /\ u \in TicketRecords
  /\ IsALifecycle(u)
  /\ Extends(u, t)
  /\ u.delivery = w.delivery
  /\ u.state = "merged" => t.state = "merged" \/ said = "merged"
  /\ u.state = "failed" => t.state = "failed"
  /\ u.state = "ready" => t.state = "ready" /\ u.history = t.history
  /\ u.state # "provisioning"
  /\ \A j \in Len(t.history) + 1 .. Len(u.history) :
       u.history[j].from = "failed" /\ u.history[j].to = "pr_open" =>
         u.history[j].note[1] \in {"handed_off", "resumed", "opener_not_recorded"}
  /\ stranded => \E j \in 1 .. Len(u.history) : u.history[j].note = Note("reconciled")

LEMMA Reconciles ==
  ASSUME NEW s, NEW t, t = sync[s].read, t \in TicketRecords, IsALifecycle(t),
         NEW number \in Nat, number = sync[s].number,
         NEW said \in {"open", "closed", "merged"}, said = sync[s].said,
         NEW stranded, stranded = (t.state \in STRANDED_STATES),
         NEW w, w = WrittenDelivery(t, number, said, stranded),
         NEW u \in Reconciled(s), u # ticket
  PROVE  IsReconciledFrom(u, t, w, said, stranded)
<1> DEFINE p == StatesReconciled(attempts, said)
           by == AttributePullRequest(t, number)
           n == Len(t.history)
<1>1. /\ w \in TicketRecords /\ w.state = t.state /\ w.history = t.history
      /\ w.delivery.state = said /\ Extends(w, t) /\ IsALifecycle(w)
  BY DeliveryWritten DEF IsWritten
<1>2. n \in Nat /\ n + 1 .. n = {} /\ t.state \in States
  BY RecordFields
<1>3. u \in CASE stranded ->
                   IF ReachesItsEnd(w, p) THEN {ApplyObservedPath(w, p)} ELSE {ticket}
              [] t.state = "failed" /\ said \in {"open", "merged"} ->
                   Settled(FromFailedToPullRequest(w, by), said)
              [] t.state = "pr_open" -> Settled(w, said)
              [] OTHER -> {w}
  BY DEF Reconciled
<1>4. stranded => t.state # "failed" /\ t.state # "pr_open"
  BY DEF STRANDED_STATES
<1>5. CASE stranded
  <2> DEFINE S == ReconciledSteps(said)
  <2>1. /\ S \subseteq Steps /\ p \in Seq(S) /\ p # <<>>
        /\ Last(p)[1] = CASE said = "open"   -> "pr_open"
                          [] said = "merged" -> "merged"
                          [] said = "closed" -> "changes_requested"
    BY ReconciledPathIs
  <2>2. \A x \in S : /\ x[1] \notin {"failed", "ready", "provisioning"}
                     /\ x[2] = Note("reconciled")
    BY DEF ReconciledSteps
  <2> HIDE DEF p, S
  <2>3. ReachesItsEnd(w, p) /\ u = ApplyObservedPath(w, p)
    <3>1. u \in IF ReachesItsEnd(w, p) THEN {ApplyObservedPath(w, p)} ELSE {ticket}
      BY <1>3, <1>4, <1>5
    <3> QED
      BY <3>1
  <2>4. Along(u, w, S)
    BY <1>1, <2>1, <2>3, WalkAlong
  <2>5. u.state \in {"pr_open", "merged", "changes_requested"} /\ (u.state = "merged" => said = "merged")
    <3>1. u.state = Last(p)[1]
      BY <2>1, <2>3 DEF ReachesItsEnd
    <3> QED
      BY <2>1, <3>1
  <2>6. u \in TicketRecords /\ Extends(u, w) /\ IsALifecycle(u) /\ u.delivery = w.delivery
    BY <2>4 DEF Along
  <2>7. Extends(u, t)
    BY <1>1, <2>6, ExtendsFurther
  <2>8. ASSUME NEW j \in n + 1 .. Len(u.history)
        PROVE  u.history[j].from # "failed" /\ u.history[j].note = Note("reconciled")
    <3>1. j \in Len(w.history) + 1 .. Len(u.history)
      BY <1>1
    <3>2. PICK x \in S : /\ u.history[j].note = x[2]
                         /\ u.history[j].from = w.state \/ \E y \in S : u.history[j].from = y[1]
      BY <3>1, <2>4 DEF Along
    <3> QED
      BY <3>2, <1>1, <1>4, <1>5, <2>2
  <2>9. \E j \in 1 .. Len(u.history) : u.history[j].note = Note("reconciled")
    <3>1. u.state # w.state
      BY <1>1, <1>5, <2>5 DEF STRANDED_STATES
    <3>2. Len(u.history) > n /\ Len(u.history) \in Nat
      BY <1>1, <2>4, <2>6, <3>1, RecordFields DEF Along
    <3>3. n + 1 \in n + 1 .. Len(u.history) /\ n + 1 \in 1 .. Len(u.history)
      BY <1>2, <3>2
    <3> QED
      BY <3>3, <2>8
  <2> QED
    BY <2>5, <2>6, <2>7, <2>8, <2>9 DEF IsReconciledFrom
<1>6. CASE ~stranded /\ t.state = "failed" /\ said \in {"open", "merged"}
  <2>1. u \in Settled(FromFailedToPullRequest(w, by), said)
    BY <1>3, <1>6
  <2>2. by \in Openers /\ w.state = "failed" /\ w \in TicketRecords /\ IsALifecycle(w)
    BY <1>1, <1>6, OpenersAre
  <2> HIDE DEF by, n
  <2>3. /\ u \in TicketRecords /\ IsALifecycle(u) /\ Extends(u, w)
        /\ u.delivery = w.delivery
        /\ u.state \in {"pr_open", "merged", "closed", "changes_requested"}
        /\ u.state = "merged" => said = "merged"
        /\ \A j \in Len(w.history) + 1 .. Len(u.history) :
             u.history[j].from = "failed" =>
               u.history[j].note[1] \in {"handed_off", "resumed", "opener_not_recorded"}
    BY <1>1, <2>1, <2>2, ResumesAndSettles
  <2>4. Extends(u, t)
    BY <1>1, <2>3, ExtendsFurther
  <2> QED
    BY <1>1, <1>6, <2>3, <2>4 DEF n, IsReconciledFrom
<1>7. CASE ~stranded /\ ~(t.state = "failed" /\ said \in {"open", "merged"}) /\ t.state = "pr_open"
  <2>1. u \in Settled(w, said)
    BY <1>3, <1>7
  <2>2. /\ u \in TicketRecords /\ IsALifecycle(u) /\ Extends(u, w)
        /\ u.delivery = w.delivery
        /\ u.state \in {"pr_open", "merged", "closed", "changes_requested"}
        /\ u.state = "merged" => said = "merged"
        /\ \A j \in n + 1 .. Len(u.history) : u.history[j].from = "pr_open"
    BY <1>1, <1>7, <2>1, Settles
  <2>3. Extends(u, t)
    BY <1>1, <2>2, ExtendsFurther
  <2> QED
    BY <1>7, <2>2, <2>3 DEF IsReconciledFrom
<1>8. CASE ~stranded /\ ~(t.state = "failed" /\ said \in {"open", "merged"}) /\ t.state # "pr_open"
  <2>1. u = w
    BY <1>3, <1>8
  <2>2. t.state # "provisioning"
    BY <1>8 DEF STRANDED_STATES
  <2>3. n + 1 .. Len(u.history) = {}
    BY <1>1, <1>2, <2>1
  <2>4. u.state = t.state /\ u.history = t.history /\ Extends(u, t)
    BY <1>1, <2>1
  <2> QED
    BY <1>1, <1>8, <2>1, <2>2, <2>3, <2>4 DEF IsReconciledFrom
<1> QED
  BY <1>5, <1>6, <1>7, <1>8 DEF IsReconciledFrom

-----------------------------------------------------------------------------
(* The invariant of every step: what each variable is, rows that are the   *)
(* lifecycle's in every record a command holds, and no number that the     *)
(* branch does not have.                                                   *)

PullRecords == [by: {"loop", "person"}, state: {"open", "closed", "merged"}]

RunRecords ==
  [at: {"idle", "started", "locked", "owed", "judged", "opened", "returned", "ended"},
   found: States, result: RunResults]

SyncRecords ==
  [at: {"idle", "polling", "polled"}, read: TicketRecords, number: Nat,
   said: {"none", "open", "closed", "merged"}]

Types ==
  /\ ticket \in TicketRecords
  /\ pulls \in Seq(PullRecords)
  /\ reviewed \in BOOLEAN
  /\ lockOwner \in Runs \union {None}
  /\ run \in [Runs -> RunRecords]
  /\ sync \in [Syncs -> SyncRecords]
  /\ mishaps \subseteq Mishaps

Lifecycles ==
  /\ IsALifecycle(ticket)
  /\ \A s \in Syncs : IsALifecycle(sync[s].read)

(* A pull request that is named is one the branch has, and what a sync was *)
(* told is of the newest there was, which no record it read is ahead of.   *)
Numbers ==
  /\ Len(pulls) <= MaxPulls
  /\ ticket.delivery.number <= Len(pulls)
  /\ \A r \in Runs : run[r].result.number <= Len(pulls)
  /\ \A s \in Syncs :
       /\ sync[s].read.delivery.number <= Len(pulls)
       /\ sync[s].number <= Len(pulls)
       /\ sync[s].at = "polled" =>
            /\ sync[s].said # "none"
            /\ sync[s].number >= 1
            /\ sync[s].number >= sync[s].read.delivery.number

IInv == Types /\ Lifecycles /\ Numbers

(* While no sync wrote a stale record: with one run, every row out of      *)
(* `failed` to `pr_open` has its evidence, and nothing but a run's own     *)
(* start finds a ticket at `failed`.                                       *)
Evidenced(t) ==
  \A j \in 1 .. Len(t.history) :
    t.history[j].from = "failed" /\ t.history[j].to = "pr_open" =>
      t.history[j].note[1] \in {"handed_off", "resumed", "opener_not_recorded"}

AloneIsEvidenced ==
  "stale_write" \notin mishaps =>
    /\ Evidenced(ticket)
    /\ UnderWay # {} => ticket.state # "failed"

(* A merge on record, read or reported is of a pull request that was.      *)
SomeMerged == \E i \in 1 .. Len(pulls) : pulls[i].state = "merged"

Merges ==
  /\ ticket.state = "merged" => SomeMerged
  /\ \A s \in Syncs :
       /\ sync[s].read.state = "merged" => SomeMerged
       /\ sync[s].at = "polled" /\ sync[s].said = "merged" => SomeMerged

(* What a run knows once it was judged. *)
Judged ==
  \A r \in Runs :
    run[r].at \in {"judged", "opened", "returned"} =>
      /\ run[r].result.judged => run[r].result.rounds
      /\ run[r].result.outcome = "approved" => run[r].result.judged \/ ~run[r].result.rounds

(* A start that a refusal would undo, as it reads the last two rows.       *)
Undoable ==
  /\ ticket.state = "provisioning"
  /\ LeftByLastStart \in {"changes_requested", "failed"}

StartsAreNamed ==
  mishaps \cap {"written_under_a_run", "restarted_under_a_run"} = {} /\ Undoable =>
    \A r \in Unjudged : run[r].found = LeftByLastStart

(* A ticket is at `ready` before its first run only, and while nothing     *)
(* moved it under a run, every run that may yet be refused was started     *)
(* from the state the last two rows name.                                  *)
Settling ==
  /\ ticket.state = "ready" => ticket.history = <<>>
  /\ \A s \in Syncs : sync[s].read.state = "ready" => sync[s].read.history = <<>>
  /\ StartsAreNamed

(* Whose the pull requests are, while nothing was lost. *)
IsReconciled(t) == \E j \in 1 .. Len(t.history) : t.history[j].note = Note("reconciled")

Ours(n) == pulls[n].by = "loop"

(* Every number a run has not recorded yet is of a pull request of its     *)
(* loop's.  On record, none of the loop's is credited to anyone else, and  *)
(* none is later than the one named, but those that runs have in hand.     *)
(* Until a stranded ticket is reconciled, the opener is on record and a    *)
(* pull request credited to the loop is the loop's.                        *)
InHand == \A r \in Runs : run[r].result.number # 0 => run[r].at \in {"opened", "returned"}

InHandAreOurs == \A r \in Runs : run[r].result.number # 0 => Ours(run[r].result.number)

HandedIsTheirs ==
  /\ ticket.delivery.openedBy # "unknown" => ticket.delivery.number # 0
  /\ ticket.delivery.number # 0 /\ ticket.delivery.openedBy # "loop" =>
       ~Ours(ticket.delivery.number)
  /\ \A n \in 1 .. Len(pulls) :
       Ours(n) => \/ n <= ticket.delivery.number
                  \/ \E r \in Runs : run[r].result.number = n

OpenerIsKnown ==
  /\ ticket.delivery.number # 0 => ticket.delivery.openedBy # "unknown"
  /\ ticket.delivery.openedBy = "loop" => Ours(ticket.delivery.number)

Openings ==
  /\ InHand
  /\ mishaps = {} =>
       /\ InHandAreOurs
       /\ HandedIsTheirs
       /\ ~IsReconciled(ticket) => OpenerIsKnown

LEMMA RecordsAre ==
  ASSUME Types
  PROVE  /\ ticket \in TicketRecords
         /\ pulls \in Seq(PullRecords) /\ Len(pulls) \in Nat
         /\ \A n \in 1 .. Len(pulls) : pulls[n] \in PullRecords
         /\ run \in [Runs -> RunRecords]
         /\ \A r \in Runs : /\ run[r] \in RunRecords
                            /\ run[r].result \in RunResults
                            /\ run[r].result.number \in Nat
                            /\ run[r].found \in States
         /\ sync \in [Syncs -> SyncRecords]
         /\ \A s \in Syncs : /\ sync[s] \in SyncRecords
                             /\ sync[s].read \in TicketRecords
                             /\ sync[s].number \in Nat
                             /\ sync[s].said \in {"none", "open", "closed", "merged"}
         /\ mishaps \subseteq Mishaps
<1>1. /\ ticket \in TicketRecords /\ pulls \in Seq(PullRecords)
      /\ run \in [Runs -> RunRecords] /\ sync \in [Syncs -> SyncRecords]
      /\ mishaps \subseteq Mishaps
  BY DEF Types
<1>2. Len(pulls) \in Nat /\ \A n \in 1 .. Len(pulls) : pulls[n] \in PullRecords
  BY <1>1, LenProperties, ElementOfSeq
<1>3. ASSUME NEW r \in Runs
      PROVE  /\ run[r] \in RunRecords /\ run[r].result \in RunResults
             /\ run[r].result.number \in Nat /\ run[r].found \in States
  <2>1. run[r] \in RunRecords
    BY <1>1
  <2>2. run[r].result \in RunResults /\ run[r].found \in States
    BY <2>1 DEF RunRecords
  <2> QED
    BY <2>1, <2>2 DEF RunResults
<1>4. ASSUME NEW s \in Syncs
      PROVE  /\ sync[s] \in SyncRecords /\ sync[s].read \in TicketRecords
             /\ sync[s].number \in Nat /\ sync[s].said \in {"none", "open", "closed", "merged"}
  <2>1. sync[s] \in SyncRecords
    BY <1>1
  <2> QED
    BY <2>1 DEF SyncRecords
<1> QED
  BY <1>1, <1>2, <1>3, <1>4

LEMMA FreshRecords ==
  /\ NoResult \in RunResults /\ NoResult.number = 0
  /\ Unstarted \in RunRecords /\ Unstarted.result = NoResult /\ Unstarted.at = "idle"
  /\ [Unstarted EXCEPT !.at = "ended"] \in RunRecords
  /\ [Unstarted EXCEPT !.at = "ended"].result = NoResult
  /\ [Unstarted EXCEPT !.at = "ended"].at = "ended"
  /\ NoDelivery \in DeliveryRecords /\ NoDelivery.number = 0 /\ NoDelivery.openedBy = "unknown"
  /\ Approved \in TicketRecords /\ IsALifecycle(Approved) /\ Approved.history = <<>>
  /\ Approved.state = "ready" /\ Approved.delivery = NoDelivery
  /\ Asking \in SyncRecords /\ Asking.at = "idle" /\ Asking.read = Approved
  /\ Asking.number = 0 /\ Asking.said = "none"
<1>1. NoResult \in RunResults /\ NoResult.number = 0
  BY DEF NoResult, RunResults
<1>2. /\ Unstarted \in RunRecords /\ Unstarted.result = NoResult /\ Unstarted.at = "idle"
      /\ [Unstarted EXCEPT !.at = "ended"] \in RunRecords
      /\ [Unstarted EXCEPT !.at = "ended"].result = NoResult
      /\ [Unstarted EXCEPT !.at = "ended"].at = "ended"
  BY <1>1 DEF Unstarted, RunRecords, States
<1>3. NoDelivery \in DeliveryRecords /\ NoDelivery.number = 0 /\ NoDelivery.openedBy = "unknown"
  BY DEF NoDelivery, DeliveryRecords, Openers
<1>4. /\ Approved.history = <<>> /\ Approved.state = "ready" /\ Approved.delivery = NoDelivery
      /\ Len(<<>>) = 0 /\ <<>> \in Seq(HistoryRows)
  BY EmptySeq DEF Approved
<1>5. Approved \in TicketRecords
  BY <1>3, EmptySeq DEF Approved, TicketRecords, States
<1>6. IsALifecycle(Approved)
  BY <1>4 DEF IsALifecycle
<1>7. /\ Asking \in SyncRecords /\ Asking.at = "idle" /\ Asking.read = Approved
      /\ Asking.number = 0 /\ Asking.said = "none"
  BY <1>5 DEF Asking, SyncRecords
<1> QED
  BY <1>1, <1>2, <1>3, <1>4, <1>5, <1>6, <1>7

(* The record an earlier run left. *)
LEMMA FailedOnceIs ==
  /\ FailedOnce \in TicketRecords
  /\ IsALifecycle(FailedOnce)
  /\ FailedOnce.state = "failed"
  /\ FailedOnce.delivery.number = 0
  /\ FailedOnce.delivery.openedBy = "unknown"
  /\ Len(FailedOnce.history) = 2
  /\ FailedOnce.history[1].to = "provisioning"
  /\ FailedOnce.history[2].to = "failed"
<1> DEFINE row1 == [from |-> "ready", to |-> "provisioning", note |-> RunStartedNote]
           row2 == [from |-> "provisioning", to |-> "failed", note |-> Note("did_not_complete")]
           d == [NoDelivery EXCEPT !.branch = TRUE]
<1>1. FailedOnce.state = "failed" /\ FailedOnce.history = <<row1, row2>> /\ FailedOnce.delivery = d
  BY DEF FailedOnce
<1>2. d \in DeliveryRecords /\ d.number = 0 /\ d.openedBy = "unknown"
  BY DEF NoDelivery, DeliveryRecords, Openers
<1>3. row1 \in HistoryRows /\ row2 \in HistoryRows
  <2>1. RunStartedNote \in Notes /\ Note("did_not_complete") \in Notes
    <3>1. "run_started" \in Said /\ "did_not_complete" \in Said
      BY DEF Said
    <3> QED
      BY <3>1, NotesAreNotes DEF RunStartedNote
  <2> QED
    BY <2>1 DEF HistoryRows, States
<1>4. /\ row1.from = "ready" /\ row1.to = "provisioning"
      /\ row2.from = "provisioning" /\ row2.to = "failed"
  OBVIOUS
<1>5. /\ <<"ready", "provisioning">> \in Edges
      /\ <<"provisioning", "failed">> \in Edges
  BY AlwaysRows, RowFields DEF Edges
<1> DEFINE h == <<row1, row2>>
<1> HIDE DEF row1, row2, d
<1>6. h \in Seq(HistoryRows) /\ Len(h) = 2 /\ h[1] = row1 /\ h[2] = row2
  BY <1>3
<1>7. FailedOnce \in TicketRecords
  <2>1. FailedOnce = [state |-> "failed", history |-> h, delivery |-> d]
    BY DEF FailedOnce, row1, row2, d
  <2>2. "failed" \in States
    BY DEF States
  <2> HIDE DEF h
  <2> QED
    BY <1>2, <1>6, <2>1, <2>2 DEF TicketRecords
<1> HIDE DEF h
<1>8. IsALifecycle(FailedOnce)
  <2>1. FailedOnce.history = h
    BY <1>1 DEF h
  <2>2. \A i \in 1 .. 2 : <<h[i].from, h[i].to>> \in Edges
    BY <1>4, <1>5, <1>6
  <2>3. \A i \in 1 .. 2 - 1 : h[i].to = h[i + 1].from
    BY <1>4, <1>6
  <2> QED
    BY <1>1, <1>4, <1>6, <2>1, <2>2, <2>3 DEF IsALifecycle
<1> QED
  BY <1>1, <1>2, <1>4, <1>6, <1>7, <1>8 DEF h

LEMMA InitIsInvariant == Init => IInv
<1> SUFFICES ASSUME Init PROVE IInv
  OBVIOUS
<1>1. /\ ticket \in {Approved, FailedOnce} /\ pulls = <<>>
      /\ reviewed = FALSE /\ lockOwner = None
      /\ run = [r \in Runs |-> Unstarted] /\ sync = [s \in Syncs |-> Asking] /\ mishaps = {}
  BY DEF Init
<1>2. <<>> \in Seq(PullRecords) /\ Len(<<>>) = 0
  BY EmptySeq
<1>3. Types
  BY <1>1, <1>2, FreshRecords, FailedOnceIs DEF Types
<1>4. Lifecycles
  BY <1>1, FreshRecords, FailedOnceIs DEF Lifecycles
<1>5. Numbers
  <2>1. ticket.delivery.number = 0
    BY <1>1, FreshRecords, FailedOnceIs
  <2>2. \A r \in Runs : run[r].result.number = 0
    BY <1>1, FreshRecords
  <2>3. \A s \in Syncs : sync[s].read.delivery.number = 0 /\ sync[s].number = 0 /\ sync[s].at = "idle"
    BY <1>1, FreshRecords
  <2> QED
    BY <1>1, <1>2, <2>1, <2>2, <2>3, ConstantsAssumption DEF Numbers
<1> QED
  BY <1>3, <1>4, <1>5 DEF IInv

-----------------------------------------------------------------------------
(* What each action does to the runs, the syncs and the pull requests. *)

LEMMA OneRunChanges ==
  ASSUME NEW f \in [Runs -> RunRecords], NEW r \in Runs, NEW v \in RunRecords,
         NEW g, g = [f EXCEPT ![r] = v]
  PROVE  /\ g \in [Runs -> RunRecords]
         /\ g[r] = v
         /\ \A q \in Runs : q # r => g[q] = f[q]
  OBVIOUS

(* A run that moves on keeps what it knows. *)
LEMMA AtChanges ==
  ASSUME NEW f \in [Runs -> RunRecords], NEW r \in Runs,
         NEW there \in {"started", "locked", "owed"},
         NEW g, g = [f EXCEPT ![r].at = there]
  PROVE  /\ g \in [Runs -> RunRecords]
         /\ \A q \in Runs : g[q].result = f[q].result /\ g[q].found = f[q].found
         /\ g[r].at = there
         /\ \A q \in Runs : q # r => g[q] = f[q]
<1> DEFINE v == [f[r] EXCEPT !.at = there]
<1>1. f[r] \in RunRecords
  OBVIOUS
<1>2. /\ v \in RunRecords /\ v.at = there /\ v.result = f[r].result /\ v.found = f[r].found
  BY <1>1 DEF RunRecords
<1>3. g = [f EXCEPT ![r] = v]
  OBVIOUS
<1> HIDE DEF v
<1>4. g \in [Runs -> RunRecords] /\ g[r] = v /\ \A q \in Runs : q # r => g[q] = f[q]
  BY <1>2, <1>3, OneRunChanges
<1> QED
  BY <1>2, <1>4

(* A process that is gone knows nothing. *)
HasEnded(f, g, r) ==
  /\ g \in [Runs -> RunRecords]
  /\ g[r].at = "ended" /\ g[r].result = NoResult /\ g[r].result.number = 0
  /\ \A q \in Runs : q # r => g[q] = f[q]

LEMMA RunEnds ==
  ASSUME NEW f \in [Runs -> RunRecords], NEW r \in Runs,
         NEW g, g = [f EXCEPT ![r] = [Unstarted EXCEPT !.at = "ended"]]
  PROVE  HasEnded(f, g, r)
<1>1. PICK v : v = [Unstarted EXCEPT !.at = "ended"]
  OBVIOUS
<1>2. v \in RunRecords /\ v.at = "ended" /\ v.result = NoResult /\ v.result.number = 0
  BY <1>1, FreshRecords
<1>3. g = [f EXCEPT ![r] = v]
  BY <1>1
<1>4. g \in [Runs -> RunRecords] /\ g[r] = v /\ \A q \in Runs : q # r => g[q] = f[q]
  BY <1>2, <1>3, OneRunChanges
<1> QED
  BY <1>2, <1>4 DEF HasEnded

(* A run that starts, knowing where it found the ticket. *)
HasStarted(f, g, r, found) ==
  /\ g \in [Runs -> RunRecords]
  /\ \A q \in Runs : g[q].result = f[q].result
  /\ g[r].at = "started" /\ g[r].found = found
  /\ \A q \in Runs : q # r => g[q] = f[q]

LEMMA RunStarts ==
  ASSUME NEW f \in [Runs -> RunRecords], NEW r \in Runs, NEW found \in States,
         NEW g, g = [f EXCEPT ![r] = [@ EXCEPT !.at = "started", !.found = found]]
  PROVE  HasStarted(f, g, r, found)
<1> DEFINE v == [f[r] EXCEPT !.at = "started", !.found = found]
<1>1. f[r] \in RunRecords
  OBVIOUS
<1>2. v \in RunRecords /\ v.at = "started" /\ v.result = f[r].result /\ v.found = found
  BY <1>1 DEF RunRecords
<1>3. g = [f EXCEPT ![r] = v]
  OBVIOUS
<1> HIDE DEF v
<1>4. g \in [Runs -> RunRecords] /\ g[r] = v /\ \A q \in Runs : q # r => g[q] = f[q]
  BY <1>2, <1>3, OneRunChanges
<1> QED
  BY <1>2, <1>4 DEF HasStarted

(* A run whose loop has judged it. *)
IsJudged(f, g, r, result) ==
  /\ g \in [Runs -> RunRecords]
  /\ g[r].at = "judged" /\ g[r].result = result /\ result.number = 0
  /\ result \in RunResults
  /\ \A q \in Runs : q # r => g[q] = f[q]

LEMMA RunIsJudged ==
  ASSUME NEW f \in [Runs -> RunRecords], NEW r \in Runs, NEW result \in Results,
         NEW g, g = [f EXCEPT ![r] =
                      [at |-> "judged", found |-> Unstarted.found, result |-> result]]
  PROVE  IsJudged(f, g, r, result)
<1> DEFINE v == [at |-> "judged", found |-> Unstarted.found, result |-> result]
<1>1. result \in RunResults /\ result.number = 0
  BY DEF Results, RunResults
<1>2. Unstarted.found \in States
  BY DEF Unstarted, States
<1>3. v \in RunRecords /\ v.at = "judged" /\ v.result = result
  BY <1>1, <1>2 DEF RunRecords
<1>4. g = [f EXCEPT ![r] = v]
  OBVIOUS
<1> HIDE DEF v
<1>5. g \in [Runs -> RunRecords] /\ g[r] = v /\ \A q \in Runs : q # r => g[q] = f[q]
  BY <1>3, <1>4, OneRunChanges
<1> QED
  BY <1>1, <1>3, <1>5 DEF IsJudged

(* A run with a pull request: the rest of its result is as it was. *)
HasOpened(f, g, r, number) ==
  /\ g \in [Runs -> RunRecords]
  /\ g[r].at = "opened" /\ g[r].result.number = number
  /\ g[r].result.rounds = f[r].result.rounds
  /\ g[r].result.judged = f[r].result.judged
  /\ g[r].result.outcome = f[r].result.outcome
  /\ \A q \in Runs : q # r => g[q] = f[q]

LEMMA RunOpens ==
  ASSUME NEW f \in [Runs -> RunRecords], NEW r \in Runs, NEW number \in Nat,
         NEW g, g = [f EXCEPT ![r] = [@ EXCEPT !.at = "opened", !.result.number = number]]
  PROVE  HasOpened(f, g, r, number)
<1> DEFINE v == [f[r] EXCEPT !.at = "opened", !.result.number = number]
<1>1. f[r] \in RunRecords /\ f[r].result \in RunResults
  BY DEF RunRecords
<1>2. /\ v \in RunRecords /\ v.at = "opened" /\ v.result.number = number
      /\ v.result.rounds = f[r].result.rounds /\ v.result.judged = f[r].result.judged
      /\ v.result.outcome = f[r].result.outcome
  BY <1>1 DEF RunRecords, RunResults
<1>3. g = [f EXCEPT ![r] = v]
  OBVIOUS
<1> HIDE DEF v
<1>4. g \in [Runs -> RunRecords] /\ g[r] = v /\ \A q \in Runs : q # r => g[q] = f[q]
  BY <1>2, <1>3, OneRunChanges
<1> QED
  BY <1>2, <1>4 DEF HasOpened

(* A run back from its loop. *)
HasReturned(f, g, r) ==
  /\ g \in [Runs -> RunRecords]
  /\ g[r].at = "returned" /\ g[r].result.number = f[r].result.number
  /\ g[r].result.rounds = f[r].result.rounds
  /\ g[r].result.judged = f[r].result.judged
  /\ g[r].result.outcome = f[r].result.outcome
  /\ \A q \in Runs : q # r => g[q] = f[q]

LEMMA RunReturns ==
  ASSUME NEW f \in [Runs -> RunRecords], NEW r \in Runs,
         NEW g, g = [f EXCEPT ![r] = [@ EXCEPT !.at = "returned", !.result.completed = FALSE,
                                               !.result.publishes = FALSE]]
  PROVE  HasReturned(f, g, r)
<1> DEFINE v == [f[r] EXCEPT !.at = "returned", !.result.completed = FALSE,
                             !.result.publishes = FALSE]
<1>1. f[r] \in RunRecords /\ f[r].result \in RunResults
  BY DEF RunRecords
<1>2. /\ v \in RunRecords /\ v.at = "returned" /\ v.result.number = f[r].result.number
      /\ v.result.rounds = f[r].result.rounds /\ v.result.judged = f[r].result.judged
      /\ v.result.outcome = f[r].result.outcome
  BY <1>1 DEF RunRecords, RunResults
<1>3. g = [f EXCEPT ![r] = v]
  OBVIOUS
<1> HIDE DEF v
<1>4. g \in [Runs -> RunRecords] /\ g[r] = v /\ \A q \in Runs : q # r => g[q] = f[q]
  BY <1>2, <1>3, OneRunChanges
<1> QED
  BY <1>2, <1>4 DEF HasReturned

LEMMA OneSyncChanges ==
  ASSUME NEW f \in [Syncs -> SyncRecords], NEW s \in Syncs, NEW v \in SyncRecords,
         NEW g, g = [f EXCEPT ![s] = v]
  PROVE  /\ g \in [Syncs -> SyncRecords]
         /\ g[s] = v
         /\ \A q \in Syncs : q # s => g[q] = f[q]
  OBVIOUS

(* A sync that reads the record, that is told what `gh` says, and that  *)
(* forgets both.                                                           *)
HasRead(f, g, s, t) ==
  /\ g \in [Syncs -> SyncRecords]
  /\ g[s].at = "polling" /\ g[s].read = t /\ g[s].number = 0
  /\ \A q \in Syncs : q # s => g[q] = f[q]

LEMMA SyncReads ==
  ASSUME NEW f \in [Syncs -> SyncRecords], NEW s \in Syncs, NEW t \in TicketRecords,
         NEW g, g = [f EXCEPT ![s] = [Asking EXCEPT !.at = "polling", !.read = t]]
  PROVE  HasRead(f, g, s, t)
<1> DEFINE v == [Asking EXCEPT !.at = "polling", !.read = t]
<1>1. v \in SyncRecords /\ v.at = "polling" /\ v.read = t /\ v.number = 0
  BY DEF Asking, SyncRecords
<1>2. g = [f EXCEPT ![s] = v]
  OBVIOUS
<1> HIDE DEF v
<1>3. g \in [Syncs -> SyncRecords] /\ g[s] = v /\ \A q \in Syncs : q # s => g[q] = f[q]
  BY <1>1, <1>2, OneSyncChanges
<1> QED
  BY <1>1, <1>3 DEF HasRead

IsTold(f, g, s, number, said) ==
  /\ g \in [Syncs -> SyncRecords]
  /\ g[s].at = "polled" /\ g[s].number = number /\ g[s].said = said
  /\ \A q \in Syncs : g[q].read = f[q].read
  /\ \A q \in Syncs : q # s => g[q] = f[q]

LEMMA SyncIsTold ==
  ASSUME NEW f \in [Syncs -> SyncRecords], NEW s \in Syncs, NEW number \in Nat,
         NEW said \in {"open", "closed", "merged"},
         NEW g, g = [f EXCEPT ![s] = [@ EXCEPT !.at = "polled", !.number = number, !.said = said]]
  PROVE  IsTold(f, g, s, number, said)
<1> DEFINE v == [f[s] EXCEPT !.at = "polled", !.number = number, !.said = said]
<1>1. f[s] \in SyncRecords
  OBVIOUS
<1>2. /\ v \in SyncRecords /\ v.at = "polled" /\ v.number = number /\ v.said = said
      /\ v.read = f[s].read
  BY <1>1 DEF SyncRecords
<1>3. g = [f EXCEPT ![s] = v]
  OBVIOUS
<1> HIDE DEF v
<1>4. g \in [Syncs -> SyncRecords] /\ g[s] = v /\ \A q \in Syncs : q # s => g[q] = f[q]
  BY <1>2, <1>3, OneSyncChanges
<1> QED
  BY <1>2, <1>4 DEF IsTold

HasForgotten(f, g, s) ==
  /\ g \in [Syncs -> SyncRecords]
  /\ g[s] = Asking
  /\ \A q \in Syncs : q # s => g[q] = f[q]

LEMMA SyncForgets ==
  ASSUME NEW f \in [Syncs -> SyncRecords], NEW s \in Syncs, NEW g, g = [f EXCEPT ![s] = Asking]
  PROVE  HasForgotten(f, g, s)
<1>1. Asking \in SyncRecords
  BY FreshRecords
<1> QED
  BY <1>1, OneSyncChanges DEF HasForgotten

(* A pull request more, and the last one somewhere else. *)
IsAdded(p, q, by) ==
  /\ q \in Seq(PullRecords)
  /\ Len(q) = Len(p) + 1
  /\ \A n \in 1 .. Len(p) : q[n] = p[n]
  /\ q[Len(q)].by = by

LEMMA PullIsAdded ==
  ASSUME NEW p \in Seq(PullRecords), NEW by \in {"loop", "person"},
         NEW q, q = Append(p, [by |-> by, state |-> "open"])
  PROVE  IsAdded(p, q, by)
<1> DEFINE v == [by |-> by, state |-> "open"]
<1>1. v \in PullRecords /\ v.by = by /\ Len(p) \in Nat
  BY LenProperties DEF PullRecords
<1>2. q = Append(p, v)
  OBVIOUS
<1> HIDE DEF v
<1>3. /\ Append(p, v) \in Seq(PullRecords) /\ Len(Append(p, v)) = Len(p) + 1
      /\ \A n \in 1 .. Len(p) : Append(p, v)[n] = p[n]
      /\ Append(p, v)[Len(p) + 1] = v
  BY <1>1, AppendProperties
<1> QED
  BY <1>1, <1>2, <1>3 DEF IsAdded

IsMoved(p, q, to) ==
  /\ q \in Seq(PullRecords)
  /\ Len(q) = Len(p)
  /\ \A n \in 1 .. Len(p) : q[n].by = p[n].by
  /\ \A n \in 1 .. Len(p) : n # Len(p) => q[n] = p[n]
  /\ q[Len(p)].state = to

LEMMA PullIsMoved ==
  ASSUME NEW p \in Seq(PullRecords), p # <<>>, NEW to \in {"open", "closed", "merged"},
         NEW q, q = [p EXCEPT ![Len(p)].state = to]
  PROVE  IsMoved(p, q, to)
<1> DEFINE v == [p[Len(p)] EXCEPT !.state = to]
<1>1. Len(p) \in Nat /\ Len(p) >= 1 /\ \A n \in 1 .. Len(p) : p[n] \in PullRecords
  BY LenProperties, ElementOfSeq, EmptySeq
<1>2. v \in PullRecords /\ v.by = p[Len(p)].by /\ v.state = to
  <2>1. p[Len(p)] \in PullRecords
    BY <1>1
  <2> QED
    BY <2>1 DEF PullRecords
<1>3. q = [p EXCEPT ![Len(p)] = v]
  OBVIOUS
<1> HIDE DEF v
<1>4. /\ q \in Seq(PullRecords) /\ Len(q) = Len(p)
      /\ \A n \in 1 .. Len(p) : q[n] = IF n = Len(p) THEN v ELSE p[n]
  <2>1. Len(p) \in 1 .. Len(p)
    BY <1>1
  <2>2. /\ [p EXCEPT ![Len(p)] = v] \in Seq(PullRecords)
        /\ Len([p EXCEPT ![Len(p)] = v]) = Len(p)
        /\ \A n \in 1 .. Len(p) : [p EXCEPT ![Len(p)] = v][n] = IF n = Len(p) THEN v ELSE p[n]
    BY <1>2, <2>1, ExceptSeq
  <2> QED
    BY <1>3, <2>2
<1> QED
  BY <1>1, <1>2, <1>4 DEF IsMoved
-----------------------------------------------------------------------------
(* What each action leaves. *)

LEMMA StartLeaves ==
  ASSUME IInv, NEW r \in Runs, Start(r)
  PROVE  /\ Begun(ticket', "provisioning", RunStartedNote)
         /\ HasStarted(run, run', r, ticket.state)
         /\ run[r].at = "idle"
         /\ mishaps' = mishaps \union
              (IF Unjudged # {} /\ ticket.state \in {"changes_requested", "failed"}
               THEN {"restarted_under_a_run"} ELSE {})
         /\ UNCHANGED <<pulls, reviewed, lockOwner, sync>>
<1>1. ticket \in TicketRecords /\ IsALifecycle(ticket) /\ run \in [Runs -> RunRecords]
  BY RecordsAre DEF IInv, Types, Lifecycles
<1>2. Startable /\ ticket' = Transition(Readied, "provisioning", RunStartedNote)
  BY DEF Start
<1>3. RunStartedNote \in Notes /\ "provisioning" \in States
  <2>1. "run_started" \in Said
    BY DEF Said
  <2> QED
    BY <2>1, NotesAreNotes DEF RunStartedNote, States
<1>4. Row("ready", "provisioning", "always") \in Rows
  BY AlwaysRows
<1>5. Begun(ticket', "provisioning", RunStartedNote)
  BY <1>1, <1>2, <1>3, <1>4, Begins, Zenon
<1>6. ticket.state \in States
  BY <1>1, RecordFields
<1>7. run' = [run EXCEPT ![r] = [@ EXCEPT !.at = "started", !.found = ticket.state]]
  BY DEF Start
<1>8. HasStarted(run, run', r, ticket.state)
  BY <1>1, <1>6, <1>7, RunStarts, Zenon
<1>9. /\ run[r].at = "idle"
      /\ mishaps' = mishaps \union
           (IF Unjudged # {} /\ ticket.state \in {"changes_requested", "failed"}
            THEN {"restarted_under_a_run"} ELSE {})
      /\ UNCHANGED <<pulls, reviewed, lockOwner, sync>>
  BY DEF Start
<1> QED
  BY <1>5, <1>8, <1>9

LEMMA EndsLeaves ==
  ASSUME Types, NEW r \in Runs, NEW here, Ends(r, here)
  PROVE  run[r].at \in here /\ HasEnded(run, run', r)
<1>1. run[r].at \in here /\ run' = [run EXCEPT ![r] = [Unstarted EXCEPT !.at = "ended"]]
  BY DEF Ends
<1>2. run \in [Runs -> RunRecords]
  BY RecordsAre
<1>3. HasEnded(run, run', r)
  BY <1>1, <1>2, RunEnds, Zenon
<1> QED
  BY <1>1, <1>3

LEMMA StaleLeaves ==
  ASSUME IInv, NEW r \in Runs, StartOnStaleSpec(r)
  PROVE  /\ Begun(ticket', "plan_invalid", Note("spec_is_stale"))
         /\ run[r].at = "idle"
         /\ HasEnded(run, run', r)
         /\ UNCHANGED <<pulls, reviewed, lockOwner, sync, mishaps>>
<1>1. ticket \in TicketRecords /\ IsALifecycle(ticket)
  BY RecordsAre DEF IInv, Types, Lifecycles
<1>2. Startable /\ ticket' = Transition(Readied, "plan_invalid", Note("spec_is_stale"))
  BY DEF StartOnStaleSpec
<1>3. Note("spec_is_stale") \in Notes /\ "plan_invalid" \in States
  <2>1. "spec_is_stale" \in Said
    BY DEF Said
  <2> QED
    BY <2>1, NotesAreNotes DEF States
<1>4. Row("ready", "plan_invalid", "always") \in Rows
  BY AlwaysRows
<1>5. Begun(ticket', "plan_invalid", Note("spec_is_stale"))
  BY <1>1, <1>2, <1>3, <1>4, Begins, Zenon
<1>6. run[r].at \in {"idle"} /\ HasEnded(run, run', r)
  <2>1. Ends(r, {"idle"}) /\ Types
    BY DEF StartOnStaleSpec, IInv
  <2> QED
    BY <2>1, EndsLeaves
<1>7. UNCHANGED <<pulls, reviewed, lockOwner, sync, mishaps>>
  BY DEF StartOnStaleSpec
<1> QED
  BY <1>5, <1>6, <1>7

(* A run that moves on keeps what it knows. *)
LEMMA MovesLeaves ==
  ASSUME IInv, NEW r \in Runs, TakeRunLock(r) \/ OweAnswers(r)
  PROVE  /\ run' \in [Runs -> RunRecords]
         /\ \A q \in Runs : run'[q].result = run[q].result /\ run'[q].found = run[q].found
         /\ run[r].at \in {"started", "locked"} /\ run'[r].at \in {"locked", "owed"}
         /\ \A q \in Runs : q # r => run'[q] = run[q]
         /\ lockOwner' \in Runs \union {None}
         /\ UNCHANGED <<ticket, pulls, reviewed, sync, mishaps>>
<1>1. run \in [Runs -> RunRecords] /\ lockOwner \in Runs \union {None}
  BY RecordsAre DEF IInv, Types
<1>2. PICK there \in {"locked", "owed"} : run' = [run EXCEPT ![r].at = there]
  BY DEF TakeRunLock, OweAnswers, Moves
<1>3. /\ run' \in [Runs -> RunRecords]
      /\ \A q \in Runs : run'[q].result = run[q].result /\ run'[q].found = run[q].found
      /\ run'[r].at = there
      /\ \A q \in Runs : q # r => run'[q] = run[q]
  BY <1>1, <1>2, AtChanges
<1>4. /\ run[r].at \in {"started", "locked"}
      /\ lockOwner' \in Runs \union {None}
      /\ UNCHANGED <<ticket, pulls, reviewed, sync, mishaps>>
  BY <1>1 DEF TakeRunLock, OweAnswers, Moves, Release
<1> QED
  BY <1>3, <1>4

LEMMA RefusedLeaves ==
  ASSUME IInv, NEW r \in Runs, Refused(r)
  PROVE  /\ \/ ticket' = ticket
            \/ /\ ticket.state = "provisioning"
               /\ Last(ticket.history).note = RunStartedNote
               /\ LeftByLastStart \in {"changes_requested", "failed"}
               /\ PutBack(ticket', LeftByLastStart)
         /\ run[r].at = "owed"
         /\ HasEnded(run, run', r)
         /\ UNCHANGED <<pulls, reviewed, lockOwner, sync, mishaps>>
<1>1. ticket \in TicketRecords /\ IsALifecycle(ticket)
  BY RecordsAre DEF IInv, Types, Lifecycles
<1>2. \/ ticket' = ticket
      \/ /\ ticket.state = "provisioning"
         /\ Last(ticket.history).note = RunStartedNote
         /\ LeftByLastStart \in {"changes_requested", "failed"}
         /\ ticket' = Transition(ticket, LeftByLastStart, AnswersOwedNote)
  BY DEF Refused
<1>3. ASSUME ticket.state = "provisioning", LeftByLastStart \in {"changes_requested", "failed"},
             ticket' = Transition(ticket, LeftByLastStart, AnswersOwedNote)
      PROVE  PutBack(ticket', LeftByLastStart)
  BY <1>1, <1>3, Refuses, Zenon
<1>4. run[r].at \in {"owed"} /\ HasEnded(run, run', r)
  <2>1. Ends(r, {"owed"}) /\ Types
    BY DEF Refused, IInv
  <2> QED
    BY <2>1, EndsLeaves
<1>5. UNCHANGED <<pulls, reviewed, lockOwner, sync, mishaps>>
  BY DEF Refused
<1> QED
  BY <1>2, <1>3, <1>4, <1>5

(* A judgement is of a result the loop can end with. *)
LEMMA JudgeLeaves ==
  ASSUME IInv, NEW r \in Runs, Judge(r)
  PROVE  /\ \E result : Possible(result) /\ IsJudged(run, run', r, result)
         /\ run[r].at = "locked"
         /\ reviewed' \in BOOLEAN
         /\ UNCHANGED <<ticket, pulls, lockOwner, sync, mishaps>>
<1>1. run \in [Runs -> RunRecords] /\ reviewed \in BOOLEAN
  BY RecordsAre DEF IInv, Types
<1>2. PICK result \in Results :
        /\ Possible(result)
        /\ run' = [run EXCEPT ![r] =
             [at |-> "judged", found |-> Unstarted.found, result |-> result]]
        /\ reviewed' = (reviewed \/ result.judged)
  BY DEF Judge
<1>3. IsJudged(run, run', r, result)
  BY <1>1, <1>2, RunIsJudged, Zenon
<1>4. reviewed' \in BOOLEAN
  BY <1>2
<1>5. run[r].at = "locked" /\ UNCHANGED <<ticket, pulls, lockOwner, sync, mishaps>>
  BY DEF Judge
<1> QED
  BY <1>2, <1>3, <1>4, <1>5
LEMMA OpenLeaves ==
  ASSUME IInv, NEW r \in Runs, Open(r)
  PROVE  /\ HasOpened(run, run', r, Len(pulls'))
         /\ run[r].at = "judged"
         /\ \/ /\ pulls # <<>>
               /\ mishaps' = mishaps \union
                    (IF Last(pulls).by = "person" THEN {"opener_lost"} ELSE {})
               /\ pulls' = pulls
            \/ /\ IsAdded(pulls, pulls', "loop")
               /\ Len(pulls) < MaxPulls
               /\ mishaps' = mishaps
         /\ UNCHANGED <<ticket, reviewed, lockOwner, sync>>
<1>1. run \in [Runs -> RunRecords] /\ pulls \in Seq(PullRecords)
  BY RecordsAre DEF IInv
<1>2. \/ /\ pulls # <<>>
         /\ mishaps' = mishaps \union
              (IF Last(pulls).by = "person" THEN {"opener_lost"} ELSE {})
         /\ pulls' = pulls
      \/ /\ pulls' = Append(pulls, [by |-> "loop", state |-> "open"])
         /\ Len(pulls) < MaxPulls
         /\ mishaps' = mishaps
  BY DEF Open, PullIsOpen
<1>3. ASSUME pulls' = Append(pulls, [by |-> "loop", state |-> "open"])
      PROVE  IsAdded(pulls, pulls', "loop")
  BY <1>1, <1>3, PullIsAdded, Zenon
<1>4. pulls' \in Seq(PullRecords)
  BY <1>1, <1>2, <1>3 DEF IsAdded
<1>5. Len(pulls') \in Nat
  BY <1>4, LenProperties
<1>6. run' = [run EXCEPT ![r] = [@ EXCEPT !.at = "opened", !.result.number = Len(pulls')]]
  BY DEF Open
<1>7. HasOpened(run, run', r, Len(pulls'))
  BY <1>1, <1>5, <1>6, RunOpens, Zenon
<1>8. run[r].at = "judged" /\ UNCHANGED <<ticket, reviewed, lockOwner, sync>>
  BY DEF Open
<1> QED
  BY <1>2, <1>3, <1>7, <1>8

LEMMA ReturnLeaves ==
  ASSUME IInv, NEW r \in Runs, Return(r)
  PROVE  /\ HasReturned(run, run', r)
         /\ run[r].at \in {"judged", "opened"}
         /\ lockOwner' \in Runs \union {None}
         /\ UNCHANGED <<ticket, pulls, reviewed, sync, mishaps>>
<1>1. run \in [Runs -> RunRecords] /\ lockOwner \in Runs \union {None}
  BY RecordsAre DEF IInv, Types
<1>2. run' = [run EXCEPT ![r] = [@ EXCEPT !.at = "returned", !.result.completed = FALSE,
                                          !.result.publishes = FALSE]]
  BY DEF Return
<1>3. HasReturned(run, run', r)
  BY <1>1, <1>2, RunReturns, Zenon
<1>4. run[r].at \in {"judged", "opened"} /\ UNCHANGED <<ticket, pulls, reviewed, sync, mishaps>>
  BY DEF Return
<1>5. lockOwner' \in Runs \union {None}
  BY <1>1 DEF Return, Release
<1> QED
  BY <1>3, <1>4, <1>5

LEMMA FinishLeaves ==
  ASSUME IInv, NEW r \in Runs, Finish(r)
  PROVE  /\ IsRecorded(Delivered(r), ticket, run[r].result)
         /\ Finished(ticket', Delivered(r))
         /\ run[r].at = "returned"
         /\ HasEnded(run, run', r)
         /\ mishaps' = mishaps \union
              (IF run[r].result.number \in 1 .. ticket.delivery.number - 1
               THEN {"older_pull_recorded"} ELSE {})
         /\ UNCHANGED <<pulls, reviewed, lockOwner, sync>>
<1>1. /\ ticket \in TicketRecords /\ IsALifecycle(ticket)
      /\ run[r].result \in RunResults
  BY RecordsAre DEF IInv, Types, Lifecycles
<1>2. Delivered(r) = RecordDelivery(ticket, run[r].result)
  BY DEF Delivered
<1>3. IsRecorded(Delivered(r), ticket, run[r].result)
  BY <1>1, <1>2, DeliveryRecorded, Zenon
<1>4. /\ ReachesItsEnd(Delivered(r), ObservedPath(run[r].result))
      /\ ticket' = ApplyObservedPath(Delivered(r), ObservedPath(run[r].result))
  BY DEF Finish, Path
<1>5. Finished(ticket', Delivered(r))
  BY <1>1, <1>2, <1>4, Finishes, Zenon
<1>6. run[r].at \in {"returned"} /\ HasEnded(run, run', r)
  <2>1. Ends(r, {"returned"}) /\ Types
    BY DEF Finish, IInv
  <2> QED
    BY <2>1, EndsLeaves
<1>7. /\ mishaps' = mishaps \union
           (IF run[r].result.number \in 1 .. ticket.delivery.number - 1
            THEN {"older_pull_recorded"} ELSE {})
      /\ UNCHANGED <<pulls, reviewed, lockOwner, sync>>
  BY DEF Finish
<1> QED
  BY <1>3, <1>5, <1>6, <1>7

(* A run that stops before it has anything to record, or may record none.  *)
LEMMA StopLeaves ==
  ASSUME IInv, NEW r \in Runs, FindRunLocked(r) \/ FinishUnreachable(r) \/ Die(r)
  PROVE  /\ run[r].at \notin {"idle", "ended"}
         /\ HasEnded(run, run', r)
         /\ lockOwner' \in Runs \union {None}
         /\ \/ run[r].at = "started" /\ mishaps' = mishaps
            \/ mishaps' = mishaps \union Unrecorded(r)
         /\ UNCHANGED <<ticket, pulls, reviewed, sync>>
<1>1. PICK here : /\ Ends(r, here)
                  /\ here \subseteq {"started", "locked", "owed", "judged", "opened", "returned"}
                  /\ \/ here = {"started"} /\ mishaps' = mishaps
                     \/ mishaps' = mishaps \union Unrecorded(r)
  BY DEF FindRunLocked, FinishUnreachable, Die
<1>2. Types /\ lockOwner \in Runs \union {None}
  BY RecordsAre DEF IInv, Types
<1>3. run[r].at \in here /\ HasEnded(run, run', r)
  BY <1>1, <1>2, EndsLeaves
<1>4. /\ lockOwner' \in Runs \union {None}
      /\ UNCHANGED <<ticket, pulls, reviewed, sync>>
  BY <1>2 DEF FindRunLocked, FinishUnreachable, Die, Release
<1> QED
  BY <1>1, <1>3, <1>4
(* The record a sync writes its answer into: the one it read. *)
Answered(s) ==
  WrittenDelivery(sync[s].read, sync[s].number, sync[s].said,
                  sync[s].read.state \in STRANDED_STATES)

(* The record a sync writes whose answer it could not read.                *)
Erased(s) == WrittenDelivery(sync[s].read, 0, "none", FALSE)

LEMMA ReadLeaves ==
  ASSUME IInv, NEW s \in Syncs, SyncRead(s)
  PROVE  /\ HasRead(sync, sync', s, ticket)
         /\ sync[s].at = "idle"
         /\ UNCHANGED <<ticket, pulls, reviewed, lockOwner, run, mishaps>>
<1>1. sync \in [Syncs -> SyncRecords] /\ ticket \in TicketRecords
  BY RecordsAre DEF IInv
<1>2. /\ sync' = [sync EXCEPT ![s] = [Asking EXCEPT !.at = "polling", !.read = ticket]]
      /\ sync[s].at = "idle"
      /\ UNCHANGED <<ticket, pulls, reviewed, lockOwner, run, mishaps>>
  BY DEF SyncRead
<1>3. HasRead(sync, sync', s, ticket)
  BY <1>1, <1>2, SyncReads, Zenon
<1> QED
  BY <1>2, <1>3

LEMMA SilentLeaves ==
  ASSUME IInv, NEW s \in Syncs, PollSilent(s)
  PROVE  /\ HasForgotten(sync, sync', s)
         /\ UNCHANGED <<ticket, pulls, reviewed, lockOwner, run, mishaps>>
<1>1. sync \in [Syncs -> SyncRecords]
  BY RecordsAre DEF IInv
<1>2. /\ sync' = [sync EXCEPT ![s] = Asking]
      /\ UNCHANGED <<ticket, pulls, reviewed, lockOwner, run, mishaps>>
  BY DEF PollSilent
<1>3. HasForgotten(sync, sync', s)
  BY <1>1, <1>2, SyncForgets, Zenon
<1> QED
  BY <1>2, <1>3

LEMMA PollLeaves ==
  ASSUME IInv, NEW s \in Syncs, Poll(s)
  PROVE  /\ IsTold(sync, sync', s, Len(pulls), pulls[Len(pulls)].state)
         /\ Len(pulls) \in Nat /\ Len(pulls) >= 1
         /\ pulls[Len(pulls)].state \in {"open", "closed", "merged"}
         /\ sync[s].at = "polling"
         /\ UNCHANGED <<ticket, pulls, reviewed, lockOwner, run, mishaps>>
<1>1. sync \in [Syncs -> SyncRecords] /\ pulls \in Seq(PullRecords)
  BY RecordsAre DEF IInv
<1>2. /\ pulls # <<>> /\ sync[s].at = "polling"
      /\ UNCHANGED <<ticket, pulls, reviewed, lockOwner, run, mishaps>>
  BY DEF Poll
<1>3. Len(pulls) \in Nat /\ Len(pulls) >= 1
  BY <1>1, <1>2, LenProperties, EmptySeq
<1>4. pulls[Len(pulls)] \in PullRecords
  BY <1>1, <1>3, ElementOfSeq
<1>5. pulls[Len(pulls)].state \in {"open", "closed", "merged"}
  BY <1>4 DEF PullRecords
<1>6. sync' = [sync EXCEPT ![s] = [@ EXCEPT !.at = "polled", !.number = Len(pulls),
                                            !.said = pulls[Len(pulls)].state]]
  BY DEF Poll, Last
<1>7. IsTold(sync, sync', s, Len(pulls), pulls[Len(pulls)].state)
  BY <1>1, <1>3, <1>5, <1>6, SyncIsTold, Zenon
<1> QED
  BY <1>2, <1>3, <1>5, <1>7

(* What a sync writes is a step on from the record it read.                *)
LEMMA WriteLeaves ==
  ASSUME IInv, NEW s \in Syncs, SyncWrite(s)
  PROVE  /\ HasForgotten(sync, sync', s)
         /\ sync[s].at = "polled"
         /\ \/ ticket' = ticket
            \/ /\ ticket' # ticket
               /\ ticket # sync[s].read => "stale_write" \in mishaps'
               /\ UnderWay # {} => "written_under_a_run" \in mishaps'
               /\ IsWritten(Answered(s), sync[s].read, sync[s].number, sync[s].said,
                            sync[s].read.state \in STRANDED_STATES)
               /\ IsReconciledFrom(ticket', sync[s].read, Answered(s), sync[s].said,
                                   sync[s].read.state \in STRANDED_STATES)
         /\ mishaps \subseteq mishaps'
         /\ mishaps' \subseteq mishaps \union {"stale_write", "written_under_a_run"}
         /\ UNCHANGED <<pulls, reviewed, lockOwner, run>>
<1>1. /\ sync \in [Syncs -> SyncRecords] /\ sync[s].read \in TicketRecords
      /\ IsALifecycle(sync[s].read) /\ sync[s].number \in Nat
  BY RecordsAre DEF IInv, Lifecycles
<1>2. /\ sync' = [sync EXCEPT ![s] = Asking]
      /\ sync[s].at = "polled"
      /\ ticket' \in Reconciled(s)
      /\ UNCHANGED <<pulls, reviewed, lockOwner, run>>
  BY DEF SyncWrite
<1>3. /\ ticket' # ticket /\ ticket # sync[s].read => "stale_write" \in mishaps'
      /\ ticket' # ticket /\ UnderWay # {} => "written_under_a_run" \in mishaps'
      /\ mishaps \subseteq mishaps'
      /\ mishaps' \subseteq mishaps \union {"stale_write", "written_under_a_run"}
  BY DEF SyncWrite, Miswritten
<1>4. HasForgotten(sync, sync', s)
  BY <1>1, <1>2, SyncForgets, Zenon
<1>5. sync[s].said \in {"open", "closed", "merged"}
  BY <1>2, RecordsAre DEF IInv, Numbers
<1>6. IsWritten(Answered(s), sync[s].read, sync[s].number, sync[s].said,
                sync[s].read.state \in STRANDED_STATES)
  BY <1>1, <1>5, DeliveryWritten, Zenon DEF Answered
<1>7. ASSUME ticket' # ticket
      PROVE  IsReconciledFrom(ticket', sync[s].read, Answered(s), sync[s].said,
                              sync[s].read.state \in STRANDED_STATES)
  <2>1. Answered(s) = WrittenDelivery(sync[s].read, sync[s].number, sync[s].said,
                                      sync[s].read.state \in STRANDED_STATES)
    BY DEF Answered
  <2> QED
    BY <1>1, <1>2, <1>5, <1>7, <2>1, Reconciles, Zenon
<1> QED
  BY <1>2, <1>3, <1>4, <1>6, <1>7

(* What a sync writes that could not read its answer: the record it read,  *)
(* without its pull request.                                               *)
LEMMA ErasesLeaves ==
  ASSUME IInv, NEW s \in Syncs, SyncErases(s)
  PROVE  /\ HasForgotten(sync, sync', s)
         /\ sync[s].at = "polling"
         /\ \/ ticket' = ticket
            \/ /\ ticket' # ticket
               /\ ticket # sync[s].read => "stale_write" \in mishaps'
               /\ UnderWay # {} => "written_under_a_run" \in mishaps'
               /\ sync[s].read.delivery.number # 0 => "pull_erased" \in mishaps'
               /\ IsWritten(Erased(s), sync[s].read, 0, "none", FALSE)
               /\ IsReconciledFrom(ticket', sync[s].read, Erased(s), "none", FALSE)
         /\ mishaps \subseteq mishaps'
         /\ mishaps' \subseteq mishaps \union {"stale_write", "written_under_a_run", "pull_erased"}
         /\ UNCHANGED <<pulls, reviewed, lockOwner, run>>
<1> DEFINE t == sync[s].read
<1>1. /\ sync \in [Syncs -> SyncRecords] /\ t \in TicketRecords
      /\ IsALifecycle(t)
  BY RecordsAre DEF IInv, Lifecycles
<1>2. /\ sync' = [sync EXCEPT ![s] = Asking]
      /\ sync[s].at = "polling"
      /\ ticket' = Emptied(sync[s].read)
      /\ UNCHANGED <<pulls, reviewed, lockOwner, run>>
  BY DEF SyncErases
<1>3. /\ ticket' # ticket /\ ticket # sync[s].read => "stale_write" \in mishaps'
      /\ ticket' # ticket /\ UnderWay # {} => "written_under_a_run" \in mishaps'
      /\ ticket' # ticket /\ sync[s].read.delivery.number # 0 => "pull_erased" \in mishaps'
      /\ mishaps \subseteq mishaps'
      /\ mishaps' \subseteq mishaps \union {"stale_write", "written_under_a_run", "pull_erased"}
  BY DEF SyncErases, Miswritten
<1>4. HasForgotten(sync, sync', s)
  BY <1>1, <1>2, SyncForgets, Zenon
<1>5. IsWritten(Erased(s), t, 0, "none", FALSE)
  BY <1>1, DeliveryWritten DEF Erased
<1>6. ASSUME ticket' # ticket
      PROVE  IsReconciledFrom(ticket', t, Erased(s), "none", FALSE)
  <2>1. /\ t.state \notin STRANDED_STATES \union {"failed"}
        /\ ticket' = Erased(s)
    BY <1>2, <1>6 DEF Emptied, Erased
  <2>2. /\ ticket' \in TicketRecords /\ IsALifecycle(ticket') /\ Extends(ticket', t)
        /\ ticket'.state = t.state /\ ticket'.history = t.history
    BY <1>1, <1>5, <2>1 DEF IsWritten
  <2>3. t.state \notin {"failed", "provisioning"}
    BY <2>1 DEF STRANDED_STATES
  <2>4. Len(t.history) + 1 .. Len(ticket'.history) = {}
    BY <1>1, <2>2, RecordFields
  <2> QED
    BY <2>1, <2>2, <2>3, <2>4 DEF IsReconciledFrom
<1> QED
  BY <1>2, <1>3, <1>4, <1>5, <1>6

LEMMA PersonLeaves ==
  ASSUME IInv, PersonOpens \/ PersonEnds \/ PersonReopens
  PROVE  /\ \/ IsAdded(pulls, pulls', "person") /\ Len(pulls) < MaxPulls
            \/ /\ pulls # <<>> /\ pulls[Len(pulls)].state # "merged"
               /\ \E to \in {"open", "closed", "merged"} : IsMoved(pulls, pulls', to)
         /\ UNCHANGED <<ticket, reviewed, lockOwner, run, sync, mishaps>>
<1>1. pulls \in Seq(PullRecords)
  BY RecordsAre DEF IInv
<1>2. \/ pulls' = Append(pulls, [by |-> "person", state |-> "open"]) /\ Len(pulls) < MaxPulls
      \/ /\ pulls # <<>> /\ pulls[Len(pulls)].state # "merged"
         /\ \E to \in {"open", "closed", "merged"} : pulls' = [pulls EXCEPT ![Len(pulls)].state = to]
  BY DEF PersonOpens, PersonEnds, PersonReopens, PullIsOpen, Last
<1>3. ASSUME pulls' = Append(pulls, [by |-> "person", state |-> "open"])
      PROVE  IsAdded(pulls, pulls', "person")
  BY <1>1, <1>3, PullIsAdded, Zenon
<1>4. ASSUME pulls # <<>>, NEW to \in {"open", "closed", "merged"},
             pulls' = [pulls EXCEPT ![Len(pulls)].state = to]
      PROVE  IsMoved(pulls, pulls', to)
  BY <1>1, <1>4, PullIsMoved, Zenon
<1>5. UNCHANGED <<ticket, reviewed, lockOwner, run, sync, mishaps>>
  BY DEF PersonOpens, PersonEnds, PersonReopens
<1> QED
  BY <1>2, <1>3, <1>4, <1>5
-----------------------------------------------------------------------------
(* The invariant is kept: first by what only a run, only a sync or only    *)
(* the pull requests change, then by each action.                          *)

LEMMA RunChangeKeeps ==
  ASSUME IInv, NEW r \in Runs,
         run' \in [Runs -> RunRecords], \A q \in Runs : q # r => run'[q] = run[q],
         run'[r].result.number <= Len(pulls),
         ticket' \in TicketRecords, IsALifecycle(ticket'), ticket'.delivery.number <= Len(pulls),
         reviewed' \in BOOLEAN, lockOwner' \in Runs \union {None}, mishaps' \subseteq Mishaps,
         pulls' = pulls, sync' = sync
  PROVE  IInv'
<1>1. Types'
  BY DEF IInv, Types
<1>2. Lifecycles'
  BY DEF IInv, Lifecycles
<1>3. Numbers'
  <2>1. \A q \in Runs : run'[q].result.number <= Len(pulls')
    BY DEF IInv, Numbers
  <2> QED
    BY <2>1 DEF IInv, Numbers
<1> QED
  BY <1>1, <1>2, <1>3 DEF IInv

LEMMA SyncChangeKeeps ==
  ASSUME IInv, NEW s \in Syncs,
         sync' \in [Syncs -> SyncRecords], \A q \in Syncs : q # s => sync'[q] = sync[q],
         IsALifecycle(sync'[s].read),
         sync'[s].read.delivery.number <= Len(pulls),
         sync'[s].number <= Len(pulls),
         sync'[s].at = "polled" =>
           /\ sync'[s].said # "none"
           /\ sync'[s].number >= 1
           /\ sync'[s].number >= sync'[s].read.delivery.number,
         ticket' \in TicketRecords, IsALifecycle(ticket'), ticket'.delivery.number <= Len(pulls),
         mishaps' \subseteq Mishaps,
         UNCHANGED <<pulls, reviewed, lockOwner, run>>
  PROVE  IInv'
<1>1. Types'
  BY DEF IInv, Types
<1>2. Lifecycles'
  BY DEF IInv, Lifecycles
<1>3. Numbers'
  <2>1. \A q \in Syncs :
          /\ sync'[q].read.delivery.number <= Len(pulls')
          /\ sync'[q].number <= Len(pulls')
          /\ sync'[q].at = "polled" =>
               /\ sync'[q].said # "none"
               /\ sync'[q].number >= 1
               /\ sync'[q].number >= sync'[q].read.delivery.number
    BY DEF IInv, Numbers
  <2> QED
    BY <2>1 DEF IInv, Numbers
<1> QED
  BY <1>1, <1>2, <1>3 DEF IInv

LEMMA PullsChangeKeeps ==
  ASSUME IInv,
         pulls' \in Seq(PullRecords), Len(pulls') >= Len(pulls), Len(pulls') <= MaxPulls,
         run' \in [Runs -> RunRecords],
         \A r \in Runs : run'[r].result.number <= Len(pulls'),
         mishaps' \subseteq Mishaps,
         UNCHANGED <<ticket, reviewed, lockOwner, sync>>
  PROVE  IInv'
<1>1. Types'
  BY DEF IInv, Types
<1>2. Lifecycles'
  BY DEF IInv, Lifecycles
<1>3. Numbers'
  <2>1. Len(pulls) \in Nat /\ Len(pulls') \in Nat /\ MaxPulls \in Nat
    BY LenProperties, RecordsAre, ConstantsAssumption DEF IInv
  <2>2. /\ ticket.delivery.number \in Nat
        /\ \A s \in Syncs : sync[s].read.delivery.number \in Nat /\ sync[s].number \in Nat
    BY RecordsAre, DeliveryFields DEF IInv
  <2> QED
    BY <2>1, <2>2 DEF IInv, Numbers
<1> QED
  BY <1>1, <1>2, <1>3 DEF IInv

LEMMA RunStepKeeps ==
  ASSUME IInv, NEW r \in Runs, RunStep(r)
  PROVE  IInv'
<1>1. /\ ticket \in TicketRecords /\ IsALifecycle(ticket)
      /\ ticket.delivery.number <= Len(pulls)
      /\ Len(pulls) \in Nat /\ pulls \in Seq(PullRecords)
      /\ \A q \in Runs : run[q].result.number <= Len(pulls) /\ run[q].result.number \in Nat
      /\ reviewed \in BOOLEAN /\ lockOwner \in Runs \union {None}
      /\ mishaps \subseteq Mishaps
  BY RecordsAre DEF IInv, Types, Lifecycles, Numbers
<1>2. CASE Start(r)
  <2>1. /\ Begun(ticket', "provisioning", RunStartedNote)
        /\ HasStarted(run, run', r, ticket.state)
        /\ mishaps' \subseteq mishaps \union {"restarted_under_a_run"}
        /\ UNCHANGED <<pulls, reviewed, lockOwner, sync>>
    BY <1>2, StartLeaves
  <2>2. /\ run' \in [Runs -> RunRecords] /\ \A q \in Runs : q # r => run'[q] = run[q]
        /\ run'[r].result.number <= Len(pulls)
    BY <1>1, <2>1 DEF HasStarted
  <2>3. /\ ticket' \in TicketRecords /\ IsALifecycle(ticket')
        /\ ticket'.delivery.number <= Len(pulls)
    BY <1>1, <2>1 DEF Begun
  <2>4. mishaps' \subseteq Mishaps
    BY <1>1, <2>1 DEF Mishaps
  <2> QED
    BY <1>1, <2>1, <2>2, <2>3, <2>4, RunChangeKeeps
<1>3. CASE StartOnStaleSpec(r)
  <2>1. /\ Begun(ticket', "plan_invalid", Note("spec_is_stale"))
        /\ HasEnded(run, run', r)
        /\ UNCHANGED <<pulls, reviewed, lockOwner, sync, mishaps>>
    BY <1>3, StaleLeaves
  <2>2. /\ run' \in [Runs -> RunRecords] /\ \A q \in Runs : q # r => run'[q] = run[q]
        /\ run'[r].result.number <= Len(pulls)
    BY <1>1, <2>1 DEF HasEnded
  <2>3. /\ ticket' \in TicketRecords /\ IsALifecycle(ticket')
        /\ ticket'.delivery.number <= Len(pulls)
    BY <1>1, <2>1 DEF Begun
  <2> QED
    BY <1>1, <2>1, <2>2, <2>3, RunChangeKeeps
<1>4. CASE TakeRunLock(r) \/ OweAnswers(r)
  <2>1. /\ run' \in [Runs -> RunRecords] /\ \A q \in Runs : run'[q].result = run[q].result
        /\ \A q \in Runs : q # r => run'[q] = run[q]
        /\ lockOwner' \in Runs \union {None}
        /\ UNCHANGED <<ticket, pulls, reviewed, sync, mishaps>>
    BY <1>4, MovesLeaves
  <2> QED
    BY <1>1, <2>1, RunChangeKeeps
<1>5. CASE FindRunLocked(r) \/ FinishUnreachable(r) \/ Die(r)
  <2>1. /\ HasEnded(run, run', r)
        /\ lockOwner' \in Runs \union {None}
        /\ mishaps' \subseteq mishaps \union {"opener_lost"}
        /\ UNCHANGED <<ticket, pulls, reviewed, sync>>
    BY <1>5, StopLeaves DEF Unrecorded
  <2>2. /\ run' \in [Runs -> RunRecords] /\ \A q \in Runs : q # r => run'[q] = run[q]
        /\ run'[r].result.number <= Len(pulls)
    BY <1>1, <2>1 DEF HasEnded
  <2>3. mishaps' \subseteq Mishaps
    BY <1>1, <2>1 DEF Mishaps
  <2> QED
    BY <1>1, <2>1, <2>2, <2>3, RunChangeKeeps
<1>6. CASE Refused(r)
  <2>1. /\ ticket' = ticket \/ PutBack(ticket', LeftByLastStart)
        /\ HasEnded(run, run', r)
        /\ UNCHANGED <<pulls, reviewed, lockOwner, sync, mishaps>>
    BY <1>6, RefusedLeaves
  <2>2. /\ run' \in [Runs -> RunRecords] /\ \A q \in Runs : q # r => run'[q] = run[q]
        /\ run'[r].result.number <= Len(pulls)
    BY <1>1, <2>1 DEF HasEnded
  <2>3. /\ ticket' \in TicketRecords /\ IsALifecycle(ticket')
        /\ ticket'.delivery.number <= Len(pulls)
    BY <1>1, <2>1 DEF PutBack
  <2> QED
    BY <1>1, <2>1, <2>2, <2>3, RunChangeKeeps
<1>7. CASE Judge(r)
  <2>1. /\ \E result : IsJudged(run, run', r, result)
        /\ reviewed' \in BOOLEAN
        /\ UNCHANGED <<ticket, pulls, lockOwner, sync, mishaps>>
    BY <1>7, JudgeLeaves
  <2>2. /\ run' \in [Runs -> RunRecords] /\ \A q \in Runs : q # r => run'[q] = run[q]
        /\ run'[r].result.number <= Len(pulls)
    BY <1>1, <2>1 DEF IsJudged
  <2> QED
    BY <1>1, <2>1, <2>2, RunChangeKeeps
<1>8. CASE Open(r)
  <2>1. /\ HasOpened(run, run', r, Len(pulls'))
        /\ \/ pulls' = pulls
           \/ IsAdded(pulls, pulls', "loop") /\ Len(pulls) < MaxPulls
        /\ mishaps' \subseteq mishaps \union {"opener_lost"}
        /\ UNCHANGED <<ticket, reviewed, lockOwner, sync>>
    BY <1>8, OpenLeaves
  <2>2. /\ pulls' \in Seq(PullRecords) /\ Len(pulls') >= Len(pulls) /\ Len(pulls') <= MaxPulls
        /\ Len(pulls') \in Nat
    BY <1>1, <2>1, ConstantsAssumption DEF IsAdded, IInv, Numbers
  <2>3. /\ run' \in [Runs -> RunRecords]
        /\ \A q \in Runs : run'[q].result.number <= Len(pulls')
    BY <1>1, <2>1, <2>2 DEF HasOpened
  <2>4. mishaps' \subseteq Mishaps
    BY <1>1, <2>1 DEF Mishaps
  <2> QED
    BY <2>1, <2>2, <2>3, <2>4, PullsChangeKeeps
<1>9. CASE Return(r)
  <2>1. /\ HasReturned(run, run', r)
        /\ lockOwner' \in Runs \union {None}
        /\ UNCHANGED <<ticket, pulls, reviewed, sync, mishaps>>
    BY <1>9, ReturnLeaves
  <2>2. /\ run' \in [Runs -> RunRecords] /\ \A q \in Runs : q # r => run'[q] = run[q]
        /\ run'[r].result.number <= Len(pulls)
    BY <1>1, <2>1 DEF HasReturned
  <2> QED
    BY <1>1, <2>1, <2>2, RunChangeKeeps
<1>10. CASE Finish(r)
  <2>1. /\ IsRecorded(Delivered(r), ticket, run[r].result)
        /\ Finished(ticket', Delivered(r))
        /\ HasEnded(run, run', r)
        /\ mishaps' \subseteq mishaps \union {"older_pull_recorded"}
        /\ UNCHANGED <<pulls, reviewed, lockOwner, sync>>
    BY <1>10, FinishLeaves
  <2>2. /\ run' \in [Runs -> RunRecords] /\ \A q \in Runs : q # r => run'[q] = run[q]
        /\ run'[r].result.number <= Len(pulls)
    BY <1>1, <2>1 DEF HasEnded
  <2>3. Delivered(r).delivery.number <= Len(pulls)
    BY <1>1, <2>1 DEF IsRecorded
  <2>4. /\ ticket' \in TicketRecords /\ IsALifecycle(ticket')
        /\ ticket'.delivery.number <= Len(pulls)
    BY <2>1, <2>3 DEF Finished
  <2>5. mishaps' \subseteq Mishaps
    BY <1>1, <2>1 DEF Mishaps
  <2> QED
    BY <1>1, <2>1, <2>2, <2>4, <2>5, RunChangeKeeps
<1> QED
  BY <1>2, <1>3, <1>4, <1>5, <1>6, <1>7, <1>8, <1>9, <1>10 DEF RunStep

LEMMA SyncStepKeeps ==
  ASSUME IInv, NEW s \in Syncs, SyncStep(s)
  PROVE  IInv'
<1>1. /\ ticket \in TicketRecords /\ IsALifecycle(ticket)
      /\ ticket.delivery.number <= Len(pulls) /\ ticket.delivery.number \in Nat
      /\ Len(pulls) \in Nat
      /\ mishaps \subseteq Mishaps
  BY RecordsAre, DeliveryFields DEF IInv, Types, Lifecycles, Numbers
<1>2. /\ sync \in [Syncs -> SyncRecords] /\ sync[s].read \in TicketRecords
      /\ IsALifecycle(sync[s].read) /\ sync[s].read.delivery.number <= Len(pulls)
      /\ sync[s].number <= Len(pulls)
  BY RecordsAre DEF IInv, Lifecycles, Numbers
<1>3. Asking.at = "idle" /\ Asking.number = 0 /\ IsALifecycle(Asking.read)
      /\ Asking.read.delivery.number = 0
  BY FreshRecords
<1>4. CASE SyncRead(s)
  <2>1. /\ HasRead(sync, sync', s, ticket)
        /\ UNCHANGED <<ticket, pulls, reviewed, lockOwner, run, mishaps>>
    BY <1>4, ReadLeaves
  <2>2. /\ sync' \in [Syncs -> SyncRecords] /\ \A q \in Syncs : q # s => sync'[q] = sync[q]
        /\ sync'[s].read = ticket /\ sync'[s].number = 0 /\ sync'[s].at # "polled"
    BY <2>1 DEF HasRead
  <2> QED
    BY <1>1, <2>1, <2>2, SyncChangeKeeps
<1>5. CASE PollSilent(s)
  <2>1. /\ HasForgotten(sync, sync', s)
        /\ UNCHANGED <<ticket, pulls, reviewed, lockOwner, run, mishaps>>
    BY <1>5, SilentLeaves
  <2>2. /\ sync' \in [Syncs -> SyncRecords] /\ \A q \in Syncs : q # s => sync'[q] = sync[q]
        /\ sync'[s] = Asking
    BY <2>1 DEF HasForgotten
  <2> QED
    BY <1>1, <1>3, <2>1, <2>2, SyncChangeKeeps
<1>6. CASE Poll(s)
  <2>1. /\ IsTold(sync, sync', s, Len(pulls), pulls[Len(pulls)].state)
        /\ Len(pulls) >= 1 /\ pulls[Len(pulls)].state \in {"open", "closed", "merged"}
        /\ UNCHANGED <<ticket, pulls, reviewed, lockOwner, run, mishaps>>
    BY <1>6, PollLeaves
  <2>2. /\ sync' \in [Syncs -> SyncRecords] /\ \A q \in Syncs : q # s => sync'[q] = sync[q]
        /\ sync'[s].read = sync[s].read /\ sync'[s].number = Len(pulls)
        /\ sync'[s].said # "none"
    BY <2>1 DEF IsTold
  <2> QED
    BY <1>1, <1>2, <2>1, <2>2, SyncChangeKeeps
<1>7. CASE SyncWrite(s)
  <2>1. /\ HasForgotten(sync, sync', s)
        /\ sync[s].at = "polled"
        /\ \/ ticket' = ticket
           \/ /\ IsWritten(Answered(s), sync[s].read, sync[s].number, sync[s].said,
                           sync[s].read.state \in STRANDED_STATES)
              /\ IsReconciledFrom(ticket', sync[s].read, Answered(s), sync[s].said,
                                  sync[s].read.state \in STRANDED_STATES)
        /\ mishaps' \subseteq mishaps \union {"stale_write", "written_under_a_run"}
        /\ UNCHANGED <<pulls, reviewed, lockOwner, run>>
    BY <1>7, WriteLeaves
  <2>2. /\ sync' \in [Syncs -> SyncRecords] /\ \A q \in Syncs : q # s => sync'[q] = sync[q]
        /\ sync'[s] = Asking
    BY <2>1 DEF HasForgotten
  <2>3. /\ ticket' \in TicketRecords /\ IsALifecycle(ticket')
        /\ ticket'.delivery.number <= Len(pulls)
    BY <1>1, <1>2, <2>1 DEF IsWritten, IsReconciledFrom
  <2>4. mishaps' \subseteq Mishaps
    BY <1>1, <2>1 DEF Mishaps
  <2> QED
    BY <1>1, <1>3, <2>1, <2>2, <2>3, <2>4, SyncChangeKeeps
<1>8. CASE SyncErases(s)
  <2>1. /\ HasForgotten(sync, sync', s)
        /\ \/ ticket' = ticket
           \/ /\ IsWritten(Erased(s), sync[s].read, 0, "none", FALSE)
              /\ IsReconciledFrom(ticket', sync[s].read, Erased(s), "none", FALSE)
        /\ mishaps' \subseteq mishaps \union {"stale_write", "written_under_a_run", "pull_erased"}
        /\ UNCHANGED <<pulls, reviewed, lockOwner, run>>
    BY <1>8, ErasesLeaves
  <2>2. /\ sync' \in [Syncs -> SyncRecords] /\ \A q \in Syncs : q # s => sync'[q] = sync[q]
        /\ sync'[s] = Asking
    BY <2>1 DEF HasForgotten
  <2>3. ticket' = ticket \/ ticket'.delivery.number = 0
    BY <2>1 DEF IsWritten, IsReconciledFrom
  <2>4. ticket' \in TicketRecords /\ IsALifecycle(ticket')
    BY <1>1, <2>1 DEF IsReconciledFrom
  <2>5. ticket'.delivery.number <= Len(pulls)
    BY <1>1, <2>3
  <2>6. mishaps' \subseteq Mishaps
    BY <1>1, <2>1 DEF Mishaps
  <2> QED
    BY <1>1, <1>3, <2>1, <2>2, <2>4, <2>5, <2>6, SyncChangeKeeps
<1> QED
  BY <1>4, <1>5, <1>6, <1>7, <1>8 DEF SyncStep

LEMMA PersonKeeps ==
  ASSUME IInv, PersonOpens \/ PersonEnds \/ PersonReopens
  PROVE  IInv'
<1>1. /\ Len(pulls) \in Nat /\ Len(pulls) <= MaxPulls /\ run \in [Runs -> RunRecords]
      /\ \A r \in Runs : run[r].result.number <= Len(pulls) /\ run[r].result.number \in Nat
      /\ mishaps \subseteq Mishaps
  BY RecordsAre DEF IInv, Numbers
<1>2. /\ \/ IsAdded(pulls, pulls', "person") /\ Len(pulls) < MaxPulls
         \/ \E to \in {"open", "closed", "merged"} : IsMoved(pulls, pulls', to)
      /\ UNCHANGED <<ticket, reviewed, lockOwner, run, sync, mishaps>>
  BY PersonLeaves
<1>3. /\ pulls' \in Seq(PullRecords) /\ Len(pulls') \in Nat
      /\ Len(pulls') >= Len(pulls) /\ Len(pulls') <= MaxPulls
  BY <1>1, <1>2, ConstantsAssumption DEF IsAdded, IsMoved
<1> QED
  BY <1>1, <1>2, <1>3, PullsChangeKeeps

LEMMA StepKeeps == IInv /\ [Next]_vars => IInv'
<1> SUFFICES ASSUME IInv, [Next]_vars PROVE IInv'
  OBVIOUS
<1>1. CASE UNCHANGED vars
  BY <1>1 DEF vars, IInv, Types, Lifecycles, Numbers
<1> QED
  BY <1>1, RunStepKeeps, SyncStepKeeps, PersonKeeps DEF Next

LEMMA Invariant == Spec => []IInv
  BY InitIsInvariant, StepKeeps, PTL DEF Spec

LEMMA InvariantIsTyped == IInv => TypeOK
<1> SUFFICES ASSUME IInv PROVE TypeOK
  OBVIOUS
<1>1. ticket \in TicketRecords /\ Len(pulls) \in Nat /\ mishaps \subseteq Mishaps
  BY RecordsAre DEF IInv
<1>2. /\ ticket.state \in States
      /\ DOMAIN ticket.history = 1 .. Len(ticket.history)
      /\ \A i \in 1 .. Len(ticket.history) : ticket.history[i] \in HistoryRows
  BY <1>1, RecordFields
<1>3. \A i \in DOMAIN ticket.history :
        {ticket.history[i].from, ticket.history[i].to} \subseteq States
  BY <1>2 DEF HistoryRows
<1>4. ticket.delivery.number \in Nat /\ ticket.delivery.openedBy \in Openers
  BY <1>1, DeliveryFields
<1>5. ticket.delivery.number <= Len(pulls) /\ Len(pulls) <= MaxPulls
      /\ lockOwner \in Runs \union {None}
  BY DEF IInv, Types, Numbers
<1> QED
  BY <1>1, <1>2, <1>3, <1>4, <1>5 DEF TypeOK

LEMMA InvariantIsALifecycle == IInv => HistoryIsALifecycle
<1> SUFFICES ASSUME IInv PROVE HistoryIsALifecycle
  OBVIOUS
<1>1. ticket \in TicketRecords /\ IsALifecycle(ticket)
  BY RecordsAre DEF IInv, Lifecycles
<1>2. DOMAIN ticket.history = 1 .. Len(ticket.history)
  BY <1>1, RecordFields
<1> QED
  BY <1>1, <1>2 DEF HistoryIsALifecycle, IsALifecycle, Edges, Last

-----------------------------------------------------------------------------
(* Merges: a merged pull request stays merged, and nothing but one puts a  *)
(* ticket at `merged`.                                                     *)

LEMMA PullsChange ==
  ASSUME IInv, [Next]_vars
  PROVE  \/ pulls' = pulls
         \/ \E by \in {"loop", "person"} : IsAdded(pulls, pulls', by)
         \/ /\ pulls # <<>> /\ pulls[Len(pulls)].state # "merged"
            /\ \E to \in {"open", "closed", "merged"} : IsMoved(pulls, pulls', to)
<1>1. CASE UNCHANGED vars
  BY <1>1 DEF vars
<1>2. ASSUME NEW r \in Runs, RunStep(r)
      PROVE  pulls' = pulls \/ IsAdded(pulls, pulls', "loop")
  BY <1>2, StartLeaves, StaleLeaves, MovesLeaves, StopLeaves, RefusedLeaves, JudgeLeaves,
     OpenLeaves, ReturnLeaves, FinishLeaves DEF RunStep
<1>3. ASSUME NEW s \in Syncs, SyncStep(s)
      PROVE  pulls' = pulls
  BY <1>3, ReadLeaves, SilentLeaves, PollLeaves, WriteLeaves, ErasesLeaves DEF SyncStep
<1> QED
  BY <1>1, <1>2, <1>3, PersonLeaves DEF Next

LEMMA MergedStays ==
  ASSUME IInv, [Next]_vars, SomeMerged
  PROVE  SomeMerged'
<1>1. PICK i \in 1 .. Len(pulls) : pulls[i].state = "merged"
  BY DEF SomeMerged
<1>2. Len(pulls) \in Nat
  BY RecordsAre DEF IInv
<1>3. i \in 1 .. Len(pulls') /\ pulls'[i].state = "merged"
  BY <1>1, <1>2, PullsChange DEF IsAdded, IsMoved
<1> QED
  BY <1>3 DEF SomeMerged

LEMMA MergesStep ==
  ASSUME IInv, Merges, [Next]_vars
  PROVE  Merges'
<1>1. SomeMerged => SomeMerged'
  BY MergedStays
<1>2. /\ ticket.state = "merged" => SomeMerged'
      /\ \A s \in Syncs :
           /\ sync[s].read.state = "merged" => SomeMerged'
           /\ sync[s].at = "polled" /\ sync[s].said = "merged" => SomeMerged'
  BY <1>1 DEF Merges
<1>3. /\ Asking.at = "idle" /\ Asking.read.state = "ready"
      /\ Len(pulls) \in Nat
  BY FreshRecords, RecordsAre DEF IInv
<1>4. CASE UNCHANGED vars
  BY <1>2, <1>4 DEF vars, Merges
<1>5. ASSUME NEW r \in Runs, RunStep(r)
      PROVE  Merges'
  <2>1. sync' = sync
    BY <1>5, StartLeaves, StaleLeaves, MovesLeaves, StopLeaves, RefusedLeaves, JudgeLeaves,
       OpenLeaves, ReturnLeaves, FinishLeaves DEF RunStep
  <2>2. ticket' = ticket \/ ticket'.state # "merged"
    <3>1. Start(r) => ticket'.state = "provisioning"
      BY StartLeaves DEF Begun
    <3>2. StartOnStaleSpec(r) => ticket'.state = "plan_invalid"
      BY StaleLeaves DEF Begun
    <3>3. Refused(r) => ticket' = ticket \/ ticket'.state \in {"changes_requested", "failed"}
      BY RefusedLeaves DEF PutBack
    <3>4. Finish(r) => ticket'.state \in {"pr_open", "changes_requested", "failed"}
      BY FinishLeaves DEF Finished
    <3>5. \/ TakeRunLock(r) \/ OweAnswers(r) \/ FindRunLocked(r) \/ FinishUnreachable(r) \/ Die(r)
          \/ Judge(r) \/ Open(r) \/ Return(r)
          => ticket' = ticket
      BY MovesLeaves, StopLeaves, JudgeLeaves, OpenLeaves, ReturnLeaves
    <3> QED
      BY <1>5, <3>1, <3>2, <3>3, <3>4, <3>5 DEF RunStep
  <2> QED
    BY <1>2, <2>1, <2>2 DEF Merges
<1>6. ASSUME NEW s \in Syncs, SyncStep(s)
      PROVE  Merges'
  <2>1. CASE SyncRead(s)
    <3>1. HasRead(sync, sync', s, ticket) /\ ticket' = ticket
      BY <2>1, ReadLeaves
    <3>2. sync'[s].read = ticket /\ sync'[s].at # "polled" /\ \A q \in Syncs : q # s => sync'[q] = sync[q]
      BY <3>1 DEF HasRead
    <3> QED
      BY <1>2, <3>1, <3>2 DEF Merges
  <2>2. CASE PollSilent(s)
    <3>1. HasForgotten(sync, sync', s) /\ ticket' = ticket
      BY <2>2, SilentLeaves
    <3>2. sync'[s] = Asking /\ \A q \in Syncs : q # s => sync'[q] = sync[q]
      BY <3>1 DEF HasForgotten
    <3> QED
      BY <1>2, <1>3, <3>1, <3>2 DEF Merges
  <2>3. CASE Poll(s)
    <3>1. /\ IsTold(sync, sync', s, Len(pulls), pulls[Len(pulls)].state)
          /\ Len(pulls) >= 1 /\ ticket' = ticket /\ pulls' = pulls
      BY <2>3, PollLeaves
    <3>2. /\ sync'[s].read = sync[s].read /\ sync'[s].said = pulls[Len(pulls)].state
          /\ \A q \in Syncs : q # s => sync'[q] = sync[q]
      BY <3>1 DEF IsTold
    <3>3. sync'[s].said = "merged" => SomeMerged'
      <4>1. Len(pulls) \in 1 .. Len(pulls)
        BY <1>3, <3>1
      <4>2. sync'[s].said = "merged" => SomeMerged
        BY <3>2, <4>1 DEF SomeMerged
      <4> QED
        BY <1>1, <4>2
    <3> QED
      BY <1>2, <3>1, <3>2, <3>3 DEF Merges
  <2>4. CASE SyncWrite(s)
    <3>1. /\ HasForgotten(sync, sync', s) /\ sync[s].at = "polled"
          /\ \/ ticket' = ticket
             \/ IsReconciledFrom(ticket', sync[s].read, Answered(s), sync[s].said,
                                 sync[s].read.state \in STRANDED_STATES)
      BY <2>4, WriteLeaves
    <3>2. sync'[s] = Asking /\ \A q \in Syncs : q # s => sync'[q] = sync[q]
      BY <3>1 DEF HasForgotten
    <3>3. ticket'.state = "merged" => SomeMerged'
      BY <1>2, <3>1 DEF IsReconciledFrom
    <3> QED
      BY <1>2, <1>3, <3>2, <3>3 DEF Merges
  <2>5. CASE SyncErases(s)
    <3>1. /\ HasForgotten(sync, sync', s)
          /\ \/ ticket' = ticket
             \/ IsReconciledFrom(ticket', sync[s].read, Erased(s), "none", FALSE)
      BY <2>5, ErasesLeaves
    <3>2. sync'[s] = Asking /\ \A q \in Syncs : q # s => sync'[q] = sync[q]
      BY <3>1 DEF HasForgotten
    <3>3. ticket'.state = "merged" => SomeMerged'
      BY <1>2, <3>1 DEF IsReconciledFrom
    <3> QED
      BY <1>2, <1>3, <3>2, <3>3 DEF Merges
  <2> QED
    BY <1>6, <2>1, <2>2, <2>3, <2>4, <2>5 DEF SyncStep
<1>7. CASE PersonOpens \/ PersonEnds \/ PersonReopens
  <2>1. ticket' = ticket /\ sync' = sync
    BY <1>7, PersonLeaves
  <2> QED
    BY <1>2, <2>1 DEF Merges
<1> QED
  BY <1>4, <1>5, <1>6, <1>7 DEF Next

LEMMA MergesAlways == Spec => []Merges
<1>1. Init => Merges
  <2> SUFFICES ASSUME Init PROVE Merges
    OBVIOUS
  <2>1. ticket.state \in {"ready", "failed"} /\ sync = [s \in Syncs |-> Asking]
    BY FreshRecords, FailedOnceIs DEF Init
  <2>2. Asking.at = "idle" /\ Asking.read.state = "ready"
    BY FreshRecords
  <2> QED
    BY <2>1, <2>2 DEF Merges
<1>2. IInv /\ Merges /\ [Next]_vars => Merges'
  BY MergesStep
<1> QED
  BY <1>1, <1>2, Invariant, PTL DEF Spec

-----------------------------------------------------------------------------
(* A run's result, as far as its walk depends on it, is its loop's. *)

LEMMA JudgedStep ==
  ASSUME IInv, Judged, [Next]_vars
  PROVE  Judged'
<1> DEFINE J(x) == x.at \in {"judged", "opened", "returned"} =>
                     /\ x.result.judged => x.result.rounds
                     /\ x.result.outcome = "approved" => x.result.judged \/ ~x.result.rounds
<1>1. \A q \in Runs : J(run[q])
  BY DEF Judged
<1>2. CASE UNCHANGED vars
  BY <1>1, <1>2 DEF vars, Judged
<1>3. ASSUME NEW r \in Runs, RunStep(r)
      PROVE  \A q \in Runs : J(run'[q])
  <2>1. CASE Start(r)
    <3>1. run'[r].at = "started" /\ \A q \in Runs : q # r => run'[q] = run[q]
      BY <2>1, StartLeaves DEF HasStarted
    <3> QED
      BY <1>1, <3>1
  <2>2. CASE StartOnStaleSpec(r) \/ Refused(r) \/ Finish(r)
             \/ FindRunLocked(r) \/ FinishUnreachable(r) \/ Die(r)
    <3>1. HasEnded(run, run', r)
      BY <2>2, StaleLeaves, RefusedLeaves, FinishLeaves, StopLeaves
    <3>2. run'[r].at = "ended" /\ \A q \in Runs : q # r => run'[q] = run[q]
      BY <3>1 DEF HasEnded
    <3> QED
      BY <1>1, <3>2
  <2>3. CASE TakeRunLock(r) \/ OweAnswers(r)
    <3>1. run'[r].at \in {"locked", "owed"} /\ \A q \in Runs : q # r => run'[q] = run[q]
      BY <2>3, MovesLeaves
    <3> QED
      BY <1>1, <3>1
  <2>4. CASE Judge(r)
    <3>1. PICK result : Possible(result) /\ IsJudged(run, run', r, result)
      BY <2>4, JudgeLeaves
    <3>2. run'[r].result = result /\ \A q \in Runs : q # r => run'[q] = run[q]
      BY <3>1 DEF IsJudged
    <3>3. /\ result.judged => result.rounds
          /\ result.outcome = "approved" => result.judged \/ ~result.rounds
      BY <3>1 DEF Possible
    <3> QED
      BY <1>1, <3>2, <3>3
  <2>5. CASE Open(r) \/ Return(r)
    <3>1. /\ HasOpened(run, run', r, Len(pulls')) \/ HasReturned(run, run', r)
          /\ run[r].at \in {"judged", "opened"}
      BY <2>5, OpenLeaves, ReturnLeaves
    <3>2. /\ run'[r].result.rounds = run[r].result.rounds
          /\ run'[r].result.judged = run[r].result.judged
          /\ run'[r].result.outcome = run[r].result.outcome
          /\ \A q \in Runs : q # r => run'[q] = run[q]
      BY <3>1 DEF HasOpened, HasReturned
    <3> QED
      BY <1>1, <3>1, <3>2
  <2> QED
    BY <1>3, <2>1, <2>2, <2>3, <2>4, <2>5 DEF RunStep
<1>4. ASSUME \/ \E s \in Syncs : SyncStep(s)
             \/ PersonOpens \/ PersonEnds \/ PersonReopens
      PROVE  run' = run
  BY <1>4, ReadLeaves, SilentLeaves, PollLeaves, WriteLeaves, ErasesLeaves, PersonLeaves
  DEF SyncStep
<1> QED
  BY <1>1, <1>2, <1>3, <1>4 DEF Next, Judged

LEMMA JudgedAlways == Spec => []Judged
<1>1. Init => Judged
  <2> SUFFICES ASSUME Init, NEW r \in Runs PROVE run[r].at = "idle"
    BY DEF Judged
  <2> QED
    BY FreshRecords DEF Init
<1>2. IInv /\ Judged /\ [Next]_vars => Judged'
  BY JudgedStep
<1> QED
  BY <1>1, <1>2, Invariant, PTL DEF Spec

LEMMA JudgedReachesItsEnd == IInv /\ Judged => OnlyAMovedTicketRefusesAResult
<1> SUFFICES ASSUME IInv, Judged, NEW r \in Runs,
                    run[r].at = "returned", ticket.state = "provisioning",
                    run[r].result.outcome = "gated" => run[r].result.judged
             PROVE  ReachesItsEnd(Delivered(r), Path(r))
  BY DEF OnlyAMovedTicketRefusesAResult
<1>1. ticket \in TicketRecords /\ IsALifecycle(ticket) /\ run[r].result \in RunResults
  BY RecordsAre DEF IInv, Lifecycles
<1>2. Delivered(r) = RecordDelivery(ticket, run[r].result)
  BY DEF Delivered
<1>3. IsRecorded(Delivered(r), ticket, run[r].result)
  BY <1>1, <1>2, DeliveryRecorded, Zenon
<1>4. Delivered(r) \in TicketRecords /\ Delivered(r).state = "provisioning" /\ IsALifecycle(Delivered(r))
  BY <1>1, <1>3 DEF IsRecorded
<1>5. /\ run[r].result.judged => run[r].result.rounds
      /\ run[r].result.outcome = "approved" => run[r].result.judged \/ ~run[r].result.rounds
  BY DEF Judged
<1>6. ReachesItsEnd(Delivered(r), ObservedPath(run[r].result))
  BY <1>1, <1>4, <1>5, FromProvisioning
<1> QED
  BY <1>6 DEF Path

-----------------------------------------------------------------------------
(* Every row out of `failed` to `pr_open` has its evidence, where no two   *)
(* runs are under way at once.                                             *)

OneAtATime == \A q, r \in UnderWay : q = r

LEMMA EvidenceIsKept ==
  ASSUME NEW t \in TicketRecords, NEW u \in TicketRecords, Evidenced(t), Extends(u, t),
         \A j \in Len(t.history) + 1 .. Len(u.history) :
           u.history[j].from = "failed" /\ u.history[j].to = "pr_open" =>
             u.history[j].note[1] \in {"handed_off", "resumed", "opener_not_recorded"}
  PROVE  Evidenced(u)
<1>1. Len(t.history) \in Nat /\ Len(u.history) \in Nat
  BY RecordFields
<1> SUFFICES ASSUME NEW j \in 1 .. Len(u.history),
                    u.history[j].from = "failed", u.history[j].to = "pr_open"
             PROVE  u.history[j].note[1] \in {"handed_off", "resumed", "opener_not_recorded"}
  BY DEF Evidenced
<1>2. CASE j \in 1 .. Len(t.history)
  BY <1>2 DEF Evidenced, Extends
<1>3. CASE j \in Len(t.history) + 1 .. Len(u.history)
  BY <1>3
<1> QED
  BY <1>1, <1>2, <1>3

(* Runs that are as they were are under way as they were. *)
LEMMA NobodyElse ==
  ASSUME NEW r \in Runs, OneAtATime, run[r].at \notin {"idle", "ended"},
         run'[r].at = "ended", \A q \in Runs : q # r => run'[q] = run[q]
  PROVE  UnderWay' = {}
<1>1. \A q \in Runs : q # r => run'[q].at \in {"idle", "ended"}
  BY DEF OneAtATime, UnderWay
<1> QED
  BY <1>1 DEF UnderWay

LEMMA EvidenceStep ==
  ASSUME IInv, AloneIsEvidenced, OneAtATime, [Next]_vars
  PROVE  AloneIsEvidenced'
<1> DEFINE Kept == Evidenced(ticket') /\ (UnderWay' # {} => ticket'.state # "failed")
<1> SUFFICES ASSUME "stale_write" \notin mishaps' PROVE Kept
  BY DEF AloneIsEvidenced, Evidenced, UnderWay
<1>1. ticket \in TicketRecords
  BY RecordsAre DEF IInv
<1>2. CASE UNCHANGED vars
  BY <1>2 DEF vars, AloneIsEvidenced, Evidenced, UnderWay
<1>3. ASSUME NEW r \in Runs, RunStep(r)
      PROVE  Kept
  <2>1. mishaps \subseteq mishaps'
    BY <1>3, StartLeaves, StaleLeaves, MovesLeaves, StopLeaves, RefusedLeaves, JudgeLeaves,
       OpenLeaves, ReturnLeaves, FinishLeaves DEF RunStep
  <2>2. Evidenced(ticket) /\ (UnderWay # {} => ticket.state # "failed")
    BY <2>1 DEF AloneIsEvidenced
  <2>3. CASE Start(r)
    <3>1. Begun(ticket', "provisioning", RunStartedNote)
      BY <2>3, StartLeaves
    <3>2. /\ ticket' \in TicketRecords /\ Extends(ticket', ticket)
          /\ ticket'.state = "provisioning"
          /\ \A j \in Len(ticket.history) + 1 .. Len(ticket'.history) :
               ~(ticket'.history[j].from = "failed" /\ ticket'.history[j].to = "pr_open")
      BY <3>1 DEF Begun
    <3>3. Evidenced(ticket')
      BY <1>1, <2>2, <3>2, EvidenceIsKept
    <3> QED
      BY <3>2, <3>3
  <2>4. CASE StartOnStaleSpec(r)
    <3>1. Begun(ticket', "plan_invalid", Note("spec_is_stale"))
      BY <2>4, StaleLeaves
    <3>2. /\ ticket' \in TicketRecords /\ Extends(ticket', ticket)
          /\ ticket'.state = "plan_invalid"
          /\ \A j \in Len(ticket.history) + 1 .. Len(ticket'.history) :
               ~(ticket'.history[j].from = "failed" /\ ticket'.history[j].to = "pr_open")
      BY <3>1 DEF Begun
    <3>3. Evidenced(ticket')
      BY <1>1, <2>2, <3>2, EvidenceIsKept
    <3> QED
      BY <3>2, <3>3
  <2>5. CASE Refused(r)
    <3>1. /\ ticket' = ticket \/ PutBack(ticket', LeftByLastStart)
          /\ run[r].at = "owed" /\ HasEnded(run, run', r)
      BY <2>5, RefusedLeaves
    <3>2. UnderWay' = {}
      BY <3>1, NobodyElse DEF HasEnded
    <3>3. ASSUME PutBack(ticket', LeftByLastStart) PROVE Evidenced(ticket')
      <4>1. /\ ticket' \in TicketRecords /\ Extends(ticket', ticket)
            /\ \A j \in Len(ticket.history) + 1 .. Len(ticket'.history) :
                 ticket'.history[j].from = "provisioning"
        BY <3>3 DEF PutBack
      <4> QED
        BY <1>1, <2>2, <4>1, EvidenceIsKept
    <3> QED
      BY <2>2, <3>1, <3>2, <3>3
  <2>6. CASE Finish(r)
    <3>1. /\ Finished(ticket', Delivered(r))
          /\ run[r].at = "returned" /\ HasEnded(run, run', r)
      BY <2>6, FinishLeaves
    <3>2. UnderWay' = {}
      BY <3>1, NobodyElse DEF HasEnded
    <3>3. ticket.state # "failed"
      BY <2>2, <3>1 DEF UnderWay
    <3>4. /\ ticket' \in TicketRecords /\ Extends(ticket', ticket)
          /\ \A j \in Len(ticket.history) + 1 .. Len(ticket'.history) :
               ~(ticket'.history[j].from = "failed" /\ ticket'.history[j].to = "pr_open")
      BY <3>1, <3>3 DEF Finished
    <3>5. Evidenced(ticket')
      BY <1>1, <2>2, <3>4, EvidenceIsKept
    <3> QED
      BY <3>2, <3>5
  <2>7. CASE TakeRunLock(r) \/ OweAnswers(r) \/ FindRunLocked(r) \/ FinishUnreachable(r) \/ Die(r)
             \/ Judge(r) \/ Open(r) \/ Return(r)
    <3>1. ticket' = ticket
      BY <2>7, MovesLeaves, StopLeaves, JudgeLeaves, OpenLeaves, ReturnLeaves
    <3>2. run[r].at \notin {"idle", "ended"} /\ r \in UnderWay
      BY <2>7, MovesLeaves, StopLeaves, JudgeLeaves, OpenLeaves, ReturnLeaves DEF UnderWay
    <3> QED
      BY <2>2, <3>1, <3>2
  <2> QED
    BY <1>3, <2>3, <2>4, <2>5, <2>6, <2>7 DEF RunStep
<1>4. ASSUME NEW s \in Syncs, SyncStep(s)
      PROVE  Kept
  <2>1. CASE SyncRead(s) \/ PollSilent(s) \/ Poll(s)
    <3>1. UNCHANGED <<ticket, run, mishaps>>
      BY <2>1, ReadLeaves, SilentLeaves, PollLeaves
    <3> QED
      BY <3>1 DEF AloneIsEvidenced, UnderWay
  <2>2. CASE SyncWrite(s) \/ SyncErases(s)
    <3>1. /\ \/ ticket' = ticket
             \/ /\ ticket = sync[s].read
                /\ \E w, said, stranded :
                     IsReconciledFrom(ticket', sync[s].read, w, said, stranded)
          /\ mishaps \subseteq mishaps' /\ run' = run
      BY <2>2, WriteLeaves, ErasesLeaves
    <3>2. Evidenced(ticket) /\ (UnderWay # {} => ticket.state # "failed")
      BY <3>1 DEF AloneIsEvidenced
    <3>3. UnderWay' = UnderWay
      BY <3>1 DEF UnderWay
    <3>4. ASSUME NEW w, NEW said, NEW stranded,
                 IsReconciledFrom(ticket', ticket, w, said, stranded)
          PROVE  Kept
      <4>1. /\ ticket' \in TicketRecords /\ Extends(ticket', ticket)
            /\ ticket'.state = "failed" => ticket.state = "failed"
            /\ \A j \in Len(ticket.history) + 1 .. Len(ticket'.history) :
                 ticket'.history[j].from = "failed" /\ ticket'.history[j].to = "pr_open" =>
                   ticket'.history[j].note[1] \in {"handed_off", "resumed", "opener_not_recorded"}
        BY <3>4 DEF IsReconciledFrom
      <4>2. Evidenced(ticket')
        BY <1>1, <3>2, <4>1, EvidenceIsKept
      <4> QED
        BY <3>2, <3>3, <4>1, <4>2
    <3>5. CASE ticket' = ticket
      BY <3>2, <3>3, <3>5
    <3> QED
      BY <3>1, <3>4, <3>5
  <2> QED
    BY <1>4, <2>1, <2>2 DEF SyncStep
<1>5. CASE PersonOpens \/ PersonEnds \/ PersonReopens
  <2>1. UNCHANGED <<ticket, run, mishaps>>
    BY <1>5, PersonLeaves
  <2> QED
    BY <2>1 DEF AloneIsEvidenced, UnderWay
<1> QED
  BY <1>2, <1>3, <1>4, <1>5 DEF Next

(* No row of a ticket that was never run, or ran and failed, is out of     *)
(* `failed`.                                                               *)
LEMMA EvidenceAlways == Spec /\ []OneAtATime => []AloneIsEvidenced
<1>1. Init => AloneIsEvidenced
  <2> SUFFICES ASSUME Init PROVE AloneIsEvidenced
    OBVIOUS
  <2>1. UnderWay = {}
    BY FreshRecords DEF Init, UnderWay
  <2>2. Evidenced(ticket)
    <3>1. CASE EarlierRun
      <4>1. ticket = FailedOnce
        BY <3>1 DEF Init
      <4>2. \A j \in 1 .. Len(ticket.history) : ticket.history[j].to # "pr_open"
        BY <4>1, FailedOnceIs
      <4> QED
        BY <4>2 DEF Evidenced
    <3>2. CASE ~EarlierRun
      <4>1. ticket = Approved
        BY <3>2 DEF Init
      <4>2. ticket.history = <<>> /\ Len(<<>>) = 0
        BY <4>1, FreshRecords, EmptySeq
      <4> QED
        BY <4>2 DEF Evidenced
    <3> QED
      BY <3>1, <3>2
  <2> QED
    BY <2>1, <2>2 DEF AloneIsEvidenced
<1>2. IInv /\ AloneIsEvidenced /\ OneAtATime /\ [Next]_vars => AloneIsEvidenced'
  BY EvidenceStep
<1> QED
  BY <1>1, <1>2, Invariant, PTL DEF Spec

LEMMA EvidencedIsOnEvidence == IInv /\ AloneIsEvidenced => ResumedOnEvidence
<1> SUFFICES ASSUME IInv, AloneIsEvidenced, "stale_write" \notin mishaps,
                    NEW row \in ToSet(ticket.history),
                    row.from = "failed", row.to = "pr_open"
             PROVE  row.note[1] \in {"handed_off", "resumed", "opener_not_recorded"}
  BY DEF ResumedOnEvidence
<1>1. ticket \in TicketRecords
  BY RecordsAre DEF IInv
<1>2. PICK i \in 1 .. Len(ticket.history) : row = ticket.history[i]
  BY <1>1, RecordFields DEF ToSet
<1> QED
  BY <1>2 DEF AloneIsEvidenced, Evidenced

-----------------------------------------------------------------------------
(* A refusal puts the ticket back where its own run found it. *)

(* What the last two rows of a ticket just started say is true of it: a    *)
(* ticket that was never run has one row, and the last row of a reopening  *)
(* names the state that was reopened.                                      *)
LEMMA StartIsNamed ==
  ASSUME IInv, Settling, NEW r \in Runs, Start(r), (LeftByLastStart # "ready")'
  PROVE  (LeftByLastStart)' = ticket.state /\ ticket.state # "ready"
<1> DEFINE w == Readied
           n == Len(w.history)
           h == ticket'.history
<1>1. ticket \in TicketRecords /\ IsALifecycle(ticket)
  BY RecordsAre DEF IInv, Lifecycles
<1>2. /\ w \in TicketRecords /\ Extends(ticket', w) /\ Len(h) = n + 1
      /\ Startable
  BY StartLeaves DEF Begun, Start
<1>3. n \in Nat
  BY <1>2, RecordFields
<1>4. /\ n >= 1 /\ h[n].note = NewAttemptNote(h[n].from)
      /\ (LeftByLastStart)' = h[n].from
  BY <1>2, <1>3 DEF LeftByLastStart
<1>5. h[n] = w.history[n]
  BY <1>2, <1>3, <1>4 DEF Extends
<1>6. ticket.state # "ready"
  <2> SUFFICES ASSUME ticket.state = "ready" PROVE FALSE
    OBVIOUS
  <2>1. w.history = <<>>
    BY DEF Readied, Settling
  <2> QED
    BY <1>4, <2>1, EmptySeq
<1>7. w = Reopen(ticket) /\ CanReopen(ticket)
  BY <1>2, <1>6 DEF Readied, Startable
<1> HIDE DEF w
<1>8. w.history[n].note = NewAttemptNote(ticket.state)
  BY <1>1, <1>7, Reopening
<1> HIDE DEF n, h
<1>9. NewAttemptNote(h[n].from) = NewAttemptNote(ticket.state)
  BY <1>4, <1>5, <1>8
<1>10. h[n].from = ticket.state
  BY <1>9 DEF NewAttemptNote
<1> QED
  BY <1>4, <1>6, <1>10

LEMMA NamedStays ==
  ASSUME StartsAreNamed, ticket' = ticket, mishaps \subseteq mishaps',
         \A q \in Unjudged' : q \in Unjudged /\ run'[q].found = run[q].found
  PROVE  StartsAreNamed'
<1>1. Undoable' = Undoable /\ (LeftByLastStart)' = LeftByLastStart
  BY DEF Undoable, LeftByLastStart
<1> QED
  BY <1>1 DEF StartsAreNamed

(* A run that ends, or that is judged, can be refused no more. *)
LEMMA UnjudgedShrinks ==
  ASSUME NEW r \in Runs, \A q \in Runs : q # r => run'[q] = run[q],
         run'[r].at \notin {"started", "locked", "owed"}
  PROVE  \A q \in Unjudged' : q \in Unjudged /\ run'[q].found = run[q].found
  BY DEF Unjudged

LEMMA SettlingStep ==
  ASSUME IInv, Settling, [Next]_vars
  PROVE  Settling'
<1>1. /\ ticket.state = "ready" => ticket.history = <<>>
      /\ \A s \in Syncs : sync[s].read.state = "ready" => sync[s].read.history = <<>>
      /\ StartsAreNamed
  BY DEF Settling
<1>2. CASE UNCHANGED vars
  <2>1. \A q \in Unjudged' : q \in Unjudged /\ run'[q].found = run[q].found
    BY <1>2 DEF vars, Unjudged
  <2>2. StartsAreNamed'
    BY <1>1, <1>2, <2>1, NamedStays DEF vars
  <2> QED
    BY <1>1, <1>2, <2>2 DEF vars, Settling
<1>3. ASSUME NEW r \in Runs, RunStep(r)
      PROVE  /\ sync' = sync
             /\ ticket'.state = "ready" => ticket' = ticket
             /\ StartsAreNamed'
  <2>1. CASE Start(r)
    <3>1. /\ Begun(ticket', "provisioning", RunStartedNote) /\ HasStarted(run, run', r, ticket.state)
          /\ mishaps' = mishaps \union
              (IF Unjudged # {} /\ ticket.state \in {"changes_requested", "failed"}
               THEN {"restarted_under_a_run"} ELSE {})
          /\ sync' = sync
      BY <2>1, StartLeaves
    <3>2. ticket'.state = "provisioning"
      BY <3>1 DEF Begun
    <3>3. run'[r].found = ticket.state /\ \A q \in Runs : q # r => run'[q] = run[q]
      BY <3>1 DEF HasStarted
    <3>4. ASSUME mishaps' \cap {"written_under_a_run", "restarted_under_a_run"} = {}, Undoable',
                 NEW q \in Unjudged'
          PROVE  run'[q].found = (LeftByLastStart)'
      <4>1. (LeftByLastStart # "ready")' /\ (LeftByLastStart)' \in {"changes_requested", "failed"}
        BY <3>4 DEF Undoable
      <4>2. (LeftByLastStart)' = ticket.state
        BY <2>1, <4>1, StartIsNamed
      <4>3. Unjudged = {}
        BY <3>1, <3>4, <4>1, <4>2
      <4>4. q = r
        BY <3>3, <4>3 DEF Unjudged
      <4> QED
        BY <3>3, <4>2, <4>4
    <3>5. StartsAreNamed'
      BY <3>4 DEF StartsAreNamed
    <3> QED
      BY <3>1, <3>2, <3>5
  <2>2. CASE StartOnStaleSpec(r)
    <3>1. Begun(ticket', "plan_invalid", Note("spec_is_stale")) /\ sync' = sync
      BY <2>2, StaleLeaves
    <3>2. ticket'.state = "plan_invalid"
      BY <3>1 DEF Begun
    <3> QED
      BY <3>1, <3>2 DEF StartsAreNamed, Undoable
  <2>3. CASE Refused(r)
    <3>1. /\ ticket' = ticket \/ (LeftByLastStart \in {"changes_requested", "failed"}
                                  /\ PutBack(ticket', LeftByLastStart))
          /\ HasEnded(run, run', r) /\ sync' = sync /\ mishaps' = mishaps
      BY <2>3, RefusedLeaves
    <3>2. CASE ticket' = ticket
      <4>1. \A q \in Unjudged' : q \in Unjudged /\ run'[q].found = run[q].found
        BY <3>1, UnjudgedShrinks DEF HasEnded
      <4> QED
        BY <1>1, <3>1, <3>2, <4>1, NamedStays
    <3>3. CASE ticket'.state \in {"changes_requested", "failed"}
      BY <3>1, <3>3 DEF StartsAreNamed, Undoable
    <3> QED
      BY <3>1, <3>2, <3>3 DEF PutBack
  <2>4. CASE Finish(r)
    <3>1. Finished(ticket', Delivered(r)) /\ sync' = sync
      BY <2>4, FinishLeaves
    <3>2. ticket'.state \in {"pr_open", "changes_requested", "failed"}
      BY <3>1 DEF Finished
    <3> QED
      BY <3>1, <3>2 DEF StartsAreNamed, Undoable
  <2>5. CASE TakeRunLock(r) \/ OweAnswers(r)
    <3>1. /\ \A q \in Runs : run'[q].found = run[q].found
          /\ run[r].at \in {"started", "locked"}
          /\ \A q \in Runs : q # r => run'[q] = run[q]
          /\ ticket' = ticket /\ sync' = sync /\ mishaps' = mishaps
      BY <2>5, MovesLeaves
    <3>2. \A q \in Unjudged' : q \in Unjudged /\ run'[q].found = run[q].found
      BY <3>1 DEF Unjudged
    <3> QED
      BY <1>1, <3>1, <3>2, NamedStays
  <2>6. CASE FindRunLocked(r) \/ FinishUnreachable(r) \/ Die(r) \/ Judge(r) \/ Open(r) \/ Return(r)
    <3>1. ticket' = ticket /\ sync' = sync /\ mishaps \subseteq mishaps'
      BY <2>6, StopLeaves, JudgeLeaves, OpenLeaves, ReturnLeaves
    <3>2. \/ HasEnded(run, run', r) \/ HasOpened(run, run', r, Len(pulls')) \/ HasReturned(run, run', r)
          \/ \E result : IsJudged(run, run', r, result)
      BY <2>6, StopLeaves, JudgeLeaves, OpenLeaves, ReturnLeaves
    <3>3. run'[r].at \in {"ended", "opened", "returned", "judged"}
          /\ \A q \in Runs : q # r => run'[q] = run[q]
      BY <3>2 DEF HasEnded, HasOpened, HasReturned, IsJudged
    <3>4. \A q \in Unjudged' : q \in Unjudged /\ run'[q].found = run[q].found
      BY <3>3, UnjudgedShrinks
    <3> QED
      BY <1>1, <3>1, <3>4, NamedStays
  <2> QED
    BY <1>3, <2>1, <2>2, <2>3, <2>4, <2>5, <2>6 DEF RunStep
<1>4. ASSUME NEW s \in Syncs, SyncStep(s)
      PROVE  Settling'
  <2>1. \A q \in Unjudged' : q \in Unjudged /\ run'[q].found = run[q].found
    <3>1. run' = run
      BY <1>4, ReadLeaves, SilentLeaves, PollLeaves, WriteLeaves, ErasesLeaves DEF SyncStep
    <3> QED
      BY <3>1 DEF Unjudged
  <2>2. Asking.read.state = "ready" /\ Asking.read.history = <<>>
    BY FreshRecords
  <2>3. CASE SyncRead(s) \/ PollSilent(s) \/ Poll(s)
    <3>1. /\ ticket' = ticket /\ mishaps' = mishaps
          /\ \/ HasRead(sync, sync', s, ticket) \/ HasForgotten(sync, sync', s)
             \/ IsTold(sync, sync', s, Len(pulls), pulls[Len(pulls)].state)
      BY <2>3, ReadLeaves, SilentLeaves, PollLeaves
    <3>2. /\ sync'[s].read \in {ticket, Asking.read, sync[s].read}
          /\ \A q \in Syncs : q # s => sync'[q] = sync[q]
      BY <3>1 DEF HasRead, HasForgotten, IsTold
    <3>3. \A q \in Syncs : sync'[q].read.state = "ready" => sync'[q].read.history = <<>>
      BY <1>1, <2>2, <3>2
    <3>4. StartsAreNamed'
      BY <1>1, <2>1, <3>1, NamedStays
    <3> QED
      BY <1>1, <3>1, <3>3, <3>4 DEF Settling
  <2>4. CASE SyncWrite(s) \/ SyncErases(s)
    <3>1. /\ HasForgotten(sync, sync', s) /\ mishaps \subseteq mishaps'
          /\ \/ ticket' = ticket
             \/ \E w, said, stranded :
                  IsReconciledFrom(ticket', sync[s].read, w, said, stranded)
      BY <2>4, WriteLeaves, ErasesLeaves
    <3>2. \A q \in Syncs : sync'[q].read.state = "ready" => sync'[q].read.history = <<>>
      BY <1>1, <2>2, <3>1 DEF HasForgotten
    <3>3. CASE ticket' = ticket
      <4>1. StartsAreNamed'
        BY <1>1, <2>1, <3>1, <3>3, NamedStays
      <4> QED
        BY <1>1, <3>2, <3>3, <4>1 DEF Settling
    <3>4. CASE \E w, said, stranded :
                 IsReconciledFrom(ticket', sync[s].read, w, said, stranded)
      <4>1. /\ ticket'.state # "provisioning"
            /\ ticket'.state = "ready" => ticket'.history = <<>>
        BY <1>1, <3>4 DEF IsReconciledFrom
      <4> QED
        BY <3>2, <4>1 DEF Settling, StartsAreNamed, Undoable
    <3> QED
      BY <3>1, <3>3, <3>4
  <2> QED
    BY <1>4, <2>3, <2>4 DEF SyncStep
<1>5. CASE PersonOpens \/ PersonEnds \/ PersonReopens
  <2>1. UNCHANGED <<ticket, run, sync, mishaps>>
    BY <1>5, PersonLeaves
  <2>2. \A q \in Unjudged' : q \in Unjudged /\ run'[q].found = run[q].found
    BY <2>1 DEF Unjudged
  <2>3. StartsAreNamed'
    BY <1>1, <2>1, <2>2, NamedStays
  <2> QED
    BY <1>1, <2>1, <2>3 DEF Settling
<1>6. ASSUME NEW r \in Runs, RunStep(r)
      PROVE  Settling'
  BY <1>1, <1>3, <1>6 DEF Settling
<1> QED
  BY <1>2, <1>4, <1>5, <1>6 DEF Next

LEMMA SettlingAlways == Spec => []Settling
<1>1. Init => Settling
  <2> SUFFICES ASSUME Init PROVE Settling
    OBVIOUS
  <2>1. /\ ticket.state = "ready" => ticket.history = <<>>
        /\ ticket.state # "provisioning"
    BY FreshRecords, FailedOnceIs DEF Init
  <2>2. \A s \in Syncs : sync[s].read.history = <<>>
    BY FreshRecords DEF Init
  <2> QED
    BY <2>1, <2>2 DEF Settling, StartsAreNamed, Undoable
<1>2. IInv /\ Settling /\ [Next]_vars => Settling'
  BY SettlingStep
<1> QED
  BY <1>1, <1>2, Invariant, PTL DEF Spec

LEMMA RefusalStep ==
  ASSUME IInv, Settling, [Next]_vars,
         mishaps \cap {"written_under_a_run", "restarted_under_a_run"} = {}
  PROVE  ReturnsToItsStart
<1> SUFFICES ASSUME NEW r \in Runs, run[r].at = "owed", run'[r].at = "ended", ticket' # ticket
             PROVE  ticket'.state = run[r].found
  BY DEF ReturnsToItsStart
<1>1. PICK q \in Runs : RunStep(q)
  <2>1. run' # run
    OBVIOUS
  <2> QED
    BY <2>1, ReadLeaves, SilentLeaves, PollLeaves, WriteLeaves, ErasesLeaves, PersonLeaves
    DEF Next, SyncStep, vars
<1>2. q = r
  <2>1. CASE Start(q)
    BY <2>1, StartLeaves DEF HasStarted
  <2>2. CASE StartOnStaleSpec(q) \/ Refused(q) \/ Finish(q)
             \/ FindRunLocked(q) \/ FinishUnreachable(q) \/ Die(q)
    <3>1. HasEnded(run, run', q)
      BY <2>2, StaleLeaves, RefusedLeaves, FinishLeaves, StopLeaves
    <3> QED
      BY <3>1 DEF HasEnded
  <2>3. CASE TakeRunLock(q) \/ OweAnswers(q) \/ Judge(q) \/ Open(q) \/ Return(q)
    BY <2>3, MovesLeaves, JudgeLeaves, OpenLeaves, ReturnLeaves
  <2> QED
    BY <1>1, <2>1, <2>2, <2>3 DEF RunStep
<1>3. Refused(r)
  <2>1. ~Start(r) /\ ~StartOnStaleSpec(r) /\ ~Finish(r)
    BY StartLeaves, StaleLeaves, FinishLeaves
  <2>2. ~(\/ TakeRunLock(r) \/ OweAnswers(r) \/ FindRunLocked(r) \/ FinishUnreachable(r) \/ Die(r)
          \/ Judge(r) \/ Open(r) \/ Return(r))
    BY MovesLeaves, StopLeaves, JudgeLeaves, OpenLeaves, ReturnLeaves
  <2> QED
    BY <1>1, <1>2, <2>1, <2>2 DEF RunStep
<1>4. /\ ticket.state = "provisioning" /\ LeftByLastStart \in {"changes_requested", "failed"}
      /\ PutBack(ticket', LeftByLastStart)
  BY <1>3, RefusedLeaves
<1>5. ticket'.state = LeftByLastStart
  BY <1>4 DEF PutBack
<1>6. run[r].found = LeftByLastStart
  BY <1>4 DEF Settling, StartsAreNamed, Undoable, Unjudged
<1> QED
  BY <1>5, <1>6

-----------------------------------------------------------------------------
(* Whose a pull request is, while nothing was lost. *)

LEMMA ReconciledStays ==
  ASSUME NEW t \in TicketRecords, NEW u \in TicketRecords, Extends(u, t), IsReconciled(t)
  PROVE  IsReconciled(u)
<1>1. Len(t.history) \in Nat /\ Len(u.history) \in Nat
  BY RecordFields
<1> QED
  BY <1>1 DEF IsReconciled, Extends

(* A run that goes on, or ends with nothing in hand, over a ticket that    *)
(* keeps its delivery.                                                     *)
LEMMA DeliveryKept ==
  ASSUME IInv, Openings, NEW r \in Runs,
         pulls' = pulls, mishaps \subseteq mishaps',
         ticket' \in TicketRecords, Extends(ticket', ticket), ticket'.delivery = ticket.delivery,
         \A q \in Runs : q # r => run'[q] = run[q],
         run'[r].result.number = run[r].result.number,
         run'[r].result.number # 0 => run'[r].at \in {"opened", "returned"}
  PROVE  Openings'
<1>1. ticket \in TicketRecords
  BY RecordsAre DEF IInv
<1>2. \A q \in Runs : run'[q].result.number = run[q].result.number
  OBVIOUS
<1>3. InHand'
  BY <1>2 DEF Openings, InHand
<1>4. ASSUME mishaps' = {} PROVE InHandAreOurs'
  <2>1. InHandAreOurs
    BY <1>4 DEF Openings
  <2> QED
    BY <1>2, <2>1 DEF InHandAreOurs, Ours
<1>5. ASSUME mishaps' = {} PROVE HandedIsTheirs'
  <2>1. HandedIsTheirs
    BY <1>5 DEF Openings
  <2> QED
    BY <1>2, <2>1 DEF HandedIsTheirs, Ours
<1>6. ASSUME mishaps' = {}, ~IsReconciled(ticket') PROVE OpenerIsKnown'
  <2>1. ~IsReconciled(ticket)
    BY <1>1, <1>6, ReconciledStays
  <2>2. OpenerIsKnown
    BY <1>6, <2>1 DEF Openings
  <2> QED
    BY <2>2 DEF OpenerIsKnown, Ours
<1> QED
  BY <1>3, <1>4, <1>5, <1>6 DEF Openings

(* The pull requests that were are whose they were. *)
LEMMA OwnersStay ==
  ASSUME IInv, [Next]_vars
  PROVE  /\ Len(pulls') >= Len(pulls)
         /\ \A n \in 1 .. Len(pulls) : pulls'[n].by = pulls[n].by
<1>1. Len(pulls) \in Nat
  BY RecordsAre DEF IInv
<1>2. CASE pulls' = pulls
  BY <1>1, <1>2
<1>3. CASE \E by \in {"loop", "person"} : IsAdded(pulls, pulls', by)
  BY <1>1, <1>3 DEF IsAdded
<1>4. CASE \E to \in {"open", "closed", "merged"} : IsMoved(pulls, pulls', to)
  BY <1>1, <1>4 DEF IsMoved
<1> QED
  BY <1>2, <1>3, <1>4, PullsChange

(* Every number in hand and on record is one the branch has. *)
LEMMA NumbersAre ==
  ASSUME IInv
  PROVE  /\ Len(pulls) \in Nat
         /\ ticket.delivery.number \in 0 .. Len(pulls)
         /\ \A r \in Runs : run[r].result.number \in 0 .. Len(pulls)
<1>1. /\ Len(pulls) \in Nat /\ ticket.delivery.number \in Nat
      /\ \A r \in Runs : run[r].result.number \in Nat
  BY RecordsAre, DeliveryFields DEF IInv
<1> QED
  BY <1>1 DEF IInv, Numbers

(* Other pull requests than the loop's, or none: what is known stays.      *)
LEMMA PullsOfOthers ==
  ASSUME IInv, Openings, UNCHANGED <<ticket, run, mishaps>>,
         Len(pulls') \in Nat, Len(pulls') >= Len(pulls),
         \A n \in 1 .. Len(pulls) : pulls'[n].by = pulls[n].by,
         \A n \in Len(pulls) + 1 .. Len(pulls') : pulls'[n].by # "loop"
  PROVE  Openings'
<1>1. /\ Len(pulls) \in Nat /\ ticket.delivery.number \in 0 .. Len(pulls)
      /\ \A r \in Runs : run[r].result.number \in 0 .. Len(pulls)
  BY NumbersAre
<1>2. InHand'
  BY DEF Openings, InHand
<1>3. ASSUME mishaps' = {} PROVE InHandAreOurs'
  <2>1. InHandAreOurs
    BY <1>3 DEF Openings
  <2> QED
    BY <1>1, <2>1 DEF InHandAreOurs, Ours
<1>4. \A n \in 1 .. Len(pulls) : (Ours(n))' = Ours(n)
  BY DEF Ours
<1>5. ASSUME mishaps' = {} PROVE HandedIsTheirs'
  <2>1. HandedIsTheirs
    BY <1>5 DEF Openings
  <2>2. \A n \in 1 .. Len(pulls') : (Ours(n))' => n \in 1 .. Len(pulls) /\ Ours(n)
    BY <1>1 DEF Ours
  <2> QED
    BY <1>1, <1>4, <2>1, <2>2 DEF HandedIsTheirs
<1>6. ASSUME mishaps' = {}, ~IsReconciled(ticket') PROVE OpenerIsKnown'
  <2>1. OpenerIsKnown /\ HandedIsTheirs
    BY <1>6 DEF Openings
  <2>2. ticket.delivery.openedBy = "loop" => ticket.delivery.number \in 1 .. Len(pulls)
    BY <1>1, <2>1 DEF HandedIsTheirs
  <2> QED
    BY <1>4, <2>1, <2>2 DEF OpenerIsKnown
<1> QED
  BY <1>2, <1>3, <1>5, <1>6 DEF Openings

LEMMA OpenKnows ==
  ASSUME IInv, Openings, NEW r \in Runs, Open(r)
  PROVE  Openings'
<1>1. /\ HasOpened(run, run', r, Len(pulls')) /\ run[r].at = "judged"
      /\ \/ /\ pulls # <<>>
            /\ mishaps' = mishaps \union
                 (IF Last(pulls).by = "person" THEN {"opener_lost"} ELSE {})
            /\ pulls' = pulls
         \/ IsAdded(pulls, pulls', "loop") /\ mishaps' = mishaps
      /\ ticket' = ticket
  BY OpenLeaves
<1>2. /\ Len(pulls) \in Nat /\ ticket.delivery.number \in 0 .. Len(pulls)
      /\ \A q \in Runs : run[q].result.number \in 0 .. Len(pulls)
  BY NumbersAre
<1>3. /\ run'[r].at = "opened" /\ run'[r].result.number = Len(pulls')
      /\ \A q \in Runs : q # r => run'[q] = run[q]
  BY <1>1 DEF HasOpened
<1>4. InHand'
  BY <1>3 DEF Openings, InHand
<1>5. run[r].result.number = 0
  BY <1>1 DEF Openings, InHand
<1>6. ASSUME mishaps' = {}
      PROVE  /\ mishaps = {}
             /\ Len(pulls') \in Nat /\ Len(pulls') >= Len(pulls) /\ Len(pulls') >= 1
             /\ \A n \in 1 .. Len(pulls) : pulls'[n].by = pulls[n].by
             /\ \A n \in Len(pulls) + 1 .. Len(pulls') : n = Len(pulls')
             /\ pulls'[Len(pulls')].by = "loop"
  <2>1. CASE IsAdded(pulls, pulls', "loop") /\ mishaps' = mishaps
    BY <1>2, <1>6, <2>1 DEF IsAdded
  <2>2. CASE /\ pulls # <<>> /\ pulls' = pulls
             /\ mishaps' = mishaps \union
                  (IF Last(pulls).by = "person" THEN {"opener_lost"} ELSE {})
    <3>1. Len(pulls) >= 1
      BY <1>2, <2>2, RecordsAre, EmptySeq DEF IInv
    <3>2. pulls[Len(pulls)] \in PullRecords
      BY <1>2, <3>1, RecordsAre DEF IInv
    <3>3. mishaps = {} /\ pulls[Len(pulls)].by # "person"
      BY <1>6, <2>2 DEF Last
    <3> QED
      BY <1>2, <2>2, <3>1, <3>2, <3>3 DEF PullRecords
  <2> QED
    BY <1>1, <2>1, <2>2
<1>7. ASSUME mishaps' = {} PROVE InHandAreOurs'
  <2>1. InHandAreOurs
    BY <1>6, <1>7 DEF Openings
  <2> QED
    BY <1>2, <1>3, <1>6, <1>7, <2>1 DEF InHandAreOurs, Ours
<1>8. ASSUME mishaps' = {} PROVE HandedIsTheirs'
  <2>1. HandedIsTheirs
    BY <1>1, <1>6, <1>8 DEF Openings
  <2>2. \A n \in 1 .. Len(pulls) : (Ours(n))' = Ours(n)
    BY <1>6, <1>8 DEF Ours
  <2>3. ASSUME NEW n \in 1 .. Len(pulls'), (Ours(n))'
        PROVE  n <= ticket.delivery.number \/ \E q \in Runs : run'[q].result.number = n
    <3>1. CASE n \in 1 .. Len(pulls)
      <4>1. Ours(n)
        BY <2>2, <2>3, <3>1
      <4>2. n <= ticket.delivery.number \/ \E q \in Runs : run[q].result.number = n
        BY <2>1, <3>1, <4>1 DEF HandedIsTheirs
      <4> QED
        BY <1>3, <1>5, <3>1, <4>2
    <3>2. CASE n = Len(pulls')
      BY <1>3, <3>2
    <3> QED
      BY <1>2, <1>6, <1>8, <3>1, <3>2
  <2> QED
    BY <1>1, <1>2, <2>1, <2>2, <2>3 DEF HandedIsTheirs
<1>9. ASSUME mishaps' = {}, ~IsReconciled(ticket') PROVE OpenerIsKnown'
  <2>1. OpenerIsKnown /\ HandedIsTheirs
    BY <1>1, <1>6, <1>9 DEF Openings
  <2>2. ticket.delivery.openedBy = "loop" => ticket.delivery.number \in 1 .. Len(pulls)
    BY <1>2, <2>1 DEF HandedIsTheirs
  <2> QED
    BY <1>1, <1>6, <1>9, <2>1, <2>2 DEF OpenerIsKnown, Ours
<1> QED
  BY <1>4, <1>7, <1>8, <1>9 DEF Openings

LEMMA FinishKnows ==
  ASSUME IInv, Openings, NEW r \in Runs, Finish(r)
  PROVE  Openings'
<1> DEFINE m == run[r].result.number
           d == Delivered(r)
<1>1. /\ IsRecorded(d, ticket, run[r].result) /\ Finished(ticket', d)
      /\ HasEnded(run, run', r) /\ pulls' = pulls
      /\ mishaps' = mishaps \union
           (IF m \in 1 .. ticket.delivery.number - 1 THEN {"older_pull_recorded"} ELSE {})
  BY FinishLeaves
<1>2. /\ Len(pulls) \in Nat /\ ticket.delivery.number \in 0 .. Len(pulls)
      /\ \A q \in Runs : run[q].result.number \in 0 .. Len(pulls)
      /\ ticket \in TicketRecords
  BY NumbersAre, RecordsAre DEF IInv
<1>3. run'[r].result.number = 0 /\ \A q \in Runs : q # r => run'[q] = run[q]
  BY <1>1 DEF HasEnded
<1>4. /\ ticket' \in TicketRecords /\ Extends(ticket', ticket)
      /\ ticket'.delivery.number = (IF m = 0 THEN ticket.delivery.number ELSE m)
      /\ ticket'.delivery.openedBy = (IF m # 0 THEN "loop"
                                      ELSE IF ticket.delivery.number # 0 THEN ticket.delivery.openedBy
                                      ELSE "unknown")
  BY <1>1 DEF IsRecorded, Finished
<1>5. InHand'
  BY <1>3 DEF Openings, InHand
<1>6. ASSUME mishaps' = {} PROVE InHandAreOurs'
  <2>1. InHandAreOurs
    BY <1>1, <1>6 DEF Openings
  <2> QED
    BY <1>1, <1>3, <2>1 DEF InHandAreOurs, Ours
<1> HIDE DEF d
<1>7. ASSUME mishaps' = {} PROVE HandedIsTheirs'
  <2>2. HandedIsTheirs
    BY <1>1, <1>7 DEF Openings
  <2>3. m = 0 \/ m >= ticket.delivery.number
    <3>1. m \notin 1 .. ticket.delivery.number - 1
      BY <1>1, <1>7
    <3>2. m \in Nat /\ ticket.delivery.number \in Nat
      BY <1>2
    <3> QED
      BY <3>1, <3>2
  <2>4. ticket'.delivery.number >= ticket.delivery.number /\ ticket'.delivery.number \in Nat
    BY <1>2, <1>4, <2>3
  <2>5. ASSUME NEW n \in 1 .. Len(pulls'), (Ours(n))'
        PROVE  n <= ticket'.delivery.number \/ \E q \in Runs : run'[q].result.number = n
    <3>1. n \in 1 .. Len(pulls) /\ Ours(n)
      BY <1>1, <2>5 DEF Ours
    <3>2. n <= ticket.delivery.number \/ \E q \in Runs : run[q].result.number = n
      BY <2>2, <3>1 DEF HandedIsTheirs
    <3>3. CASE n <= ticket.delivery.number
      BY <1>2, <2>4, <3>1, <3>3
    <3>4. ASSUME NEW q \in Runs, run[q].result.number = n
          PROVE  n <= ticket'.delivery.number \/ \E p \in Runs : run'[p].result.number = n
      <4>1. CASE q = r
        BY <1>4, <3>1, <3>4, <4>1
      <4>2. CASE q # r
        BY <1>3, <3>4, <4>2
      <4> QED
        BY <4>1, <4>2
    <3> QED
      BY <3>2, <3>3, <3>4
  <2>6. /\ ticket'.delivery.openedBy # "unknown" => ticket'.delivery.number # 0
        /\ ticket'.delivery.number # 0 /\ ticket'.delivery.openedBy # "loop" =>
             ~(Ours(ticket.delivery.number))'
    <3>1. CASE m # 0
      BY <1>4, <3>1
    <3>2. CASE m = 0
      BY <1>1, <1>4, <2>2, <3>2 DEF HandedIsTheirs, Ours
    <3> QED
      BY <3>1, <3>2
  <2> QED
    BY <2>5, <2>6 DEF HandedIsTheirs
<1>8. ASSUME mishaps' = {}, ~IsReconciled(ticket') PROVE OpenerIsKnown'
  <2>1. ~IsReconciled(ticket)
    BY <1>2, <1>4, <1>8, ReconciledStays
  <2>2. OpenerIsKnown /\ InHandAreOurs
    BY <1>1, <1>8, <2>1 DEF Openings
  <2>3. CASE m # 0
    BY <1>1, <1>4, <2>2, <2>3 DEF OpenerIsKnown, InHandAreOurs, Ours
  <2>4. CASE m = 0
    BY <1>1, <1>4, <2>2, <2>4 DEF OpenerIsKnown, Ours
  <2> QED
    BY <2>3, <2>4
<1> QED
  BY <1>5, <1>6, <1>7, <1>8 DEF Openings

(* What a sync writes while nothing was lost: the record it read, which is *)
(* the one on disk still, names the loop's last pull request if it names   *)
(* any of the loop's.                                                      *)
LEMMA WriteKnows ==
  ASSUME IInv, Openings, NEW s \in Syncs, SyncWrite(s)
  PROVE  Openings'
<1> DEFINE n == sync[s].number
           read == sync[s].read
           stranded == read.state \in STRANDED_STATES
<1>1. /\ \/ ticket' = ticket
         \/ /\ ticket' # ticket
            /\ ticket # read => "stale_write" \in mishaps'
            /\ UnderWay # {} => "written_under_a_run" \in mishaps'
            /\ IsWritten(Answered(s), read, n, sync[s].said, stranded)
            /\ IsReconciledFrom(ticket', read, Answered(s), sync[s].said, stranded)
      /\ sync[s].at = "polled" /\ mishaps \subseteq mishaps'
      /\ UNCHANGED <<pulls, run>>
  BY WriteLeaves
<1>2. InHand'
  BY <1>1 DEF Openings, InHand
<1>3. ASSUME mishaps' = {} PROVE InHandAreOurs'
  BY <1>1, <1>3 DEF Openings, InHandAreOurs, Ours
<1>4. CASE ticket' = ticket
  BY <1>1, <1>2, <1>3, <1>4 DEF Openings, HandedIsTheirs, OpenerIsKnown, IsReconciled, Ours
<1>5. CASE ticket' # ticket
  <2>1. ASSUME mishaps' = {}
        PROVE  /\ ticket = read /\ UnderWay = {} /\ HandedIsTheirs
               /\ ticket \in TicketRecords /\ Len(pulls) \in Nat
               /\ n \in 1 .. Len(pulls) /\ n >= ticket.delivery.number
               /\ ticket.delivery.number \in Nat
               /\ ticket' \in TicketRecords /\ Extends(ticket', ticket)
               /\ stranded => IsReconciled(ticket')
               /\ ticket'.delivery.number = n
               /\ ticket'.delivery.openedBy = AttributionOnRecord(ticket, n, stranded)
    <3>1. ticket = read /\ UnderWay = {} /\ mishaps = {}
      BY <1>1, <1>5, <2>1
    <3>2. /\ ticket \in TicketRecords /\ n \in Nat /\ n >= 1 /\ n >= ticket.delivery.number
          /\ ticket.delivery.number \in Nat /\ Len(pulls) \in Nat /\ n <= Len(pulls)
      BY <1>1, <3>1, RecordsAre, DeliveryFields DEF IInv, Numbers
    <3>3. /\ ticket' \in TicketRecords /\ Extends(ticket', ticket)
          /\ stranded => IsReconciled(ticket')
          /\ ticket'.delivery.number = n
          /\ ticket'.delivery.openedBy = AttributionOnRecord(ticket, n, stranded)
      BY <1>1, <1>5, <3>1 DEF IsWritten, IsReconciledFrom, IsReconciled
    <3> QED
      BY <3>1, <3>2, <3>3 DEF Openings
  <2> HIDE DEF n, read, stranded
  <2>2. ASSUME mishaps' = {}, ticket.delivery.number # n PROVE ~Ours(n)
    <3>1. \A q \in Runs : run[q].result.number # n
      BY <2>1, <2>2 DEF Openings, InHand, UnderWay
    <3> QED
      BY <2>1, <2>2, <3>1 DEF HandedIsTheirs
  <2>3. ASSUME mishaps' = {} PROVE HandedIsTheirs'
    <3>1. ticket'.delivery.number = n /\ n # 0
      BY <2>1, <2>3
    <3>2. ASSUME ticket'.delivery.openedBy # "loop" PROVE ~Ours(n)
      <4>1. CASE ticket.delivery.number # n
        BY <2>2, <2>3, <4>1
      <4>2. CASE ticket.delivery.number = n
        <5>1. ticket'.delivery.openedBy = RecordedOpener(ticket)
          BY <2>1, <2>3, <3>1, <4>2 DEF AttributionOnRecord
        <5>2. ticket.delivery.openedBy # "loop"
          BY <3>2, <5>1 DEF RecordedOpener
        <5> QED
          BY <2>1, <2>3, <3>1, <4>2, <5>2 DEF HandedIsTheirs
      <4> QED
        BY <4>1, <4>2
    <3>3. \A i \in 1 .. Len(pulls) :
            Ours(i) => i <= n \/ \E q \in Runs : run[q].result.number = i
      BY <2>1, <2>3 DEF HandedIsTheirs
    <3> QED
      BY <1>1, <3>1, <3>2, <3>3 DEF HandedIsTheirs, Ours
  <2>4. ASSUME mishaps' = {}, ~IsReconciled(ticket') PROVE OpenerIsKnown'
    <3>1. n # 0 /\ ~stranded /\ ticket'.delivery.number = n
      BY <2>1, <2>4
    <3>2. OpenerIsKnown
      BY <1>1, <2>1, <2>4, ReconciledStays DEF Openings
    <3>3. CASE ticket.delivery.number = n
      <4>1. ticket'.delivery.openedBy = ticket.delivery.openedBy
        BY <2>1, <2>4, <3>1, <3>2, <3>3 DEF AttributionOnRecord, RecordedOpener, OpenerIsKnown
      <4> QED
        BY <1>1, <3>1, <3>2, <3>3, <4>1 DEF OpenerIsKnown, Ours
    <3>4. CASE ticket.delivery.number # n
      <4>1. ticket'.delivery.openedBy = "hand_off"
        BY <2>1, <2>4, <3>1, <3>4 DEF AttributionOnRecord
      <4> QED
        BY <4>1 DEF OpenerIsKnown
    <3> QED
      BY <3>3, <3>4
  <2> QED
    BY <1>2, <1>3, <2>3, <2>4 DEF Openings
<1> QED
  BY <1>4, <1>5

(* An answer that could not be read is written, while nothing was lost,    *)
(* over a record that named no pull request.                               *)
LEMMA EraseKnows ==
  ASSUME IInv, Openings, NEW s \in Syncs, SyncErases(s)
  PROVE  Openings'
<1> DEFINE read == sync[s].read
<1>1. /\ \/ ticket' = ticket
         \/ /\ ticket' # ticket
            /\ ticket # read => "stale_write" \in mishaps'
            /\ read.delivery.number # 0 => "pull_erased" \in mishaps'
            /\ IsWritten(Erased(s), read, 0, "none", FALSE)
            /\ IsReconciledFrom(ticket', read, Erased(s), "none", FALSE)
      /\ mishaps \subseteq mishaps'
      /\ UNCHANGED <<pulls, run>>
  BY ErasesLeaves
<1>2. InHand'
  BY <1>1 DEF Openings, InHand
<1>3. ASSUME mishaps' = {} PROVE InHandAreOurs'
  BY <1>1, <1>3 DEF Openings, InHandAreOurs, Ours
<1>4. CASE ticket' = ticket
  BY <1>1, <1>2, <1>3, <1>4 DEF Openings, HandedIsTheirs, OpenerIsKnown, IsReconciled, Ours
<1>5. CASE ticket' # ticket
  <2>1. ASSUME mishaps' = {}
        PROVE  /\ HandedIsTheirs /\ ticket.delivery.number = 0
               /\ ticket'.delivery.number = 0
               /\ ticket'.delivery.openedBy = "unknown"
    BY <1>1, <1>5, <2>1 DEF Openings, IsWritten, IsReconciledFrom, AttributionOnRecord
  <2>2. ASSUME mishaps' = {} PROVE HandedIsTheirs'
    BY <1>1, <2>1, <2>2 DEF HandedIsTheirs, Ours
  <2>3. ASSUME mishaps' = {} PROVE OpenerIsKnown'
    BY <2>1, <2>3 DEF OpenerIsKnown
  <2> QED
    BY <1>2, <1>3, <2>2, <2>3 DEF Openings
<1> QED
  BY <1>4, <1>5

LEMMA OpeningsStep ==
  ASSUME IInv, Openings, [Next]_vars
  PROVE  Openings'
<1>1. ticket \in TicketRecords
  BY RecordsAre DEF IInv
<1>2. Extends(ticket, ticket)
  BY <1>1, ExtendsItself
<1>3. ASSUME NEW r \in Runs, RunStep(r)
      PROVE  Openings'
  <2>1. run[r].result.number # 0 => run[r].at \in {"opened", "returned"}
    BY DEF Openings, InHand
  <2>2. CASE Start(r)
    <3>1. /\ Begun(ticket', "provisioning", RunStartedNote)
          /\ HasStarted(run, run', r, ticket.state)
          /\ run[r].at = "idle" /\ mishaps \subseteq mishaps' /\ pulls' = pulls
      BY <2>2, StartLeaves
    <3>2. /\ ticket' \in TicketRecords /\ Extends(ticket', ticket)
          /\ ticket'.delivery = ticket.delivery
      BY <3>1 DEF Begun
    <3>3. /\ \A q \in Runs : q # r => run'[q] = run[q]
          /\ run'[r].result.number = run[r].result.number
      BY <3>1 DEF HasStarted
    <3> QED
      BY <2>1, <3>1, <3>2, <3>3, DeliveryKept
  <2>3. CASE StartOnStaleSpec(r) \/ Refused(r)
    <3>1. /\ \/ Begun(ticket', "plan_invalid", Note("spec_is_stale"))
             \/ PutBack(ticket', LeftByLastStart)
             \/ ticket' = ticket
          /\ HasEnded(run, run', r)
          /\ run[r].at \in {"idle", "owed"} /\ mishaps' = mishaps /\ pulls' = pulls
      BY <2>3, StaleLeaves, RefusedLeaves
    <3>2. /\ ticket' \in TicketRecords /\ Extends(ticket', ticket)
          /\ ticket'.delivery = ticket.delivery
      BY <1>1, <1>2, <3>1 DEF Begun, PutBack
    <3>3. /\ \A q \in Runs : q # r => run'[q] = run[q]
          /\ run'[r].result.number = 0
      BY <3>1 DEF HasEnded
    <3>4. run[r].result.number = 0
      BY <2>1, <3>1
    <3> QED
      BY <3>1, <3>2, <3>3, <3>4, DeliveryKept
  <2>4. CASE TakeRunLock(r) \/ OweAnswers(r)
    <3>1. /\ run'[r].result = run[r].result
          /\ run[r].at \in {"started", "locked"}
          /\ \A q \in Runs : q # r => run'[q] = run[q]
          /\ UNCHANGED <<ticket, pulls, mishaps>>
      BY <2>4, MovesLeaves
    <3> QED
      BY <1>1, <1>2, <2>1, <3>1, DeliveryKept
  <2>5. CASE FindRunLocked(r) \/ FinishUnreachable(r) \/ Die(r)
    <3>1. /\ HasEnded(run, run', r)
          /\ \/ run[r].at = "started" /\ mishaps' = mishaps
             \/ mishaps' = mishaps \union Unrecorded(r)
          /\ UNCHANGED <<ticket, pulls>>
      BY <2>5, StopLeaves
    <3>2. /\ \A q \in Runs : q # r => run'[q] = run[q]
          /\ run'[r].result.number = 0
      BY <3>1 DEF HasEnded
    <3>3. CASE run[r].result.number = 0
      BY <1>1, <1>2, <3>1, <3>2, <3>3, DeliveryKept
    <3>4. CASE run[r].result.number # 0
      <4>1. mishaps' # {}
        BY <2>1, <3>1, <3>4 DEF Unrecorded
      <4>2. InHand'
        BY <3>2 DEF Openings, InHand
      <4> QED
        BY <4>1, <4>2 DEF Openings
    <3> QED
      BY <3>3, <3>4
  <2>6. CASE Judge(r)
    <3>1. /\ \E result : IsJudged(run, run', r, result)
          /\ run[r].at = "locked"
          /\ UNCHANGED <<ticket, pulls, mishaps>>
      BY <2>6, JudgeLeaves
    <3>2. /\ \A q \in Runs : q # r => run'[q] = run[q]
          /\ run'[r].result.number = 0
      BY <3>1 DEF IsJudged
    <3> QED
      BY <1>1, <1>2, <2>1, <3>1, <3>2, DeliveryKept
  <2>7. CASE Return(r)
    <3>1. /\ HasReturned(run, run', r)
          /\ UNCHANGED <<ticket, pulls, mishaps>>
      BY <2>7, ReturnLeaves
    <3>2. /\ \A q \in Runs : q # r => run'[q] = run[q]
          /\ run'[r].result.number = run[r].result.number
          /\ run'[r].at = "returned"
      BY <3>1 DEF HasReturned
    <3> QED
      BY <1>1, <1>2, <3>1, <3>2, DeliveryKept
  <2> QED
    BY <1>3, <2>2, <2>3, <2>4, <2>5, <2>6, <2>7, OpenKnows, FinishKnows DEF RunStep
<1>4. CASE UNCHANGED <<ticket, run, mishaps>> /\ ~\E r \in Runs : RunStep(r)
  <2>1. Len(pulls') \in Nat /\ Len(pulls) \in Nat
    BY StepKeeps, RecordsAre DEF IInv
  <2>2. \A n \in Len(pulls) + 1 .. Len(pulls') : pulls'[n].by # "loop"
    <3>1. CASE pulls' = pulls
      BY <2>1, <3>1
    <3>2. CASE PersonOpens \/ PersonEnds \/ PersonReopens
      <4>1. \/ IsAdded(pulls, pulls', "person")
            \/ \E to \in {"open", "closed", "merged"} : IsMoved(pulls, pulls', to)
        BY <3>2, PersonLeaves
      <4> QED
        BY <2>1, <4>1 DEF IsAdded, IsMoved
    <3> QED
      BY <1>4, <3>1, <3>2, ReadLeaves, SilentLeaves, PollLeaves, WriteLeaves, ErasesLeaves
      DEF Next, SyncStep, vars
  <2> QED
    BY <1>4, <2>1, <2>2, OwnersStay, PullsOfOthers
<1>5. CASE \E s \in Syncs : SyncWrite(s) \/ SyncErases(s)
  BY <1>5, WriteKnows, EraseKnows
<1>6. ASSUME \A r \in Runs : ~RunStep(r), \A s \in Syncs : ~SyncWrite(s) /\ ~SyncErases(s)
      PROVE  UNCHANGED <<ticket, run, mishaps>>
  BY <1>6, ReadLeaves, SilentLeaves, PollLeaves, PersonLeaves DEF Next, SyncStep, vars
<1> QED
  BY <1>3, <1>4, <1>5, <1>6

LEMMA OpeningsAlways == Spec => []Openings
<1>1. Init => Openings
  <2> SUFFICES ASSUME Init PROVE Openings
    OBVIOUS
  <2>1. \A r \in Runs : run[r].result.number = 0
    BY FreshRecords DEF Init
  <2>2. /\ ticket.delivery.number = 0 /\ ticket.delivery.openedBy = "unknown"
        /\ 1 .. Len(pulls) = {}
    BY FreshRecords, FailedOnceIs, EmptySeq DEF Init
  <2> QED
    BY <2>1, <2>2 DEF Openings, InHand, InHandAreOurs, HandedIsTheirs, OpenerIsKnown
<1>2. IInv /\ Openings /\ [Next]_vars => Openings'
  BY OpeningsStep
<1> QED
  BY <1>1, <1>2, Invariant, PTL DEF Spec

LEMMA KnownOpenerIsTrue == IInv /\ Openings => OpenerIsTrueWhereNothingWasLost
<1> DEFINE d == ticket.delivery
<1> SUFFICES ASSUME IInv, Openings, mishaps = {}, d.openedBy # "unknown"
             PROVE  /\ d.number # 0
                    /\ d.openedBy = "loop" =>
                         \/ pulls[d.number].by = "loop"
                         \/ \E row \in ToSet(ticket.history) : row.note = Note("reconciled")
                    /\ d.openedBy = "hand_off" => pulls[d.number].by = "person"
  BY DEF OpenerIsTrueWhereNothingWasLost
<1>1. ticket \in TicketRecords
  BY RecordsAre DEF IInv
<1>2. d.number \in 1 .. Len(pulls)
  BY NumbersAre DEF Openings, HandedIsTheirs
<1>3. ASSUME d.openedBy = "loop",
             ~\E row \in ToSet(ticket.history) : row.note = Note("reconciled")
      PROVE  pulls[d.number].by = "loop"
  <2>1. ~IsReconciled(ticket)
    BY <1>1, <1>3, RecordFields DEF IsReconciled, ToSet
  <2> QED
    BY <1>3, <2>1 DEF Openings, OpenerIsKnown, Ours
<1>4. ASSUME d.openedBy = "hand_off" PROVE pulls[d.number].by = "person"
  <2>1. ~Ours(d.number)
    BY <1>2, <1>4 DEF Openings, HandedIsTheirs
  <2>2. pulls[d.number] \in PullRecords
    BY <1>2, RecordsAre DEF IInv
  <2> QED
    BY <2>1, <2>2 DEF Ours, PullRecords
<1> QED
  BY <1>2, <1>3, <1>4

-----------------------------------------------------------------------------
(* Every variable has its type, and no pull request is on record that the  *)
(* branch never had, for any number of runs, syncs and pull requests.      *)
THEOREM TypeCorrect == Spec => []TypeOK
  BY Invariant, InvariantIsTyped, PTL

(* The history of a ticket is a walk through the lifecycle that ends where *)
(* the ticket is, whichever command wrote each row and however old the     *)
(* record was it had read.                                                 *)
THEOREM HistoryIsLegal == Spec => []HistoryIsALifecycle
  BY Invariant, InvariantIsALifecycle, PTL

(* A ticket is merged only where a pull request of its branch is, however  *)
(* late the sync that says so writes.                                      *)
THEOREM MergeIsTrue == Spec => []MergedIsTrue
<1>1. IInv /\ Merges => MergedIsTrue
  <2> SUFFICES ASSUME IInv, Merges, ticket.state = "merged"
               PROVE  \E i \in DOMAIN pulls : pulls[i].state = "merged"
    BY DEF MergedIsTrue
  <2>1. DOMAIN pulls = 1 .. Len(pulls)
    BY RecordsAre, LenProperties DEF IInv
  <2> QED
    BY <2>1 DEF Merges, SomeMerged
<1> QED
  BY <1>1, Invariant, MergesAlways, PTL

(* What a run's loop can end with has, but for the gate of a run that      *)
(* judged no round of its own, a legal way to its end from `provisioning`: *)
(* the walk of `finished` throws only over a ticket that was moved.        *)
THEOREM ResultReachesItsEnd == Spec => []OnlyAMovedTicketRefusesAResult
  BY Invariant, JudgedAlways, JudgedReachesItsEnd, PTL

(* While no two runs of the ticket are under way at once and no sync wrote *)
(* a stale record, every row from `failed` to `pr_open` was written on the *)
(* evidence of a pull request: no walk takes it.                           *)
THEOREM ResumedOnItsEvidence == Spec /\ []OneAtATime => []ResumedOnEvidence
  BY Invariant, EvidenceAlways, EvidencedIsOnEvidence, PTL

(* A refusal that moves the ticket puts it back where the refused run      *)
(* found it, while no sync moved the ticket under a run and no run was     *)
(* started over a settled ticket with another still to be judged.          *)
THEOREM RefusalPutsBack == Spec => RefusalReturns
<1>1. IInv /\ Settling /\ [Next]_vars =>
        [mishaps \cap {"written_under_a_run", "restarted_under_a_run"} = {} =>
           ReturnsToItsStart]_vars
  BY RefusalStep
<1> QED
  BY <1>1, Invariant, SettlingAlways, PTL DEF Spec, RefusalReturns

(* While nothing was lost, stale, written under a run or written over a    *)
(* pull request from an answer that could not be read, a person the record *)
(* credits with the pull request it names did open it, and so did the loop *)
(* it credits, until a stranded ticket is reconciled.                      *)
THEOREM OpenerIsTrue == Spec => []OpenerIsTrueWhereNothingWasLost
  BY Invariant, OpeningsAlways, KnownOpenerIsTrue, PTL
=============================================================================
