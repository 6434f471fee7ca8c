----------------------------- MODULE LoopProofs -----------------------------
(***************************************************************************)
(* What Loop keeps for every set of findings, every cap on the rounds and  *)
(* budget, and any number of runs, crashes, waits and commits by hand.     *)
(***************************************************************************)
EXTENDS Loop, SequenceTheorems, TLAPS

(* The places of a run between a round's entry and an attempt's end. *)
Trying == {"enter", "executing", "waiting"}

(* The state a run starts in is the same whatever the record says.         *)
Blank ==
  [round |-> 0, remediation |-> 0, kind |-> "execute", executeRound |-> 0,
   transport |-> 0, ceiling |-> 0, superseded |-> 0, open |-> {},
   reviewed |-> FALSE, again |-> FALSE, conflict |-> None, continuing |-> FALSE, handed |-> {}]

(* A run starts with nothing of its own, and findings are continued from   *)
(* the record by a run of the ticket before anything else happened in it.  *)
StartsFresh ==
  /\ at \in {"idle", "starting"} =>
       /\ mine = <<>> /\ through = 0 /\ rounds = NoRounds /\ s = Blank
       /\ run.applied = 0
  /\ s.continuing => at = "enter" /\ mine = <<>> /\ rounds = NoRounds /\ run.how = "run" /\ run.applied = 0

(* A re-level is of a pull request there is. *)
RelevelsAPull == at = "starting" /\ run.how = "relevel" => published # None

(* A round is at most two past each remediation: the remediation itself,   *)
(* and the resolution its seal may ask for.                                *)
CapOf(st) ==
  /\ st.remediation <= MaxRounds
  /\ st.kind = "execute" => st.round <= 1 /\ st.remediation = 0
  /\ st.kind = "remediate" => st.remediation >= 1 /\ st.round <= 2 * st.remediation + 1
  /\ st.round <= 2 * st.remediation + 2
WithinCap ==
  /\ CapOf(s)
  /\ mine = <<>> => s.round <= s.remediation

ConflictStates == [tip: Nat, before: BOOLEAN, resume: Kinds]

(* A round that closes findings has some, and one that resolves a conflict *)
(* knows it: met before the executor, in the run's first round, it also    *)
(* knows the brief it interrupted.                                         *)
BriefOf(st) ==
  /\ st.kind = "remediate" => st.open # {}
  /\ st.kind = "resolve_conflict" =>
       /\ st.conflict \in ConflictStates
       /\ st.conflict.before =>
            /\ st.round <= st.remediation
            /\ st.conflict.resume \in {"execute", "remediate"}
            /\ st.conflict.resume = "execute" => st.remediation = 0
            /\ st.conflict.resume = "remediate" => st.remediation >= 1 /\ st.open # {}
Briefed == at \in Trying => BriefOf(s)

(* The diff of the attempt a run resumes is applied before its first       *)
(* attempt at the ticket's own brief, and no later entry asks for it.      *)
DiffIsApplied ==
  /\ RetainedDiffOnce
  /\ at = "enter" /\ mine = <<>> => run.applied = 0
  /\ at \in {"enter", "waiting"} /\ s.kind = "execute" /\ s.round = s.executeRound
       /\ s.transport = 0 /\ s.ceiling = 0 => run.applied = 0
  /\ at \in Trying /\ s.kind = "resolve_conflict" /\ s.conflict.before => run.applied = 0

(* Every attempt a sleeping or finished run made is written, and no more   *)
(* than it made.                                                           *)
Written ==
  /\ RecordedBeforeSleep
  /\ at \in {"waiting", "review_wait"} => mine # <<>>
  /\ through <= Len(mine)

(* A reset still to come, under the bound a run is given, is the wait of   *)
(* the last attempt on record, and only a run asleep, or none, is there to *)
(* see it.                                                                 *)
LimitIsOnRecord ==
  InForce =>
    /\ at \in {"idle", "starting", "waiting", "review_wait"}
    /\ disk # <<>> /\ disk[Len(disk)].wait = limit.named

(* One head carries one work, wherever it is named. *)
SameWork(x, y) == x.head = y.head => x.work = y.work
HeadsCarryTheirWork ==
  /\ SameWork(branch, judgement)
  /\ published # None => SameWork(branch, published) /\ SameWork(judgement, published)

(* Before its first attempt, a round that closes findings continues the    *)
(* record's.                                                               *)
ContinuesTheRecord ==
  /\ FindingsAreOfTheBranch
  /\ at = "enter" /\ mine = <<>> /\ s.kind = "remediate" => s.continuing

(* What is shown, what the record judged and what a run ends with an       *)
(* answer on was judged, or is no work at all.                             *)
Seen(b) == b.judged \/ b.work = 0
SeenByAReview ==
  /\ published # None => Seen(published)
  /\ judgement.decision # "none" /\ branch.head = judgement.head => Seen(branch)
  /\ at = "enter" /\ run.how = "relevel" /\ mine = <<>> => Seen(branch)
  /\ at = "ended" /\ outcome \in {"approved", "escalated", "relevelled"} => Seen(branch)

(* The attempts of a run are numbered by the round, the ceiling and the    *)
(* transport retry they ran under, and each comes before the next.         *)
Before(x, y) ==
  \/ x.round < y.round
  \/ x.round = y.round /\ x.ceiling < y.ceiling
  \/ x.round = y.round /\ x.ceiling = y.ceiling /\ x.transport < y.transport

IdsOfTheRun ==
  /\ \A i \in DOMAIN mine : mine[i].id.run = run.number
  /\ \A i, j \in DOMAIN mine : mine[i].id = mine[j].id => i = j
  /\ at \in Trying => \A i \in DOMAIN mine : Before(mine[i].id, Position)
  /\ \A i \in DOMAIN mine : mine[i].id.round <= s.round \/ at \in {"ended", "recording", "returned"}

IdsOnRecord ==
  /\ \A i, j \in DOMAIN disk : disk[i].id = disk[j].id => i = j
  /\ at # "idle" =>
       \A i \in DOMAIN disk : disk[i].id.run = run.number => \E j \in 1..through : disk[i].id = mine[j].id

IInv ==
  /\ TypeOK /\ RelevelsAPull /\ StartsFresh /\ WithinCap /\ Briefed /\ AttemptsAreNamedOnce
  /\ DiffIsApplied /\ Written /\ LimitIsOnRecord
  /\ HeadsCarryTheirWork /\ ContinuesTheRecord /\ SeenByAReview
  /\ IdsOfTheRun /\ IdsOnRecord

-----------------------------------------------------------------------------
(* Fresh is a number nothing goes by: six names leave one of seven free.   *)
LEMMA FreshIsNew ==
  ASSUME TypeOK
  PROVE  Fresh \in Nat /\ Fresh \notin Named
<1> DEFINE P(n) == n \notin Named /\ \A m \in 1..7 : m \in Named \/ n <= m
<1>1. \E n \in 1..7 : n \notin Named
  <2>1. CASE published = None
    BY <2>1 DEF Named
  <2>2. CASE published # None
    BY <2>2 DEF Named
  <2> QED
    BY <2>1, <2>2
<1>2. \E n \in 1..7 : P(n)
  BY <1>1
<1>3. Fresh = CHOOSE n \in 1..7 : P(n)
  BY DEF Fresh
<1> HIDE DEF P
<1>4. Fresh \in 1..7 /\ P(Fresh)
  BY <1>2, <1>3
<1> QED
  BY <1>4 DEF P

BranchStates == [head: Nat, work: Nat, base: Nat, foreign: BOOLEAN, judged: BOOLEAN]

(* What an attempt, a merge of the base or a restore leaves is a branch.   *)
LEMMA BranchesStay ==
  ASSUME TypeOK
  PROVE  /\ Sealed \subseteq BranchStates /\ OwnWork \subseteq Sealed
         /\ Emptied \in BranchStates /\ Restored \in BranchStates
         /\ \A b \in BranchStates : MergedUp(b) \in BranchStates
<1>1. branch \in BranchStates /\ base \in Nat /\ Fresh \in Nat
  BY FreshIsNew DEF TypeOK, BranchStates
<1>2. ASSUME NEW b \in OwnWork
      PROVE  b \in BranchStates
  <2>1. s.conflict # None => s.conflict.tip \in Nat
    BY DEF TypeOK, RoundState, Conflicts
  <2> QED
    BY <1>1, <1>2, <2>1, Zenon DEF OwnWork, BranchStates
<1>3. judgement.head \in Nat /\ judgement.work \in Nat
  BY DEF TypeOK
<1> QED
  BY <1>1, <1>2, <1>3, Zenon DEF Sealed, Emptied, Restored, MergedUp, BranchStates

(* The runs on record are no more than its attempts, so they have a count. *)
LEMMA RunNumbersAreNew ==
  ASSUME TypeOK, NEW counted \in Nat, NEW n \in RunNumbers(counted)
  PROVE  n \in Nat /\ n \notin RunsOnDisk
<1>1. n \in 1..(counted + Cardinality(RunsOnDisk) + 1) /\ n >= counted /\ n \notin RunsOnDisk
  BY DEF RunNumbers
<1>2. n \in Int
  BY <1>1
<1> QED
  BY <1>1, <1>2

-----------------------------------------------------------------------------
(* The ledger and the record as sequences: an attempt goes on the end, and *)
(* a flush writes what is past the mark, in order.                         *)
LEMMA AttemptIsAppended ==
  ASSUME TypeOK, NEW wait \in Nat
  PROVE  /\ Position \in Ids /\ Len(mine) \in Nat
         /\ Attempted(wait) \in Seq(Attempts) /\ Len(Attempted(wait)) = Len(mine) + 1
         /\ Attempted(wait) # <<>>
         /\ \A i \in 1..Len(mine) : Attempted(wait)[i] = mine[i]
         /\ Attempted(wait)[Len(mine) + 1].id = Position
         /\ Attempted(wait)[Len(mine) + 1].wait = wait
<1> DEFINE a == [id |-> Position, wait |-> wait]
<1>1. Position \in Ids
  BY DEF TypeOK, RoundState, Position, Ids
<1>2. a \in Attempts /\ a.id = Position /\ a.wait = wait
  BY <1>1 DEF Attempts
<1>3. mine \in Seq(Attempts) /\ Len(mine) \in Nat
  BY LenProperties DEF TypeOK
<1>4. Attempted(wait) = Append(mine, a)
  BY DEF Attempted
<1> HIDE DEF a
<1> QED
  BY <1>1, <1>2, <1>3, <1>4, AppendProperties, EmptySeq

LEMMA PendingIsWritten ==
  ASSUME TypeOK, NEW ledger \in Seq(Attempts)
  PROVE  /\ disk \o Pending(ledger) \in Seq(Attempts)
         /\ Len(disk) \in Nat /\ Len(ledger) \in Nat
         /\ through <= Len(ledger) =>
              /\ Len(disk \o Pending(ledger)) = Len(disk) + (Len(ledger) - through)
              /\ \A i \in 1..Len(disk) : (disk \o Pending(ledger))[i] = disk[i]
              /\ \A i \in (Len(disk) + 1)..(Len(disk) + (Len(ledger) - through)) :
                   (disk \o Pending(ledger))[i] = ledger[through + (i - Len(disk))]
<1> DEFINE q == Pending(ledger)
<1>1. /\ disk \in Seq(Attempts) /\ Len(disk) \in Nat /\ Len(ledger) \in Nat /\ through \in Nat
      /\ \A i \in (through + 1)..Len(ledger) : ledger[i] \in Attempts
  BY LenProperties, ElementOfSeq DEF TypeOK
<1>2. /\ q \in Seq(Attempts)
      /\ Len(q) = IF through + 1 <= Len(ledger) THEN Len(ledger) - (through + 1) + 1 ELSE 0
      /\ \A i \in 1..(Len(ledger) - (through + 1) + 1) : q[i] = ledger[(through + 1) + i - 1]
  BY <1>1, SubSeqProperties DEF Pending
<1> HIDE DEF q
<1>3. /\ disk \o q \in Seq(Attempts) /\ Len(disk \o q) = Len(disk) + Len(q)
      /\ \A i \in 1..(Len(disk) + Len(q)) : (disk \o q)[i] = IF i <= Len(disk) THEN disk[i] ELSE q[i - Len(disk)]
  BY <1>1, <1>2, ConcatProperties
<1>4. ASSUME through <= Len(ledger)
      PROVE  Len(q) = Len(ledger) - through
  BY <1>1, <1>2, <1>4
<1>5. ASSUME through <= Len(ledger), NEW i \in (Len(disk) + 1)..(Len(disk) + (Len(ledger) - through))
      PROVE  (disk \o q)[i] = ledger[through + (i - Len(disk))]
  <2> DEFINE j == i - Len(disk)
  <2>1. /\ i \in 1..(Len(disk) + Len(q)) /\ ~(i <= Len(disk))
        /\ j \in 1..(Len(ledger) - (through + 1) + 1) /\ (through + 1) + j - 1 = through + j
    BY <1>1, <1>4, <1>5
  <2>2. (disk \o q)[i] = q[j]
    BY <1>3, <2>1
  <2>3. q[j] = ledger[(through + 1) + j - 1]
    BY <1>2, <2>1
  <2> QED
    BY <2>1, <2>2, <2>3
<1>6. ASSUME NEW i \in 1..Len(disk)
      PROVE  (disk \o q)[i] = disk[i]
  <2>1. Len(q) \in Nat
    BY <1>2, LenProperties
  <2> QED
    BY <1>1, <1>3, <1>6, <2>1
<1>7. through <= Len(ledger) => Len(disk \o q) = Len(disk) + (Len(ledger) - through)
  BY <1>3, <1>4
<1> USE DEF q
<1> QED
  BY <1>1, <1>3, <1>5, <1>6, <1>7

-----------------------------------------------------------------------------
LEMMA FindingsOfTheRecord ==
  ASSUME TypeOK
  PROVE  ThePersons \subseteq Findings /\ Shipped \subseteq Findings /\ Handed \subseteq Findings
         /\ ToContinue \subseteq Findings
BY DEF TypeOK, ThePersons, Shipped, Handed, ToContinue

(* The steps of a round state lead to round states.                        *)
LEMMA RoundStates ==
  ASSUME TypeOK
  PROVE  /\ \A c \in BOOLEAN : InitialRoundState(c) \in RoundState
         /\ Confirmed \in RoundState /\ Reenter(Confirmed) \in RoundState
         /\ RetryTransport(s) \in RoundState /\ RetryCeiling(s) \in RoundState
         /\ \A k \in Kinds, r \in BOOLEAN : Advance(s, k, r) \in RoundState
<1>1. s \in RoundState /\ base \in Nat /\ Handed \subseteq Findings /\ ToContinue \subseteq Findings
  BY FindingsOfTheRecord DEF TypeOK
<1>2. None \in Conflicts
  BY DEF Conflicts
<1>3. \A c \in BOOLEAN : InitialRoundState(c) \in RoundState
  BY <1>1, <1>2 DEF InitialRoundState, RoundState, Kinds
<1>4. Confirmed \in RoundState
  BY <1>1, <1>3 DEF Confirmed, RoundState
<1>5. ASSUME NEW st \in RoundState
      PROVE  Reenter(st) \in RoundState
  BY <1>1, <1>5 DEF Reenter, RoundState, Conflicts, Kinds
<1>6. s.round + 1 \in Nat /\ s.remediation + 1 \in Nat /\ s.superseded + 1 \in Nat
      /\ s.transport + 1 \in Nat /\ s.ceiling + 1 \in Nat
  BY <1>1 DEF RoundState
<1>7. RetryTransport(s) \in RoundState /\ RetryCeiling(s) \in RoundState
  BY <1>1, <1>6 DEF RetryTransport, RetryCeiling, RoundState
<1>8. \A k \in Kinds, r \in BOOLEAN : Advance(s, k, r) \in RoundState
  BY <1>1, <1>6 DEF Advance, RoundState
<1> QED
  BY <1>3, <1>4, <1>5, <1>7, <1>8

(* What advancing to another round, and retrying in this one, set.         *)
LEMMA AdvancedState ==
  ASSUME s \in RoundState, NEW k \in Kinds, NEW r \in BOOLEAN, NEW st, st = Advance(s, k, r)
  PROVE  /\ st.round = s.round + 1 /\ st.kind = k /\ st.superseded = 0 /\ st.open = s.open
         /\ r => st.remediation = s.remediation + 1
         /\ ~r => st.remediation = s.remediation
BY DEF Advance, RoundState

LEMMA NextRounds ==
  ASSUME TypeOK
  PROVE  /\ ConflictAfterSeal =>
              /\ s'.round = s.round + 1 /\ s'.superseded = 0 /\ s'.remediation = s.remediation
              /\ s'.kind = "resolve_conflict"
              /\ s'.conflict = [tip |-> base, before |-> FALSE, resume |-> s.kind]
         /\ ResolutionLands =>
              /\ s'.round = s.round + 1 /\ s'.superseded = 0 /\ s'.remediation = s.remediation
              /\ s'.kind = s.conflict.resume /\ s'.open = s.open
         /\ VerifyAdvances \/ ReviewAdvances =>
              /\ s'.round = s.round + 1 /\ s'.superseded = 0 /\ s'.remediation = s.remediation + 1
              /\ s'.kind = "remediate" /\ s'.open # {}
<1>1. s \in RoundState /\ "remediate" \in Kinds /\ "resolve_conflict" \in Kinds
  BY DEF TypeOK, Kinds
<1>2. ASSUME ConflictAfterSeal
      PROVE  /\ s'.round = s.round + 1 /\ s'.superseded = 0 /\ s'.remediation = s.remediation
             /\ s'.kind = "resolve_conflict"
             /\ s'.conflict = [tip |-> base, before |-> FALSE, resume |-> s.kind]
  <2> DEFINE st == Advance(s, "resolve_conflict", FALSE)
  <2>1. s' = [st EXCEPT !.conflict = [tip |-> base, before |-> FALSE, resume |-> s.kind]]
    BY <1>2 DEF ConflictAfterSeal
  <2>2. st \in RoundState
    BY <1>1, RoundStates
  <2>3. st.round = s.round + 1 /\ st.kind = "resolve_conflict" /\ st.superseded = 0 /\ st.remediation = s.remediation
    BY <1>1, AdvancedState, Zenon
  <2> HIDE DEF st
  <2> QED
    BY <2>1, <2>2, <2>3 DEF RoundState
<1>3. ASSUME ResolutionLands
      PROVE  /\ s'.round = s.round + 1 /\ s'.superseded = 0 /\ s'.remediation = s.remediation
             /\ s'.kind = s.conflict.resume /\ s'.open = s.open
  BY <1>1, <1>3 DEF ResolutionLands, Advance, RoundState
<1>4. ASSUME NEW st, st = Advance(s, "remediate", TRUE)
      PROVE  /\ st \in RoundState
             /\ st.round = s.round + 1 /\ st.superseded = 0 /\ st.remediation = s.remediation + 1 /\ st.kind = "remediate"
  <2>1. st \in RoundState
    BY <1>1, <1>4, RoundStates
  <2> QED
    BY <1>1, <1>4, <2>1, AdvancedState, Zenon
<1>5. ASSUME VerifyAdvances
      PROVE  /\ s'.round = s.round + 1 /\ s'.superseded = 0 /\ s'.remediation = s.remediation + 1
             /\ s'.kind = "remediate" /\ s'.open # {}
  <2> DEFINE st == Advance(s, "remediate", TRUE)
  <2>1. PICK left : left # {} /\ s' = [st EXCEPT !.open = left]
    BY <1>5 DEF VerifyAdvances
  <2> HIDE DEF st
  <2>2. /\ st \in RoundState
        /\ st.round = s.round + 1 /\ st.superseded = 0 /\ st.remediation = s.remediation + 1 /\ st.kind = "remediate"
    BY <1>4 DEF st
  <2> QED
    BY <2>1, <2>2 DEF RoundState
<1>6. ASSUME ReviewAdvances
      PROVE  /\ s'.round = s.round + 1 /\ s'.superseded = 0 /\ s'.remediation = s.remediation + 1
             /\ s'.kind = "remediate" /\ s'.open # {}
  <2> DEFINE st == Advance(s, "remediate", TRUE)
  <2>1. PICK v \in Verdicts, causes \in SUBSET Findings :
          causes # {} /\ s' = [st EXCEPT !.open = causes, !.reviewed = TRUE, !.again = v.decision = "incomplete"]
    BY <1>6, Zenon DEF ReviewAdvances
  <2> HIDE DEF st
  <2>2. /\ st \in RoundState
        /\ st.round = s.round + 1 /\ st.superseded = 0 /\ st.remediation = s.remediation + 1 /\ st.kind = "remediate"
    BY <1>4 DEF st
  <2> QED
    BY <2>1, <2>2 DEF RoundState
<1> QED
  BY <1>2, <1>3, <1>5, <1>6

LEMMA TransportRetried ==
  ASSUME s \in RoundState, NEW st, st = RetryTransport(s)
  PROVE  /\ st.round = s.round /\ st.kind = s.kind /\ st.remediation = s.remediation
         /\ st.executeRound = s.executeRound /\ st.open = s.open /\ st.conflict = s.conflict
         /\ st.superseded = s.superseded + 1 /\ st.transport = s.transport + 1
BY DEF RetryTransport, RoundState

LEMMA CeilingRetried ==
  ASSUME s \in RoundState, NEW st, st = RetryCeiling(s)
  PROVE  /\ st.round = s.round /\ st.kind = s.kind /\ st.remediation = s.remediation
         /\ st.executeRound = s.executeRound /\ st.open = s.open /\ st.conflict = s.conflict
         /\ st.superseded = s.superseded + 1 /\ st.ceiling = s.ceiling + 1
BY DEF RetryCeiling, RoundState

LEMMA RetriedState ==
  ASSUME TypeOK, NEW st, st = RetryTransport(s) \/ st = RetryCeiling(s)
  PROVE  /\ st \in RoundState
         /\ st.round = s.round /\ st.kind = s.kind /\ st.remediation = s.remediation
         /\ st.executeRound = s.executeRound /\ st.open = s.open /\ st.conflict = s.conflict
         /\ st.superseded = s.superseded + 1
         /\ st.transport # 0 \/ st.ceiling # 0
<1>1. s \in RoundState
  BY DEF TypeOK
<1>2. s.transport + 1 # 0 /\ s.ceiling + 1 # 0
  BY <1>1 DEF RoundState
<1>3. st \in RoundState
  BY RoundStates
<1> QED
  BY <1>1, <1>2, <1>3, TransportRetried, CeilingRetried

LEMMA ReviewsAreTyped ==
  ASSUME TypeOK, NEW v \in Verdicts, NEW b \in BranchStates, RecordReview(v, b)
  PROVE  /\ judgement' \in [decision: Decisions, open: SUBSET Findings, remediable: SUBSET Findings,
                            keys: SUBSET Findings, verified: BOOLEAN, conceded: SUBSET Findings,
                            head: Nat, work: Nat]
         /\ answers' \in [finished: BOOLEAN, shipped: SUBSET Findings, handed: SUBSET Findings]
BY DEF RecordReview, Verdicts, BranchStates, Decisions

-----------------------------------------------------------------------------
(* A run starts, or is over, with nothing of its own.                      *)
LEMMA FreshRunsAreTyped ==
  ASSUME TypeOK, NEW how \in {"run", "resume", "relevel"}, NEW n \in Nat, FreshRun(how, n)
  PROVE  /\ s' \in RoundState /\ outcome' \in Outcomes
         /\ run' \in [how: {"run", "resume", "relevel", "deliver"}, number: Nat, owed: SUBSET Findings, applied: Nat]
         /\ mine' \in Seq(Attempts) /\ through' \in Nat /\ rounds' \in Records
         /\ declined' \in [last: SUBSET Findings, since: SUBSET Findings, all: SUBSET Findings]
BY RoundStates, EmptySeq DEF FreshRun, NoneDeclined, NoRounds, Records, Outcomes

(* An attempt's end: what it adds to the ledger.                           *)
LEMMA AttemptsAreTyped ==
  ASSUME TypeOK, NEW declines \in Declines
  PROVE  /\ Declining(declines) \in [last: SUBSET Findings, since: SUBSET Findings, all: SUBSET Findings]
         /\ AddAttempt(declines) =>
              /\ mine' \in Seq(Attempts)
              /\ declined' \in [last: SUBSET Findings, since: SUBSET Findings, all: SUBSET Findings]
<1>1. declines \subseteq Findings
  BY DEF TypeOK, Declines, RoundState
<1>2. Declining(declines) \in [last: SUBSET Findings, since: SUBSET Findings, all: SUBSET Findings]
  BY <1>1 DEF TypeOK, Declining
<1> QED
  BY <1>2, AttemptIsAppended DEF AddAttempt

(* A reset that is named is a new number. *)
LEMMA ResetsAreTyped ==
  ASSUME TypeOK, NameReset
  PROVE  limit' \in [failures: Nat, named: Nat, ahead: BOOLEAN, lowered: BOOLEAN] /\ limit'.named \in Nat
<1>1. limit \in [failures: Nat, named: Nat, ahead: BOOLEAN, lowered: BOOLEAN]
  BY DEF TypeOK
<1>2. limit.failures + 1 \in Nat /\ limit.named + 1 \in Nat
  BY <1>1
<1> QED
  BY <1>2 DEF NameReset

LEMMA RoundsAreTyped == TypeOK /\ AddRound => rounds' \in Records
<1> SUFFICES ASSUME TypeOK, AddRound
             PROVE  rounds' \in Records
  OBVIOUS
<1>1. s.round + 1 \in Nat /\ rounds.named + s.superseded + 1 \in Nat
  <2>1. s.round \in Nat /\ s.superseded \in Nat
    BY DEF TypeOK, RoundState
  <2>2. rounds.named \in Nat
    BY DEF TypeOK, Records
  <2> QED
    BY <2>1, <2>2
<1> QED
  BY <1>1 DEF AddRound, Records

LEMMA FlushesAreTyped ==
  ASSUME TypeOK, NEW ledger \in Seq(Attempts),
         NEW d \in [last: SUBSET Findings, since: SUBSET Findings, all: SUBSET Findings],
         Flush(ledger, d)
  PROVE  /\ disk' \in Seq(Attempts) /\ through' \in Nat
         /\ declined' \in [last: SUBSET Findings, since: SUBSET Findings, all: SUBSET Findings]
         /\ judgement' \in [decision: Decisions, open: SUBSET Findings, remediable: SUBSET Findings,
                            keys: SUBSET Findings, verified: BOOLEAN, conceded: SUBSET Findings,
                            head: Nat, work: Nat]
BY PendingIsWritten, LenProperties DEF TypeOK, Flush, Write

-----------------------------------------------------------------------------
LEMMA TypeInit == Init => TypeOK
<1> SUFFICES ASSUME Init
             PROVE  TypeOK
  OBVIOUS
<1>1. ToContinue = {} /\ Handed = {}
  BY DEF Init, ToContinue, Handed, Decidable
<1>2. s \in RoundState
  BY <1>1 DEF Init, InitialRoundState, RoundState, Kinds, Conflicts
<1>3. mine \in Seq(Attempts) /\ disk \in Seq(Attempts)
  BY EmptySeq DEF Init
<1> QED
  BY <1>2, <1>3 DEF Init, TypeOK, Places, NoneDeclined, NoRounds, Records, Outcomes, Decisions

LEMMA TypeStarts ==
  ASSUME TypeOK, RelevelsAPull,
         StartRun("run") \/ StartRun("resume") \/ StartRelevel \/ RelevelRefused \/ BeginRelevel \/ Begin
  PROVE  TypeOK'
<1>1. ASSUME NEW how \in {"run", "resume"}, StartRun(how)
      PROVE  TypeOK'
  <2>1. starts'.counted \in Nat /\ starts' \in [all: Nat, counted: Nat]
    <3>1. starts \in [all: Nat, counted: Nat]
      BY DEF TypeOK
    <3>2. starts.all + 1 \in Nat /\ starts.counted + 1 \in Nat
      BY <3>1
    <3> QED
      BY <1>1, <3>2 DEF StartRun
  <2>2. PICK n \in RunNumbers(starts'.counted) : FreshRun(how, n)
    BY <1>1 DEF StartRun
  <2>3. n \in Nat
    BY <2>1, RunNumbersAreNew
  <2> HIDE DEF TypeOK
  <2>4. /\ s' \in RoundState /\ outcome' \in Outcomes
        /\ run' \in [how: {"run", "resume", "relevel", "deliver"}, number: Nat, owed: SUBSET Findings, applied: Nat]
        /\ mine' \in Seq(Attempts) /\ through' \in Nat /\ rounds' \in Records
        /\ declined' \in [last: SUBSET Findings, since: SUBSET Findings, all: SUBSET Findings]
    BY <2>2, <2>3, FreshRunsAreTyped
  <2> QED
    BY <1>1, <2>1, <2>4, Zenon DEF StartRun, Goto, TypeOK, Places, branchVars
<1>2. CASE StartRelevel
  <2>1. starts.counted \in Nat /\ starts' \in [all: Nat, counted: Nat]
    <3>1. starts.all \in Nat /\ starts.counted \in Nat /\ starts \in [all: Nat, counted: Nat]
      BY DEF TypeOK
    <3> QED
      BY <1>2, <3>1 DEF StartRelevel
  <2>2. PICK n \in RunNumbers(starts.counted) : FreshRun("relevel", n)
    BY <1>2 DEF StartRelevel
  <2>3. n \in Nat
    BY <2>1, RunNumbersAreNew
  <2> QED
    BY <1>2, <2>1, <2>2, <2>3, FreshRunsAreTyped, Zenon DEF StartRelevel, Goto, TypeOK, Places, branchVars
<1>3. CASE RelevelRefused
  <2>1. FreshRun("run", 0)
    BY <1>3 DEF RelevelRefused
  <2> QED
    BY <1>3, <2>1, FreshRunsAreTyped, Zenon DEF RelevelRefused, Goto, TypeOK, Places, branchVars
<1>4. CASE BeginRelevel
  <2>1. published # None
    BY <1>4 DEF BeginRelevel, Goto, RelevelsAPull
  <2> QED
    BY <1>4, <2>1 DEF BeginRelevel, Goto, TypeOK, Places, runVars
<1>5. CASE Begin
  <2>1. s \in RoundState /\ [s EXCEPT !.reviewed = TRUE] \in RoundState
    BY DEF TypeOK, RoundState
  <2>2. s' \in RoundState
    BY <1>5, <2>1, RoundStates DEF Begin
  <2>3. run \in [how: {"run", "resume", "relevel", "deliver"}, number: Nat, owed: SUBSET Findings, applied: Nat]
    BY DEF TypeOK
  <2>4. ThePersons \ (Shipped \union Handed) \subseteq Findings
    BY FindingsOfTheRecord
  <2>5. run' \in [how: {"run", "resume", "relevel", "deliver"}, number: Nat, owed: SUBSET Findings, applied: Nat]
    BY <1>5, <2>3, <2>4 DEF Begin
  <2>6. at' \in Places /\ outcome' \in Outcomes
    BY <1>5 DEF Begin, End, TypeOK, Places, Outcomes
  <2> QED
    BY <1>5, <2>2, <2>5, <2>6, Zenon DEF Begin, TypeOK, branchVars
<1> QED
  BY <1>1, <1>2, <1>3, <1>4, <1>5

LEMMA TypeEntries ==
  ASSUME TypeOK, EnterConflict \/ EnterStuck \/ EnterExecutor \/ EnterLevel \/ EnterRelevelled \/ EnterRelevelReviewed
  PROVE  TypeOK'
<1>1. MergedUp(branch) \in BranchStates /\ branch \in BranchStates /\ Confirmed \in RoundState /\ s \in RoundState
  BY BranchesStay, RoundStates DEF TypeOK, BranchStates
<1>2. CASE EnterConflict
  BY <1>2, RoundStates DEF EnterConflict, TypeOK, branchVars
<1>3. CASE EnterStuck
  BY <1>1, <1>3 DEF EnterStuck, End, TypeOK, branchVars, Places, Outcomes
<1>4. CASE EnterExecutor
  <2>1. branch' \in BranchStates /\ s' \in RoundState
    BY <1>1, <1>4 DEF EnterExecutor
  <2>2. run \in [how: {"run", "resume", "relevel", "deliver"}, number: Nat, owed: SUBSET Findings, applied: Nat]
    BY DEF TypeOK
  <2>3. run.applied + (IF AppliesDiff(s') THEN 1 ELSE 0) \in Nat
    BY <2>2
  <2>4. run' \in [how: {"run", "resume", "relevel", "deliver"}, number: Nat, owed: SUBSET Findings, applied: Nat]
    BY <1>4, <2>2, <2>3 DEF EnterExecutor
  <2>5. at' \in Places /\ outcome' \in Outcomes
    BY <1>4 DEF EnterExecutor, End, TypeOK, Places, Outcomes
  <2> QED
    BY <1>4, <2>1, <2>4, <2>5 DEF EnterExecutor, TypeOK, BranchStates
<1>5. CASE EnterLevel
  BY <1>5, Zenon DEF EnterLevel, End, TypeOK, branchVars, Places, Outcomes
<1>6. CASE EnterRelevelled
  <2>1. branch' \in BranchStates /\ at' \in Places /\ outcome' \in Outcomes
    BY <1>1, <1>6 DEF EnterRelevelled, End, Places, Outcomes
  <2> QED
    BY <1>6, <2>1 DEF EnterRelevelled, TypeOK, BranchStates
<1>7. CASE EnterRelevelReviewed
  <2>1. branch' \in BranchStates
    BY <1>1, <1>7 DEF EnterRelevelReviewed, BranchStates
  <2>2. PICK v \in Verdicts : RecordReview(v, branch')
    BY <1>7 DEF EnterRelevelReviewed
  <2>3. /\ judgement' \in [decision: Decisions, open: SUBSET Findings, remediable: SUBSET Findings,
                           keys: SUBSET Findings, verified: BOOLEAN, conceded: SUBSET Findings,
                           head: Nat, work: Nat]
        /\ answers' \in [finished: BOOLEAN, shipped: SUBSET Findings, handed: SUBSET Findings]
    BY <2>1, <2>2, ReviewsAreTyped
  <2>4. s' \in RoundState
    BY <1>1, <1>7 DEF EnterRelevelReviewed, RoundState
  <2>5. at' \in Places /\ outcome' \in Outcomes
    BY <1>7 DEF EnterRelevelReviewed, End, Places, Outcomes
  <2> QED
    BY <1>7, <2>1, <2>3, <2>4, <2>5 DEF EnterRelevelReviewed, TypeOK, BranchStates
<1> QED
  BY <1>2, <1>3, <1>4, <1>5, <1>6, <1>7

LEMMA TypeAttempts ==
  ASSUME TypeOK, Briefed, Attempting
  PROVE  TypeOK'
<1>1. /\ Sealed \subseteq BranchStates /\ OwnWork \subseteq BranchStates /\ Emptied \in BranchStates
      /\ \A b \in BranchStates : MergedUp(b) \in BranchStates
  BY BranchesStay
<1>2. s \in RoundState /\ RetryTransport(s) \in RoundState /\ RetryCeiling(s) \in RoundState
  BY RoundStates DEF TypeOK
<1>3. CASE ConfigurationPresent
  BY <1>3 DEF ConfigurationPresent, End, AttemptEnded, TypeOK, Places, Outcomes
<1>4. CASE TransportRetries
  <2>1. branch' \in BranchStates /\ limit' \in [failures: Nat, named: Nat, ahead: BOOLEAN, lowered: BOOLEAN]
    <3>1. limit \in [failures: Nat, named: Nat, ahead: BOOLEAN, lowered: BOOLEAN] /\ limit.failures + 1 \in Nat
      BY DEF TypeOK
    <3> QED
      BY <1>1, <1>4, <3>1 DEF TransportRetries
  <2>2. PICK declines \in Declines : AddAttempt(declines)
    BY <1>4 DEF TransportRetries
  <2> QED
    BY <1>2, <1>4, <2>1, <2>2, AttemptsAreTyped, Zenon DEF TransportRetries, AttemptEnded, TypeOK, Places,
      BranchStates
<1>5. CASE TransportParks
  <2>1. branch' \in BranchStates
    BY <1>1, <1>5 DEF TransportParks
  <2>2. limit' \in [failures: Nat, named: Nat, ahead: BOOLEAN, lowered: BOOLEAN] /\ limit'.named \in Nat
    BY <1>5, ResetsAreTyped DEF TransportParks
  <2>3. PICK declines \in Declines : Flush(mine', Declining(declines))
    BY <1>5 DEF TransportParks
  <2>4. mine' \in Seq(Attempts)
    BY <1>5, <2>2, AttemptIsAppended DEF TransportParks
  <2>5. Declining(declines) \in [last: SUBSET Findings, since: SUBSET Findings, all: SUBSET Findings]
    BY AttemptsAreTyped
  <2>6. /\ disk' \in Seq(Attempts) /\ through' \in Nat
        /\ declined' \in [last: SUBSET Findings, since: SUBSET Findings, all: SUBSET Findings]
        /\ judgement' \in [decision: Decisions, open: SUBSET Findings, remediable: SUBSET Findings,
                           keys: SUBSET Findings, verified: BOOLEAN, conceded: SUBSET Findings,
                           head: Nat, work: Nat]
    BY <2>3, <2>4, <2>5, FlushesAreTyped
  <2> QED
    <3>1. /\ s' \in RoundState /\ at' \in Places
          /\ UNCHANGED <<rounds, outcome, run, starts, base, published, commits, answers>>
      BY <1>2, <1>5 DEF TransportParks, Places
    <3> QED
      BY <2>1, <2>2, <2>4, <2>6, <3>1 DEF TypeOK, BranchStates
<1>6. CASE CeilingContinues
  <2>1. branch' \in BranchStates
    BY <1>1, <1>6 DEF CeilingContinues
  <2>2. PICK declines \in Declines : AddAttempt(declines)
    BY <1>6 DEF CeilingContinues
  <2> QED
    BY <1>2, <1>6, <2>1, <2>2, AttemptsAreTyped, Zenon DEF CeilingContinues, AttemptEnded, TypeOK, Places,
      BranchStates
<1>7. CASE AttemptStops
  <2>1. branch' \in BranchStates
    BY <1>1, <1>7 DEF AttemptStops
  <2>2. PICK declines \in Declines : AddAttempt(declines)
    BY <1>7 DEF AttemptStops
  <2>3. rounds' \in Records
    BY <1>7, RoundsAreTyped DEF AttemptStops
  <2> QED
    BY <1>7, <2>1, <2>2, <2>3, AttemptsAreTyped, Zenon DEF AttemptStops, End, AttemptEnded, TypeOK, Places,
      Outcomes, BranchStates
<1>8. CASE AttemptChangesNothing
  <2>1. branch' \in BranchStates
    BY <1>1, <1>8 DEF AttemptChangesNothing
  <2>2. PICK declines \in Declines : AddAttempt(declines)
    BY <1>8 DEF AttemptChangesNothing
  <2>3. rounds' \in Records
    BY <1>8, RoundsAreTyped DEF AttemptChangesNothing
  <2>4. at' \in Places /\ outcome' \in Outcomes
    BY <1>8 DEF AttemptChangesNothing, End, Places, Outcomes
  <2> QED
    BY <1>8, <2>1, <2>2, <2>3, <2>4, AttemptsAreTyped, Zenon DEF AttemptChangesNothing, AttemptEnded,
      TypeOK, BranchStates
<1>9. ASSUME NEW c \in BOOLEAN, Completes(c)
      PROVE  /\ branch' \in BranchStates /\ mine' \in Seq(Attempts)
             /\ declined' \in [last: SUBSET Findings, since: SUBSET Findings, all: SUBSET Findings]
  <2>1. branch' \in BranchStates
    BY <1>1, <1>9 DEF Completes
  <2>2. PICK declines \in Declines : AddAttempt(declines)
    BY <1>9 DEF Completes
  <2> QED
    BY <2>1, <2>2, AttemptsAreTyped
<1>10. CASE ConflictAfterSeal
  <2>1. rounds' \in Records /\ s.kind \in Kinds /\ base \in Nat /\ Advance(s, "resolve_conflict", FALSE) \in RoundState
    BY <1>2, <1>10, RoundsAreTyped, RoundStates DEF ConflictAfterSeal, TypeOK, RoundState, Kinds
  <2>2. s' \in RoundState
    BY <1>10, <2>1 DEF ConflictAfterSeal, RoundState, Conflicts
  <2> QED
    BY <1>9, <1>10, <2>1, <2>2, Zenon DEF ConflictAfterSeal, AttemptEnded, TypeOK, Places, BranchStates
<1>11. CASE ConflictStops
  <2>1. rounds' \in Records
    BY <1>11, RoundsAreTyped DEF ConflictStops
  <2> QED
    BY <1>9, <1>11, <2>1, Zenon DEF ConflictStops, End, AttemptEnded, TypeOK, Places, Outcomes, BranchStates
<1>12. CASE ResolutionLands
  <2> s.conflict \in ConflictStates
    BY <1>12 DEF ResolutionLands, Completes, BriefStillOwed, Briefed, BriefOf, Trying
  <2>1. rounds' \in Records /\ s.conflict.resume \in Kinds /\ None \in Conflicts /\ s.round + 1 \in Nat
    BY <1>2, <1>12, RoundsAreTyped DEF ResolutionLands, RoundState, Conflicts, ConflictStates
  <2>2. Advance(s, s.conflict.resume, FALSE) \in RoundState /\ s.executeRound \in Nat
    BY <1>2, <2>1, RoundStates DEF RoundState
  <2>3. s' \in RoundState
    BY <1>12, <2>1, <2>2 DEF ResolutionLands, RoundState
  <2> QED
    BY <1>9, <1>12, <2>1, <2>3, Zenon DEF ResolutionLands, AttemptEnded, TypeOK, Places, BranchStates
<1>13. CASE RoundCompletes
  <2>1. s' \in RoundState
    BY <1>2, <1>13 DEF RoundCompletes, RoundState, Conflicts
  <2>2. at' \in Places
    BY <1>13 DEF RoundCompletes, Places
  <2> QED
    BY <1>9, <1>13, <2>1, <2>2, Zenon DEF RoundCompletes, AttemptEnded, TypeOK, BranchStates
<1> QED
  BY <1>3, <1>4, <1>5, <1>6, <1>7, <1>8, <1>10, <1>11, <1>12, <1>13 DEF Attempting

LEMMA TypeJudgements ==
  ASSUME TypeOK, Judging \/ WaitOver
  PROVE  TypeOK'
<1>1. /\ branch \in BranchStates /\ Restored \in BranchStates /\ s \in RoundState /\ None \in Conflicts
      /\ [branch EXCEPT !.judged = TRUE] \in BranchStates
  BY BranchesStay DEF TypeOK, BranchStates, Conflicts
<1>2. ToVerify \subseteq Findings
  BY <1>1 DEF ToVerify, RoundState
<1>3. judgement \in [decision: Decisions, open: SUBSET Findings, remediable: SUBSET Findings,
                     keys: SUBSET Findings, verified: BOOLEAN, conceded: SUBSET Findings,
                     head: Nat, work: Nat]
  BY DEF TypeOK
<1>4. ASSUME NEW closed \in SUBSET ToVerify, RecordVerification(ToVerify, closed)
      PROVE  /\ branch' \in BranchStates
             /\ judgement' \in [decision: Decisions, open: SUBSET Findings, remediable: SUBSET Findings,
                                keys: SUBSET Findings, verified: BOOLEAN, conceded: SUBSET Findings,
                                head: Nat, work: Nat]
  <2>1. branch.head \in Nat /\ branch.work \in Nat
    BY <1>1 DEF BranchStates
  <2> QED
    BY <1>1, <1>2, <1>3, <1>4, <2>1 DEF RecordVerification
<1>5. CASE VerifyWidened
  <2>1. rounds' \in Records /\ branch' \in BranchStates
    BY <1>1, <1>5, RoundsAreTyped, Zenon DEF VerifyWidened
  <2>2. judgement' \in [decision: Decisions, open: SUBSET Findings, remediable: SUBSET Findings,
                        keys: SUBSET Findings, verified: BOOLEAN, conceded: SUBSET Findings,
                        head: Nat, work: Nat]
    BY <1>2, <1>3, <1>5 DEF VerifyWidened
  <2> QED
    BY <1>5, <2>1, <2>2 DEF VerifyWidened, End, Judged, TypeOK, Places, Outcomes, BranchStates
<1>6. CASE VerifyStops
  <2>1. rounds' \in Records
    BY <1>6, RoundsAreTyped DEF VerifyStops
  <2>2. PICK closed \in SUBSET ToVerify : RecordVerification(ToVerify, closed)
    BY <1>6 DEF VerifyStops
  <2>3. at' \in Places
    BY <1>6 DEF VerifyStops, End, Places
  <2>4. outcome' \in Outcomes
    BY <1>6 DEF VerifyStops, End, OrTheirs, Outcomes
  <2> QED
    BY <1>4, <1>6, <2>1, <2>2, <2>3, <2>4 DEF VerifyStops, Judged, TypeOK, BranchStates
<1>7. CASE VerifyAdvances
  <2>1. PICK closed \in SUBSET ToVerify :
          /\ RecordVerification(ToVerify, closed)
          /\ s' = [Advance(s, "remediate", TRUE) EXCEPT !.open = s.open \intersect (ToVerify \ closed)]
    BY <1>7 DEF VerifyAdvances
  <2>2. Advance(s, "remediate", TRUE) \in RoundState
    BY RoundStates DEF Kinds
  <2>3. s' \in RoundState
    <3>1. s.open \intersect (ToVerify \ closed) \subseteq Findings
      BY DEF TypeOK, RoundState
    <3> QED
      BY <2>1, <2>2, <3>1 DEF RoundState
  <2>4. rounds' \in Records
    BY <1>7, RoundsAreTyped DEF VerifyAdvances
  <2> QED
    BY <1>4, <1>7, <2>1, <2>3, <2>4 DEF VerifyAdvances, Judged, TypeOK, Places, BranchStates
<1>8. CASE ReviewRefused
  BY <1>8 DEF ReviewRefused, Goto, runVars, branchVars, TypeOK, Places
<1>9. CASE ReviewParks
  <2>1. limit' \in [failures: Nat, named: Nat, ahead: BOOLEAN, lowered: BOOLEAN] /\ limit'.named \in Nat
    BY <1>9, ResetsAreTyped DEF ReviewParks
  <2>2. mine \in Seq(Attempts) /\ Len(mine) \in 1..Len(mine) /\ mine[Len(mine)] \in Attempts /\ limit'.named \in Nat
    <3>1. mine \in Seq(Attempts) /\ through \in Nat /\ Len(mine) > through
      BY <1>9 DEF ReviewParks, TypeOK
    <3>2. Len(mine) \in 1..Len(mine)
      BY <3>1, LenProperties
    <3> QED
      BY <2>1, <3>1, <3>2, ElementOfSeq
  <2>3. [mine[Len(mine)] EXCEPT !.wait = limit'.named] \in Attempts
    BY <2>2 DEF Attempts
  <2>4. mine' = [mine EXCEPT ![Len(mine)] = [mine[Len(mine)] EXCEPT !.wait = limit'.named]]
    BY <1>9 DEF ReviewParks
  <2>5. mine' \in Seq(Attempts)
    BY <2>2, <2>3, <2>4, ExceptSeq
  <2>6. Flush(mine', declined) /\ declined \in [last: SUBSET Findings, since: SUBSET Findings, all: SUBSET Findings]
    BY <1>9 DEF ReviewParks, TypeOK
  <2>7. /\ disk' \in Seq(Attempts) /\ through' \in Nat
        /\ declined' \in [last: SUBSET Findings, since: SUBSET Findings, all: SUBSET Findings]
        /\ judgement' \in [decision: Decisions, open: SUBSET Findings, remediable: SUBSET Findings,
                           keys: SUBSET Findings, verified: BOOLEAN, conceded: SUBSET Findings,
                           head: Nat, work: Nat]
    BY <2>5, <2>6, FlushesAreTyped
  <2> QED
    BY <1>9, <2>1, <2>5, <2>7, Zenon DEF ReviewParks, Goto, TypeOK, Places, branchVars
<1>10. ASSUME NEW v \in Verdicts, ReviewRecorded(v)
       PROVE  /\ branch' \in BranchStates /\ rounds' \in Records
              /\ judgement' \in [decision: Decisions, open: SUBSET Findings, remediable: SUBSET Findings,
                                 keys: SUBSET Findings, verified: BOOLEAN, conceded: SUBSET Findings,
                                 head: Nat, work: Nat]
              /\ answers' \in [finished: BOOLEAN, shipped: SUBSET Findings, handed: SUBSET Findings]
              /\ declined' \in [last: SUBSET Findings, since: SUBSET Findings, all: SUBSET Findings]
              /\ run' \in [how: {"run", "resume", "relevel", "deliver"}, number: Nat, owed: SUBSET Findings, applied: Nat]
  <2>1. RecordReview(v, branch) /\ branch' \in BranchStates /\ rounds' \in Records
    BY <1>1, <1>10, RoundsAreTyped DEF ReviewRecorded
  <2>2. /\ declined' \in [last: SUBSET Findings, since: SUBSET Findings, all: SUBSET Findings]
        /\ run' \in [how: {"run", "resume", "relevel", "deliver"}, number: Nat, owed: SUBSET Findings, applied: Nat]
    BY <1>10 DEF ReviewRecorded, TypeOK
  <2> QED
    BY <1>1, <2>1, <2>2, ReviewsAreTyped
<1>11. CASE ReviewAdvances
  <2>1. PICK v \in Verdicts, causes \in SUBSET Findings :
          /\ ReviewRecorded(v)
          /\ s' = [Advance(s, "remediate", TRUE) EXCEPT
                     !.open = causes, !.reviewed = TRUE, !.again = v.decision = "incomplete"]
    BY <1>11, Zenon DEF ReviewAdvances
  <2>2. Advance(s, "remediate", TRUE) \in RoundState
    BY RoundStates DEF Kinds
  <2>3. s' \in RoundState
    BY <2>1, <2>2 DEF RoundState
  <2> QED
    BY <1>10, <1>11, <2>1, <2>3 DEF ReviewAdvances, ReviewRecorded, TypeOK, Places, BranchStates
<1>12. CASE ReviewStops
  <2>1. PICK v \in Verdicts : ReviewRecorded(v)
    BY <1>12 DEF ReviewStops
  <2>2. s' \in RoundState
    BY <1>1, <1>12 DEF ReviewStops, RoundState
  <2>3. at' \in Places /\ outcome' \in Outcomes
    BY <1>12 DEF ReviewStops, End, Places, Outcomes
  <2> QED
    BY <1>10, <1>12, <2>1, <2>2, <2>3 DEF ReviewStops, ReviewRecorded, TypeOK, BranchStates
<1>13. CASE WaitOver
  BY <1>13 DEF WaitOver, Goto, runVars, branchVars, TypeOK, Places
<1> QED
  BY <1>5, <1>6, <1>7, <1>8, <1>9, <1>11, <1>12, <1>13 DEF Judging

LEMMA TypeEnds ==
  ASSUME TypeOK, Publish \/ PublishConflict \/ PublishNothing \/ Finish \/ Return \/ Crash
  PROVE  TypeOK'
<1>1. /\ branch \in BranchStates /\ MergedUp(branch) \in BranchStates
      /\ InitialRoundState(FALSE) \in RoundState /\ Verdict \in Outcomes
  BY BranchesStay, RoundStates DEF TypeOK, BranchStates, Verdict, Outcomes
<1>2. CASE Publish
  <2>1. branch' \in BranchStates
    BY <1>1, <1>2 DEF Publish, BranchStates
  <2>2. published' \in [head: Nat, work: Nat, base: Nat, judged: BOOLEAN]
    BY <1>2, <2>1 DEF Publish, BranchStates
  <2> QED
    BY <1>1, <1>2, <2>1, <2>2 DEF Publish, Goto, TypeOK, Places, BranchStates
<1>3. CASE PublishConflict
  <2>1. outcome' \in Outcomes /\ at' \in Places
    BY <1>3 DEF PublishConflict, Goto, Outcomes, Places
  <2> QED
    BY <1>1, <1>3, <2>1, Zenon DEF PublishConflict, TypeOK, branchVars
<1>4. CASE PublishNothing
  <2>1. outcome' \in Outcomes /\ at' \in Places
    BY <1>1, <1>4 DEF PublishNothing, Goto, Outcomes, Places
  <2> QED
    BY <1>1, <1>4, <2>1, Zenon DEF PublishNothing, TypeOK, branchVars
<1>5. CASE Finish
  <2>1. Flush(mine, declined) /\ mine \in Seq(Attempts)
        /\ declined \in [last: SUBSET Findings, since: SUBSET Findings, all: SUBSET Findings]
    BY <1>5 DEF Finish, TypeOK
  <2>2. /\ disk' \in Seq(Attempts) /\ through' \in Nat
        /\ declined' \in [last: SUBSET Findings, since: SUBSET Findings, all: SUBSET Findings]
        /\ judgement' \in [decision: Decisions, open: SUBSET Findings, remediable: SUBSET Findings,
                           keys: SUBSET Findings, verified: BOOLEAN, conceded: SUBSET Findings,
                           head: Nat, work: Nat]
    BY <2>1, FlushesAreTyped
  <2> QED
    BY <1>5, <2>2, Zenon DEF Finish, Goto, TypeOK, Places, branchVars
<1>6. CASE Return
  <2>1. FreshRun("run", 0)
    BY <1>6 DEF Return
  <2>2. answers' \in [finished: BOOLEAN, shipped: SUBSET Findings, handed: SUBSET Findings]
    BY <1>6 DEF Return, TypeOK
  <2> QED
    BY <1>6, <2>1, <2>2, FreshRunsAreTyped, Zenon DEF Return, Goto, TypeOK, Places, branchVars
<1>7. CASE Crash
  <2>1. FreshRun("run", 0) /\ branch' \in BranchStates
    BY <1>1, <1>7 DEF Crash, BranchStates
  <2> QED
    BY <1>7, <2>1, FreshRunsAreTyped DEF Crash, TypeOK, Places, BranchStates
<1> QED
  BY <1>2, <1>3, <1>4, <1>5, <1>6, <1>7

LEMMA TypeBetween ==
  ASSUME TypeOK, BaseMoves \/ LimitPasses \/ BoundLowered \/ Answer \/ CommitByHand \/ UNCHANGED vars
  PROVE  TypeOK'
<1>1. CASE BaseMoves
  BY <1>1 DEF BaseMoves, TypeOK, runVars
<1>2. CASE LimitPasses
  BY <1>2, Zenon DEF LimitPasses, TypeOK, runVars, branchVars
<1>6. CASE BoundLowered
  BY <1>6, Zenon DEF BoundLowered, TypeOK, runVars, branchVars
<1>3. CASE Answer
  <2>1. ThePersons \subseteq Findings
    BY FindingsOfTheRecord
  <2>2. answers \in [finished: BOOLEAN, shipped: SUBSET Findings, handed: SUBSET Findings]
    BY DEF TypeOK
  <2>3. answers' \in [finished: BOOLEAN, shipped: SUBSET Findings, handed: SUBSET Findings]
    BY <1>3, <2>1, <2>2 DEF Answer
  <2> QED
    BY <1>3, <2>3, Zenon DEF Answer, TypeOK, runVars, branchVars
<1>4. CASE CommitByHand
  <2>1. Fresh \in Nat /\ branch \in BranchStates
    BY FreshIsNew DEF TypeOK, BranchStates
  <2>2. branch' \in BranchStates
    BY <1>4, <2>1 DEF CommitByHand, BranchStates
  <2>3. commits' \in Nat
    <3>1. commits \in Nat
      BY DEF TypeOK
    <3> QED
      BY <1>4, <3>1 DEF CommitByHand
  <2> QED
    BY <1>4, <2>2, <2>3, Zenon DEF CommitByHand, TypeOK, runVars, BranchStates
<1>5. CASE UNCHANGED vars
  BY <1>5 DEF vars, TypeOK
<1> QED
  BY <1>1, <1>2, <1>3, <1>4, <1>5, <1>6

(* What a step of Next is, by the kind of its action.                      *)
LEMMA StepKinds ==
  [Next]_vars =>
    \/ StartRun("run") \/ StartRun("resume") \/ StartRelevel \/ RelevelRefused \/ BeginRelevel \/ Begin
    \/ EnterConflict \/ EnterStuck \/ EnterExecutor \/ EnterLevel \/ EnterRelevelled \/ EnterRelevelReviewed
    \/ Attempting \/ Judging \/ WaitOver
    \/ Publish \/ PublishConflict \/ PublishNothing \/ Finish \/ Return \/ Crash
    \/ BaseMoves \/ LimitPasses \/ BoundLowered \/ Answer \/ CommitByHand \/ UNCHANGED vars
BY DEF Next, RunSteps

LEMMA TypeStep == IInv /\ [Next]_vars => TypeOK'
BY StepKinds, TypeStarts, TypeEntries, TypeAttempts, TypeJudgements, TypeEnds, TypeBetween DEF IInv

-----------------------------------------------------------------------------
LEMMA BlankState ==
  /\ InitialRoundState(FALSE) = Blank
  /\ Blank.round = 0 /\ Blank.remediation = 0 /\ Blank.kind = "execute" /\ Blank.superseded = 0
  /\ Blank.continuing = FALSE
BY DEF InitialRoundState, Blank

LEMMA StartsFreshInit == Init => StartsFresh /\ RelevelsAPull
<1> SUFFICES ASSUME Init
             PROVE  StartsFresh /\ RelevelsAPull
  OBVIOUS
<1>1. at = "idle" /\ mine = <<>> /\ through = 0 /\ rounds = NoRounds /\ s = Blank /\ run.applied = 0
  BY BlankState DEF Init
<1> QED
  BY <1>1, BlankState DEF StartsFresh, RelevelsAPull

LEMMA StartsFreshStep == IInv /\ [Next]_vars => StartsFresh' /\ RelevelsAPull'
<1> SUFFICES ASSUME TypeOK, StartsFresh, RelevelsAPull, [Next]_vars
             PROVE  StartsFresh' /\ RelevelsAPull'
  BY DEF IInv
<1>1. s \in RoundState /\ run \in [how: {"run", "resume", "relevel", "deliver"}, number: Nat, owed: SUBSET Findings, applied: Nat]
  BY DEF TypeOK
<1>2. CASE StartRun("run") \/ StartRun("resume") \/ StartRelevel \/ RelevelRefused \/ Return \/ Crash
  <2>1. ASSUME NEW how, NEW n, FreshRun(how, n), at' = "idle" \/ how # "relevel" \/ published' # None
        PROVE  StartsFresh' /\ RelevelsAPull'
    BY <2>1, BlankState DEF FreshRun, StartsFresh, RelevelsAPull, NoRounds
  <2>2. \E n : \E how \in {"run", "resume", "relevel"} :
          FreshRun(how, n) /\ (at' = "idle" \/ how # "relevel" \/ published' # None)
    BY <1>2 DEF StartRun, StartRelevel, RelevelRefused, Return, Crash, Goto, branchVars
  <2> QED
    BY <2>1, <2>2
<1>3. CASE BeginRelevel
  BY <1>3 DEF BeginRelevel, Goto, StartsFresh, RelevelsAPull, Blank, NoRounds, runVars
<1>4. CASE Begin
  <2>1. mine' = <<>> /\ rounds' = NoRounds /\ run'.applied = 0 /\ published' = published /\ ~s.continuing
    BY <1>1, <1>4 DEF Begin, StartsFresh, Blank, branchVars
  <2>2. at' \in {"enter", "ended"} /\ (s'.continuing => at' = "enter" /\ run.how = "run")
    <3>1. CASE run.how = "run" /\ Deliverable
      BY <1>1, <1>4, <2>1, <3>1 DEF Begin, End, RoundState
    <3>2. CASE ~(run.how = "run" /\ Deliverable)
      <4>1. PICK c \in BOOLEAN : at' = "enter" /\ s' = InitialRoundState(c) /\ (c => run.how = "run")
        BY <1>4, <3>2 DEF Begin
      <4> QED
        BY <4>1, BlankState
    <3> QED
      BY <3>1, <3>2
  <2>3. run'.how # "relevel" /\ (run.how = "run" /\ at' = "enter" => run'.how = "run")
    BY <1>1, <1>4 DEF Begin, End
  <2> QED
    BY <2>1, <2>2, <2>3 DEF StartsFresh, RelevelsAPull, NoRounds
<1>5. CASE EnterConflict \/ EnterStuck \/ EnterExecutor
  <2>1. Confirmed.continuing = FALSE /\ Reenter(Confirmed).continuing = FALSE
    <3>1. Confirmed \in RoundState /\ Confirmed.continuing = FALSE
      BY <1>1, BlankState, RoundStates DEF Confirmed, RoundState
    <3> QED
      BY <3>1 DEF Reenter, RoundState
  <2>2. run'.how = run.how
    BY <1>1, <1>5 DEF EnterConflict, EnterStuck, EnterExecutor
  <2> QED
    BY <1>5, <2>1, <2>2 DEF EnterConflict, EnterStuck, EnterExecutor, Entering, End, StartsFresh,
      RelevelsAPull, branchVars
<1>6. CASE EnterLevel \/ EnterRelevelled \/ EnterRelevelReviewed
  BY <1>1, <1>6 DEF EnterLevel, EnterRelevelled, EnterRelevelReviewed, Entering, End, StartsFresh,
    RelevelsAPull, RoundState, branchVars
<1>7. CASE Attempting
  <2>1. at = "executing" /\ at' \notin {"idle", "starting"} /\ UNCHANGED <<run, published>>
    BY <1>7 DEF Attempting, ConfigurationPresent, TransportRetries, TransportParks, CeilingContinues,
      AttemptStops,
      AttemptChangesNothing, ConflictAfterSeal, ConflictStops, ResolutionLands, RoundCompletes, Completes, AttemptEnded, End
  <2>2. ~s'.continuing
    BY <1>1, <1>7, <2>1, Zenon DEF Attempting, ConfigurationPresent, TransportRetries, TransportParks,
      CeilingContinues, AttemptStops,
      AttemptChangesNothing, ConflictAfterSeal, ConflictStops, ResolutionLands, RoundCompletes, StartsFresh,
      RetryTransport, RetryCeiling, Advance, RoundState
  <2> QED
    BY <2>1, <2>2 DEF StartsFresh, RelevelsAPull
<1>8. CASE Judging \/ WaitOver
  <2>1. /\ at \notin {"idle", "starting", "enter"} /\ at' \notin {"idle", "starting"}
        /\ run'.how = run.how /\ UNCHANGED published
    BY <1>1, <1>8, Zenon DEF Judging, WaitOver, VerifyWidened, VerifyStops, VerifyAdvances, ReviewRefused,
      ReviewParks, ReviewAdvances,
      ReviewStops, Reviewing, ReviewRecorded, End, Goto, Judged, runVars, branchVars
  <2>2. ~s'.continuing
    BY <1>1, <1>8, <2>1, Zenon DEF Judging, WaitOver, VerifyWidened, VerifyStops, VerifyAdvances,
      ReviewRefused, ReviewParks, ReviewAdvances,
      ReviewStops, StartsFresh, Advance, RoundState, runVars
  <2> QED
    BY <2>1, <2>2 DEF StartsFresh, RelevelsAPull
<1>9. CASE Publish \/ PublishConflict \/ PublishNothing \/ Finish
  <2>1. /\ at' \in {"recording", "returned"} /\ (s' = Blank \/ (s' = s /\ at # "enter"))
    BY <1>9, BlankState DEF Publish, PublishConflict, PublishNothing, Finish, Goto, branchVars
  <2> QED
    BY <2>1, BlankState DEF StartsFresh, RelevelsAPull
<1>10. CASE BaseMoves \/ LimitPasses \/ BoundLowered \/ Answer \/ CommitByHand \/ UNCHANGED vars
  BY <1>10 DEF BaseMoves, LimitPasses, BoundLowered, Answer, CommitByHand, vars, runVars, branchVars, StartsFresh,
    RelevelsAPull, Blank, NoRounds
<1> QED
  BY <1>2, <1>3, <1>4, <1>5, <1>6, <1>7, <1>8, <1>9, <1>10, StepKinds

-----------------------------------------------------------------------------
LEMMA BlankRound == CapOf(Blank) /\ BriefOf(Blank)
BY BlankState, LoopAssumption DEF CapOf, BriefOf

(* What is confirmed at a round's entry is the state it had, or blank.     *)
LEMMA ConfirmedRound ==
  ASSUME TypeOK, StartsFresh
  PROVE  /\ Confirmed \in RoundState /\ Confirmed.continuing = FALSE
         /\ \/ Confirmed = [s EXCEPT !.continuing = FALSE]
            \/ Confirmed = Blank /\ s.continuing /\ mine = <<>> /\ rounds = NoRounds /\ run.applied = 0
BY RoundStates, BlankState DEF Confirmed, StartsFresh, TypeOK, RoundState

LEMMA ConfirmedWithin ==
  ASSUME TypeOK, StartsFresh, WithinCap, Briefed, at = "enter"
  PROVE  /\ CapOf(Confirmed) /\ BriefOf(Confirmed)
         /\ mine = <<>> => Confirmed.round <= Confirmed.remediation
<1>1. CASE Confirmed = Blank
  BY <1>1, BlankRound, BlankState
<1>2. CASE Confirmed = [s EXCEPT !.continuing = FALSE]
  <2>1. /\ Confirmed.round = s.round /\ Confirmed.remediation = s.remediation /\ Confirmed.kind = s.kind
        /\ Confirmed.open = s.open /\ Confirmed.conflict = s.conflict
    BY <1>2 DEF TypeOK, RoundState
  <2> QED
    BY <2>1 DEF WithinCap, CapOf, Briefed, BriefOf, Trying
<1> QED
  BY <1>1, <1>2, ConfirmedRound

(* A judged run made an attempt.                                           *)
LEMMA JudgedAfterAnAttempt ==
  ASSUME TypeOK, AttemptsAreNamedOnce, at \in {"verifying", "reviewing", "review_wait", "re_reviewing"}
  PROVE  mine # <<>>
<1>1. Len(mine) = rounds.named + s.superseded + 1 /\ s.superseded \in Nat
  BY DEF AttemptsAreNamedOnce, TypeOK, RoundState
<1>2. rounds.named \in Nat
  BY DEF TypeOK, Records
<1> QED
  BY <1>1, <1>2, EmptySeq

LEMMA RoundsStep == IInv /\ [Next]_vars => WithinCap' /\ Briefed'
<1> SUFFICES ASSUME TypeOK, StartsFresh, WithinCap, Briefed, AttemptsAreNamedOnce, [Next]_vars
             PROVE  WithinCap' /\ Briefed'
  BY DEF IInv
<1>1. s \in RoundState /\ MaxRounds \in Nat \ {0}
  BY LoopAssumption DEF TypeOK
<1>2. s.round \in Nat /\ s.remediation \in Nat
  BY <1>1 DEF RoundState
<1>3. ASSUME s' = Blank
      PROVE  WithinCap' /\ Briefed'
  BY <1>3, BlankRound, BlankState DEF WithinCap, Briefed
<1>4. ASSUME UNCHANGED s, mine' # <<>> \/ UNCHANGED mine, at' \notin Trying \/ at \in Trying
      PROVE  WithinCap' /\ Briefed'
  BY <1>4 DEF WithinCap, Briefed
<1>5. CASE StartRun("run") \/ StartRun("resume") \/ StartRelevel \/ RelevelRefused \/ Return \/ Crash
           \/ Publish \/ PublishConflict \/ PublishNothing
  <2>1. s' = Blank
    BY <1>5, BlankState DEF StartRun, StartRelevel, RelevelRefused, Return, Crash, FreshRun,
      Publish, PublishConflict, PublishNothing
  <2> QED
    BY <1>3, <2>1
<1>6. CASE BeginRelevel
  <2>1. s' = Blank
    BY <1>6 DEF BeginRelevel, Goto, StartsFresh, runVars
  <2> QED
    BY <1>3, <2>1
<1>7. CASE Begin
  <2>1. CASE run.how = "run" /\ Deliverable
    <3>1. at' = "ended" /\ s' = [s EXCEPT !.reviewed = TRUE] /\ mine' = mine
      BY <1>7, <2>1 DEF Begin, End
    <3>2. s'.round = s.round /\ s'.remediation = s.remediation /\ s'.kind = s.kind
      BY <1>1, <3>1 DEF RoundState
    <3> QED
      BY <3>1, <3>2 DEF WithinCap, CapOf, Briefed, Trying
  <2>2. CASE ~(run.how = "run" /\ Deliverable)
    <3>1. PICK c \in BOOLEAN : s' = InitialRoundState(c) /\ (c => ToContinue # {})
      BY <1>7, <2>2 DEF Begin
    <3>2. CASE c
      <4>1. /\ s'.round = 1 /\ s'.remediation = 1 /\ s'.kind = "remediate" /\ s'.open # {}
        BY <3>1, <3>2 DEF InitialRoundState
      <4> QED
        BY <1>1, <4>1 DEF WithinCap, CapOf, Briefed, BriefOf
    <3>3. CASE ~c
      BY <1>3, <3>1, <3>3, BlankState
    <3> QED
      BY <3>2, <3>3
  <2> QED
    BY <2>1, <2>2
<1>8. CASE EnterConflict
  <2>1. s' = Reenter(Confirmed) /\ at = "enter" /\ mine = <<>> /\ mine' = mine /\ Confirmed.kind # "resolve_conflict"
    BY <1>8 DEF EnterConflict, Entering, Levels
  <2>2. /\ Confirmed \in RoundState /\ CapOf(Confirmed) /\ BriefOf(Confirmed) /\ Confirmed.round <= Confirmed.remediation
    BY <2>1, ConfirmedRound, ConfirmedWithin
  <2>3. /\ s'.round = Confirmed.round /\ s'.remediation = Confirmed.remediation /\ s'.kind = "resolve_conflict"
        /\ s'.open = Confirmed.open /\ s'.conflict = [tip |-> base, before |-> TRUE, resume |-> Confirmed.kind]
        /\ Confirmed.kind \in Kinds /\ Confirmed.round \in Nat /\ Confirmed.remediation \in Nat /\ base \in Nat
    BY <2>1, <2>2 DEF Reenter, RoundState, TypeOK
  <2> QED
    BY <1>1, <2>1, <2>2, <2>3 DEF WithinCap, CapOf, Briefed, BriefOf, ConflictStates, Kinds
<1>9. CASE EnterStuck \/ EnterExecutor
  <2>1. s' = Confirmed /\ at = "enter" /\ mine' = mine
    BY <1>9 DEF EnterStuck, EnterExecutor, Entering
  <2> QED
    BY <2>1, ConfirmedWithin DEF WithinCap, Briefed
<1>10. CASE EnterLevel \/ EnterRelevelled \/ EnterRelevelReviewed
  <2>1. mine' = mine /\ at' \notin Trying
    BY <1>10 DEF EnterLevel, EnterRelevelled, EnterRelevelReviewed, End, Trying
  <2>2. s'.round = s.round /\ s'.remediation = s.remediation /\ s'.kind = s.kind
    BY <1>1, <1>10 DEF EnterLevel, EnterRelevelled, EnterRelevelReviewed, RoundState
  <2> QED
    BY <2>1, <2>2 DEF WithinCap, CapOf, Briefed
<1>11. CASE ConfigurationPresent
  BY <1>4, <1>11 DEF ConfigurationPresent, End, Trying
<1>12. CASE AttemptStops \/ AttemptChangesNothing \/ ConflictStops
  <2>1. UNCHANGED s /\ at' = "ended" /\ \E declines \in Declines : AddAttempt(declines)
    BY <1>12 DEF AttemptStops, AttemptChangesNothing, ConflictStops, Completes, End
  <2> QED
    BY <1>4, <2>1, AttemptIsAppended DEF AddAttempt, Trying
<1>13. CASE TransportRetries \/ TransportParks \/ CeilingContinues
  <2>1. mine' # <<>> /\ (s' = RetryTransport(s) \/ s' = RetryCeiling(s)) /\ at = "executing"
    <3>1. CASE TransportParks
      <4>1. limit'.named \in Nat
        BY <3>1, ResetsAreTyped DEF TransportParks
      <4> QED
        BY <3>1, <4>1, AttemptIsAppended DEF TransportParks
    <3>2. CASE TransportRetries \/ CeilingContinues
      BY <3>2, AttemptIsAppended DEF TransportRetries, CeilingContinues, AddAttempt
    <3> QED
      BY <1>13, <3>1, <3>2
  <2>2. /\ s'.round = s.round /\ s'.remediation = s.remediation /\ s'.kind = s.kind
        /\ s'.open = s.open /\ s'.conflict = s.conflict
    BY <2>1, RetriedState
  <2> QED
    BY <2>1, <2>2 DEF WithinCap, CapOf, Briefed, BriefOf, Trying
<1>14. CASE ConflictAfterSeal
  <2>1. mine' # <<>> /\ at = "executing" /\ s.kind # "resolve_conflict"
    BY <1>14, AttemptIsAppended DEF ConflictAfterSeal, Completes, AddAttempt
  <2>2. /\ s'.round = s.round + 1 /\ s'.remediation = s.remediation /\ s'.kind = "resolve_conflict"
        /\ s'.conflict = [tip |-> base, before |-> FALSE, resume |-> s.kind]
        /\ base \in Nat /\ s.kind \in Kinds
    <3>1. base \in Nat /\ s.kind \in Kinds
      BY DEF TypeOK, RoundState
    <3> QED
      BY <1>14, <3>1, NextRounds
  <2>3. s.round + 1 <= 2 * s.remediation + 2
    <3>1. s.kind \in {"execute", "remediate"}
      BY <1>1, <2>1 DEF RoundState, Kinds
    <3>2. CASE s.kind = "execute"
      <4>1. s.round <= 1 /\ s.remediation = 0
        BY <3>2 DEF WithinCap, CapOf
      <4> QED
        BY <1>2, <4>1
    <3>3. CASE s.kind = "remediate"
      <4>1. s.round <= 2 * s.remediation + 1
        BY <3>3 DEF WithinCap, CapOf
      <4> QED
        BY <1>2, <4>1
    <3> QED
      BY <3>1, <3>2, <3>3
  <2>4. WithinCap'
    BY <2>1, <2>2, <2>3 DEF WithinCap, CapOf
  <2> QED
    BY <2>2, <2>4 DEF Briefed, BriefOf, ConflictStates
<1>15. CASE ResolutionLands
  <2>1. mine' # <<>> /\ at = "executing" /\ s.kind = "resolve_conflict" /\ s.conflict.before
    BY <1>15, AttemptIsAppended DEF ResolutionLands, Completes, AddAttempt, BriefStillOwed
  <2>2. BriefOf(s)
    BY <2>1 DEF Briefed, Trying
  <2>3. s'.round = s.round + 1 /\ s'.remediation = s.remediation /\ s'.kind = s.conflict.resume /\ s'.open = s.open
    BY <1>15, NextRounds
  <2>4. CASE s.conflict.resume = "execute"
    <3>1. s.remediation = 0 /\ s.round = 0
      BY <1>2, <2>1, <2>2, <2>4 DEF BriefOf
    <3>2. s'.remediation = 0 /\ s'.round = 1 /\ s'.kind = "execute"
      BY <2>3, <2>4, <3>1
    <3> QED
      BY <1>1, <2>1, <3>2 DEF WithinCap, CapOf, Briefed, BriefOf
  <2>5. CASE s.conflict.resume = "remediate"
    <3>1. s.remediation >= 1 /\ s.open # {} /\ s.round <= s.remediation
      BY <2>1, <2>2, <2>5 DEF BriefOf
    <3>2. s.remediation <= MaxRounds
      BY DEF WithinCap, CapOf
    <3> QED
      BY <1>1, <1>2, <2>1, <2>3, <2>5, <3>1, <3>2 DEF WithinCap, CapOf, Briefed, BriefOf
  <2> QED
    BY <2>1, <2>2, <2>4, <2>5 DEF BriefOf
<1>16. CASE RoundCompletes
  <2>1. mine' # <<>> /\ at' \notin Trying
    BY <1>16, AttemptIsAppended DEF RoundCompletes, Completes, AddAttempt, Trying
  <2>2. s'.round = s.round /\ s'.remediation = s.remediation /\ s'.kind = s.kind
    BY <1>1, <1>16 DEF RoundCompletes, RoundState
  <2> QED
    BY <2>1, <2>2 DEF WithinCap, CapOf, Briefed
<1>17. CASE VerifyAdvances \/ ReviewAdvances
  <2>1. mine' # <<>> /\ s.remediation < MaxRounds
    BY <1>17, JudgedAfterAnAttempt, Zenon DEF VerifyAdvances, ReviewAdvances, Reviewing, ReviewRecorded,
      EarnsARound, Judged
  <2>2. /\ s'.round = s.round + 1 /\ s'.remediation = s.remediation + 1 /\ s'.kind = "remediate" /\ s'.open # {}
    BY <1>17, NextRounds
  <2> QED
    BY <1>1, <1>2, <2>1, <2>2 DEF WithinCap, CapOf, Briefed, BriefOf
<1>18. CASE VerifyWidened \/ VerifyStops \/ ReviewRefused
  BY <1>4, <1>18 DEF VerifyWidened, VerifyStops, ReviewRefused, End, Goto, Judged, runVars, Trying
<1>19. CASE ReviewParks
  <2>1. mine # <<>> /\ DOMAIN mine' = DOMAIN mine
    BY <1>19, JudgedAfterAnAttempt DEF ReviewParks, Goto
  <2>2. mine' # <<>>
    BY <2>1
  <2> QED
    BY <1>4, <1>19, <2>2 DEF ReviewParks, Goto, Trying
<1>20. CASE ReviewStops
  <2>1. mine' = mine /\ at' \notin Trying
    BY <1>20 DEF ReviewStops, ReviewRecorded, End, Trying
  <2>2. s'.round = s.round /\ s'.remediation = s.remediation /\ s'.kind = s.kind
    BY <1>1, <1>20 DEF ReviewStops, RoundState
  <2> QED
    BY <2>1, <2>2 DEF WithinCap, CapOf, Briefed
<1>21. CASE WaitOver \/ Finish
  BY <1>4, <1>21 DEF WaitOver, Finish, Goto, runVars, Trying
<1>22. CASE BaseMoves \/ LimitPasses \/ BoundLowered \/ Answer \/ CommitByHand \/ UNCHANGED vars
  <2>1. UNCHANGED <<at, s, mine>>
    BY <1>22 DEF BaseMoves, LimitPasses, BoundLowered, Answer, CommitByHand, vars, runVars
  <2> QED
    BY <1>4, <2>1
<1> QED
  BY <1>5, <1>6, <1>7, <1>8, <1>9, <1>10, <1>11, <1>12, <1>13, <1>14, <1>15, <1>16, <1>17, <1>18, <1>19,
    <1>20,
    <1>21, <1>22, StepKinds DEF Attempting, Judging

-----------------------------------------------------------------------------
LEMMA NamingStep == IInv /\ [Next]_vars => AttemptsAreNamedOnce'
<1> SUFFICES ASSUME TypeOK, StartsFresh, WithinCap, Briefed, AttemptsAreNamedOnce, [Next]_vars
             PROVE  AttemptsAreNamedOnce'
  BY DEF IInv
<1> DEFINE Open == {"enter", "executing", "waiting"}
           Over == {"verifying", "reviewing", "review_wait", "re_reviewing"}
<1>1. s \in RoundState /\ base \in Nat
  BY DEF TypeOK
<1>2. s.round \in Nat /\ s.superseded \in Nat /\ Len(mine) \in Nat /\ Len(<<>>) = 0
  BY <1>1, AttemptIsAppended, EmptySeq DEF RoundState
<1>3. rounds.named \in Nat /\ rounds.next \in Nat
  BY DEF TypeOK, Records
<1>4. ASSUME AddRound
      PROVE  rounds'.next = s.round + 1 /\ rounds'.named = rounds.named + s.superseded + 1
  BY <1>4 DEF AddRound
<1>5. ASSUME UNCHANGED <<s, rounds>>, Len(mine') = Len(mine), at' \notin Open \/ at \in Open,
             at' \notin Over \/ at \in Over, at' # "ended"
      PROVE  AttemptsAreNamedOnce'
  BY <1>5 DEF AttemptsAreNamedOnce
<1>6. CASE StartRun("run") \/ StartRun("resume") \/ StartRelevel \/ RelevelRefused \/ Return \/ Crash
           \/ Publish \/ PublishConflict \/ PublishNothing \/ Finish
  <2>1. at' \in {"idle", "starting", "recording", "returned"}
    BY <1>6 DEF StartRun, StartRelevel, RelevelRefused, Return, Crash, Publish, PublishConflict,
      PublishNothing, Finish, Goto
  <2> QED
    BY <2>1 DEF AttemptsAreNamedOnce
<1>7. CASE BeginRelevel
  <2>1. at' = "enter" /\ at = "starting" /\ UNCHANGED <<s, mine, rounds>>
    BY <1>7 DEF BeginRelevel, Goto, runVars
  <2>2. s.superseded = 0 /\ mine = <<>> /\ rounds.next = 0 /\ rounds.named = 0
    BY <2>1, BlankState DEF StartsFresh, NoRounds
  <2> QED
    BY <1>2, <2>1, <2>2 DEF AttemptsAreNamedOnce
<1>8. CASE Begin
  <2>1. mine' = <<>> /\ rounds' = rounds /\ rounds.next = 0 /\ rounds.named = 0
    BY <1>8 DEF Begin, StartsFresh, NoRounds
  <2>2. \/ at' = "ended"
        \/ at' = "enter" /\ s'.superseded = 0 /\ s'.round \in Nat
    BY <1>8 DEF Begin, End, InitialRoundState
  <2> QED
    BY <1>2, <2>1, <2>2 DEF AttemptsAreNamedOnce
<1>9. CASE EnterConflict \/ EnterStuck \/ EnterExecutor
  <2>1. at = "enter" /\ UNCHANGED <<mine, rounds>> /\ (s' = Confirmed \/ s' = Reenter(Confirmed))
    BY <1>9 DEF EnterConflict, EnterStuck, EnterExecutor, Entering
  <2>2. Confirmed.round >= rounds.next /\ Len(mine) = rounds.named + Confirmed.superseded
    <3>1. CASE Confirmed = [s EXCEPT !.continuing = FALSE]
      <4>1. Confirmed.round = s.round /\ Confirmed.superseded = s.superseded
        BY <1>1, <3>1 DEF RoundState
      <4> QED
        BY <2>1, <4>1 DEF AttemptsAreNamedOnce
    <3>2. CASE Confirmed = Blank /\ mine = <<>> /\ rounds = NoRounds
      BY <1>2, <3>2, BlankState DEF NoRounds
    <3> QED
      BY <3>1, <3>2, ConfirmedRound
  <2>3. s'.round = Confirmed.round /\ s'.superseded = Confirmed.superseded
    BY <2>1, ConfirmedRound DEF Reenter, RoundState
  <2>4. CASE at' = "ended"
    <3>1. CASE EnterStuck
      <4>1. mine = <<>> /\ rounds'.named = rounds.named /\ s.superseded \in Nat /\ Confirmed.superseded \in Nat
        BY <1>2, <2>1, <3>1, ConfirmedRound DEF EnterStuck, Levels, RoundState
      <4> QED
        BY <1>2, <1>3, <2>1, <2>2, <2>4, <4>1 DEF AttemptsAreNamedOnce
    <3>2. CASE EnterExecutor
      <4>1. BriefOf(Confirmed)
        BY <2>1, ConfirmedWithin
      <4>2. s'.kind = "remediate" => s'.open # {}
        BY <3>2, <4>1 DEF EnterExecutor, BriefOf
      <4>3. at' = "executing"
        BY <3>2, <4>2 DEF EnterExecutor
      <4> QED
        BY <2>4, <4>3
    <3>3. CASE EnterConflict
      BY <2>1, <2>4, <3>3 DEF EnterConflict
    <3> QED
      BY <1>9, <3>1, <3>2, <3>3
  <2>5. CASE at' \in Open
    BY <2>1, <2>2, <2>3, <2>5 DEF AttemptsAreNamedOnce
  <2>6. at' \in Open \/ at' = "ended"
    BY <1>9, <2>1 DEF EnterConflict, EnterStuck, EnterExecutor, End
  <2> QED
    BY <2>4, <2>5, <2>6
<1>10. CASE EnterLevel \/ EnterRelevelled \/ EnterRelevelReviewed
  <2>1. at = "enter" /\ mine = <<>> /\ UNCHANGED <<mine, rounds>> /\ at' = "ended"
    BY <1>10 DEF EnterLevel, EnterRelevelled, EnterRelevelReviewed, Entering, Levels, End
  <2>2. Len(mine') = rounds'.named
    BY <1>2, <1>3, <2>1 DEF AttemptsAreNamedOnce
  <2> QED
    BY <2>1, <2>2 DEF AttemptsAreNamedOnce
<1>11. CASE ConfigurationPresent
  BY <1>11 DEF ConfigurationPresent, End, AttemptsAreNamedOnce
<1>12. CASE AttemptStops \/ AttemptChangesNothing \/ ConflictStops
  <2>1. at = "executing" /\ at' = "ended" /\ AddRound /\ mine' = Attempted(0)
    BY <1>12 DEF AttemptStops, AttemptChangesNothing, ConflictStops, Completes, AddAttempt, End
  <2>2. Len(mine') = Len(mine) + 1
    BY <2>1, AttemptIsAppended
  <2> QED
    BY <1>2, <1>3, <1>4, <2>1, <2>2 DEF AttemptsAreNamedOnce
<1>13. CASE TransportRetries \/ TransportParks \/ CeilingContinues
  <2>1. /\ at = "executing" /\ at' \in Open /\ (s' = RetryTransport(s) \/ s' = RetryCeiling(s)) /\ rounds' = rounds
        /\ \E w \in Nat : mine' = Attempted(w)
    <3>1. 0 \in Nat /\ (TransportParks => limit'.named \in Nat)
      BY ResetsAreTyped DEF TransportParks
    <3> QED
      BY <1>13, <3>1 DEF TransportRetries, TransportParks, CeilingContinues, AddAttempt
  <2>2. Len(mine') = Len(mine) + 1 /\ s'.round = s.round /\ s'.superseded = s.superseded + 1
    BY <2>1, AttemptIsAppended, RetriedState
  <2> QED
    BY <1>2, <1>3, <2>1, <2>2 DEF AttemptsAreNamedOnce
<1>14. CASE ConflictAfterSeal \/ ResolutionLands
  <2>1. at = "executing" /\ at' = "enter" /\ AddRound /\ mine' = Attempted(0)
    BY <1>14 DEF ConflictAfterSeal, ResolutionLands, Completes, AddAttempt
  <2>2. Len(mine') = Len(mine) + 1 /\ s'.round = s.round + 1 /\ s'.superseded = 0
    BY <1>14, <2>1, AttemptIsAppended, NextRounds
  <2> QED
    BY <1>2, <1>3, <1>4, <2>1, <2>2 DEF AttemptsAreNamedOnce
<1>15. CASE RoundCompletes
  <2>1. at = "executing" /\ at' \in Over /\ rounds' = rounds /\ mine' = Attempted(0)
    BY <1>15 DEF RoundCompletes, Completes, AddAttempt
  <2>2. Len(mine') = Len(mine) + 1 /\ s'.round = s.round /\ s'.superseded = s.superseded
    BY <1>1, <1>15, <2>1, AttemptIsAppended DEF RoundCompletes, RoundState
  <2> QED
    BY <1>2, <1>3, <2>1, <2>2 DEF AttemptsAreNamedOnce
<1>16. CASE VerifyAdvances \/ ReviewAdvances
  <2>1. at \in Over /\ at' = "enter" /\ AddRound /\ mine' = mine
    BY <1>16, Zenon DEF VerifyAdvances, ReviewAdvances, ReviewRecorded, Reviewing, Judged
  <2>2. s'.round = s.round + 1 /\ s'.superseded = 0
    BY <1>16, NextRounds
  <2> QED
    BY <1>2, <1>3, <1>4, <2>1, <2>2 DEF AttemptsAreNamedOnce
<1>17. CASE VerifyWidened \/ VerifyStops \/ ReviewStops
  <2>1. at \in Over /\ at' = "ended" /\ AddRound /\ mine' = mine
    BY <1>17 DEF VerifyWidened, VerifyStops, ReviewStops, ReviewRecorded, Reviewing, End, Judged
  <2> QED
    BY <1>2, <1>3, <1>4, <2>1 DEF AttemptsAreNamedOnce
<1>18. CASE ReviewRefused \/ WaitOver
  BY <1>5, <1>18 DEF ReviewRefused, WaitOver, Goto, runVars
<1>19. CASE ReviewParks
  <2>1. at' = "review_wait" /\ at = "reviewing" /\ UNCHANGED <<s, rounds>> /\ Len(mine) \in 1..Len(mine)
        /\ mine' = [mine EXCEPT ![Len(mine)] = [@ EXCEPT !.wait = limit'.named]]
    <3>1. Len(mine) > through /\ through \in Nat /\ mine \in Seq(Attempts)
      BY <1>19 DEF ReviewParks, TypeOK
    <3>2. Len(mine) \in 1..Len(mine)
      BY <3>1, LenProperties
    <3> QED
      BY <1>19, <3>2 DEF ReviewParks, Goto
  <2>2. mine \in Seq(Attempts) /\ mine' \in Seq(Attempts) /\ DOMAIN mine' = DOMAIN mine
    BY <1>19, <2>1, TypeStep, TypeJudgements DEF Judging, TypeOK
  <2>3. Len(mine') = Len(mine)
    BY <2>2, LenProperties
  <2> QED
    BY <1>5, <2>1, <2>3
<1>20. CASE BaseMoves \/ LimitPasses \/ BoundLowered \/ Answer \/ CommitByHand \/ UNCHANGED vars
  <2>1. UNCHANGED <<at, s, mine, rounds, outcome>>
    BY <1>20 DEF BaseMoves, LimitPasses, BoundLowered, Answer, CommitByHand, vars, runVars
  <2> QED
    BY <2>1 DEF AttemptsAreNamedOnce
<1> QED
  BY <1>6, <1>7, <1>8, <1>9, <1>10, <1>11, <1>12, <1>13, <1>14, <1>15, <1>16, <1>17, <1>18, <1>19, <1>20,
    StepKinds DEF Attempting, Judging

-----------------------------------------------------------------------------
LEMMA DiffStep == IInv /\ [Next]_vars => DiffIsApplied'
<1> SUFFICES ASSUME TypeOK, StartsFresh, DiffIsApplied, AttemptsAreNamedOnce, Written, [Next]_vars
             PROVE  DiffIsApplied'
  BY DEF IInv
<1> DEFINE Asks(st) == st.kind = "execute" /\ st.round = st.executeRound /\ st.transport = 0 /\ st.ceiling = 0
           Held(st) == st.kind = "resolve_conflict" /\ st.conflict.before
<1>1. s \in RoundState /\ run.applied \in Nat
  BY DEF TypeOK
<1>2. ASSUME UNCHANGED <<s, run>>, at' = at \/ at' \notin Trying, UNCHANGED mine \/ at' # "enter"
      PROVE  DiffIsApplied'
  BY <1>2 DEF DiffIsApplied, RetainedDiffOnce, Trying
<1>3. ASSUME run'.applied = 0
      PROVE  DiffIsApplied'
  BY <1>3 DEF DiffIsApplied, RetainedDiffOnce
<1>4. CASE StartRun("run") \/ StartRun("resume") \/ StartRelevel \/ RelevelRefused \/ Return \/ Crash
  <2>1. \E how, n : FreshRun(how, n)
    BY <1>4 DEF StartRun, StartRelevel, RelevelRefused, Return, Crash
  <2> QED
    BY <1>3, <2>1 DEF FreshRun
<1>5. CASE BeginRelevel \/ Begin
  <2>1. at = "starting" /\ run'.applied = run.applied
    BY <1>5, Zenon DEF BeginRelevel, Begin, Goto, runVars, TypeOK
  <2> QED
    BY <1>3, <2>1 DEF StartsFresh
<1>6. CASE Publish \/ PublishConflict \/ PublishNothing \/ Finish
  BY <1>6 DEF Publish, PublishConflict, PublishNothing, Finish, Goto, DiffIsApplied, RetainedDiffOnce, Trying
<1>7. CASE EnterConflict
  <2>1. mine = <<>> /\ at = "enter" /\ run' = run
    BY <1>7 DEF EnterConflict, Entering, Levels
  <2> QED
    BY <1>3, <2>1 DEF DiffIsApplied
<1>8. CASE EnterExecutor
  <2>1. at = "enter" /\ s' = Confirmed /\ mine' = mine /\ at' \notin {"enter", "waiting"}
    BY <1>8 DEF EnterExecutor, Entering, End
  <2>2. run'.applied = run.applied \/ (run'.applied = run.applied + 1 /\ Asks(Confirmed))
    <3>1. CASE run' = run
      BY <3>1
    <3>2. CASE run' # run
      <4>1. /\ run' = [run EXCEPT !.applied = @ + IF AppliesDiff(Confirmed) THEN 1 ELSE 0,
                                 !.owed = IF Confirmed.reviewed THEN @ ELSE {}]
        BY <1>8, <2>1, <3>2 DEF EnterExecutor
      <4>2. run'.applied = run.applied + IF AppliesDiff(Confirmed) THEN 1 ELSE 0
        BY <4>1 DEF TypeOK
      <4> QED
        BY <1>1, <4>2 DEF AppliesDiff
    <3> QED
      BY <3>1, <3>2
  <2>3. CASE Confirmed = Blank /\ run.applied = 0
    BY <2>1, <2>2, <2>3, BlankState DEF DiffIsApplied, RetainedDiffOnce
  <2>4. CASE Confirmed = [s EXCEPT !.continuing = FALSE]
    <3>1. (Asks(Confirmed) <=> Asks(s)) /\ (Held(Confirmed) <=> Held(s)) /\ ~(Asks(s) /\ Held(s))
      BY <1>1, <2>4 DEF RoundState
    <3>2. (Asks(s) => run.applied = 0) /\ (Held(s) => run.applied = 0) /\ run.applied <= 1
      BY <2>1 DEF DiffIsApplied, RetainedDiffOnce, Trying
    <3>3. run'.applied <= 1 /\ (Held(s') => run'.applied = 0)
      BY <1>1, <2>1, <2>2, <3>1, <3>2
    <3> QED
      BY <2>1, <3>3 DEF DiffIsApplied, RetainedDiffOnce
  <2> QED
    BY <2>3, <2>4, ConfirmedRound
<1>9. CASE EnterStuck \/ EnterLevel \/ EnterRelevelled \/ EnterRelevelReviewed
  BY <1>9 DEF EnterStuck, EnterLevel, EnterRelevelled, EnterRelevelReviewed, End, DiffIsApplied,
    RetainedDiffOnce, Trying
<1>10. CASE ConfigurationPresent \/ AttemptStops \/ AttemptChangesNothing \/ ConflictStops \/ RoundCompletes
  BY <1>10 DEF ConfigurationPresent, AttemptStops, AttemptChangesNothing, ConflictStops, RoundCompletes,
    AttemptEnded, End, DiffIsApplied, RetainedDiffOnce, Trying
<1>11. CASE TransportRetries \/ TransportParks \/ CeilingContinues
  <2>1. at = "executing" /\ mine' # <<>> /\ run' = run /\ (s' = RetryTransport(s) \/ s' = RetryCeiling(s))
    <3>1. 0 \in Nat /\ (TransportParks => limit'.named \in Nat)
      BY ResetsAreTyped DEF TransportParks
    <3> QED
      BY <1>11, <3>1, AttemptIsAppended DEF TransportRetries, TransportParks, CeilingContinues, AddAttempt,
        AttemptEnded
  <2>2. ~Asks(s') /\ (Held(s') <=> Held(s))
    BY <2>1, RetriedState
  <2> QED
    BY <2>1, <2>2 DEF DiffIsApplied, RetainedDiffOnce, Trying
<1>12. CASE ConflictAfterSeal
  <2>1. at = "executing" /\ mine' # <<>> /\ run' = run /\ s'.kind = "resolve_conflict" /\ ~s'.conflict.before
    <3>1. s'.kind = "resolve_conflict" /\ ~s'.conflict.before
      BY <1>12, NextRounds
    <3> QED
      BY <1>12, <3>1, AttemptIsAppended DEF ConflictAfterSeal, Completes, AddAttempt, AttemptEnded
  <2> QED
    BY <2>1 DEF DiffIsApplied, RetainedDiffOnce
<1>13. CASE ResolutionLands
  <2>1. at = "executing" /\ run' = run /\ Held(s)
    BY <1>13 DEF ResolutionLands, Completes, AttemptEnded, BriefStillOwed
  <2> QED
    BY <1>3, <2>1 DEF DiffIsApplied, Trying
<1>14. CASE VerifyAdvances \/ ReviewAdvances
  <2>1. at' = "enter" /\ mine' # <<>> /\ run'.applied = run.applied /\ s'.kind = "remediate"
    <3>1. run'.applied = run.applied
      BY <1>1, <1>14, Zenon DEF VerifyAdvances, ReviewAdvances, ReviewRecorded, Judged, TypeOK
    <3> QED
      BY <1>14, <3>1, JudgedAfterAnAttempt, NextRounds, Zenon DEF VerifyAdvances, ReviewAdvances,
        ReviewRecorded, Reviewing, Judged
  <2> QED
    BY <2>1 DEF DiffIsApplied, RetainedDiffOnce
<1>15. CASE VerifyWidened \/ VerifyStops \/ ReviewStops \/ ReviewRefused \/ ReviewParks
  <2>1. at' \notin Trying /\ run'.applied = run.applied
    BY <1>15, Zenon DEF VerifyWidened, VerifyStops, ReviewStops, ReviewRefused, ReviewParks,
      ReviewRecorded, End, Goto,
      Judged, runVars, TypeOK, Trying
  <2> QED
    BY <2>1 DEF DiffIsApplied, RetainedDiffOnce, Trying
<1>16. CASE WaitOver
  <2>1. UNCHANGED <<s, run, mine>> /\ at \in {"waiting", "review_wait"}
        /\ ((at' = "enter" /\ at = "waiting") \/ at' = "re_reviewing")
    BY <1>16 DEF WaitOver, Goto, runVars
  <2>2. at = "waiting" => mine # <<>>
    BY DEF Written
  <2> QED
    BY <2>1, <2>2 DEF DiffIsApplied, RetainedDiffOnce, Trying
<1>17. CASE BaseMoves \/ LimitPasses \/ BoundLowered \/ Answer \/ CommitByHand \/ UNCHANGED vars
  BY <1>2, <1>17 DEF BaseMoves, LimitPasses, BoundLowered, Answer, CommitByHand, vars, runVars
<1> QED
  BY <1>4, <1>5, <1>6, <1>7, <1>8, <1>9, <1>10, <1>11, <1>12, <1>13, <1>14, <1>15, <1>16, <1>17,
    StepKinds DEF Attempting, Judging

-----------------------------------------------------------------------------
(* A flush of more than the mark leaves its last attempt last on record.   *)
LEMMA FlushWrites ==
  ASSUME TypeOK, NEW ledger \in Seq(Attempts), NEW d, Flush(ledger, d), through < Len(ledger)
  PROVE  disk' # <<>> /\ disk'[Len(disk')] = ledger[Len(ledger)] /\ through' = Len(ledger)
<1>1. disk' = disk \o Pending(ledger) /\ through' = Len(ledger) /\ through \in Nat
  BY DEF Flush, Write, TypeOK
<1>2. Len(disk) \in Nat /\ Len(ledger) \in Nat /\ Len(disk') = Len(disk) + (Len(ledger) - through)
  BY <1>1, PendingIsWritten
<1>3. disk'[Len(disk')] = ledger[through + (Len(disk') - Len(disk))]
  <2>1. \A i \in (Len(disk) + 1)..(Len(disk) + (Len(ledger) - through)) :
          disk'[i] = ledger[through + (i - Len(disk))]
    <3>1. through <= Len(ledger)
      BY <1>1, <1>2
    <3>2. \A i \in (Len(disk) + 1)..(Len(disk) + (Len(ledger) - through)) :
            (disk \o Pending(ledger))[i] = ledger[through + (i - Len(disk))]
      BY ONLY TypeOK, ledger \in Seq(Attempts), <3>1, PendingIsWritten
    <3> QED
      BY ONLY <1>1, <3>2
  <2>2. Len(disk') \in (Len(disk) + 1)..(Len(disk) + (Len(ledger) - through))
    BY <1>1, <1>2
  <2> QED
    BY <2>1, <2>2
<1>4. through + (Len(disk') - Len(disk)) = Len(ledger)
  BY <1>1, <1>2
<1>5. disk' # <<>>
  BY <1>1, <1>2, EmptySeq
<1> QED
  BY <1>1, <1>3, <1>4, <1>5

(* parkAfter puts the wait on the last attempt and leaves the rest.        *)
LEMMA ParkedLedger ==
  ASSUME TypeOK, ReviewParks
  PROVE  /\ mine' \in Seq(Attempts) /\ Len(mine') = Len(mine) /\ mine' # <<>> /\ DOMAIN mine' = DOMAIN mine
         /\ \A i \in DOMAIN mine : mine'[i].id = mine[i].id
         /\ mine'[Len(mine)].wait = limit'.named
<1>1. /\ mine \in Seq(Attempts) /\ Len(mine) \in Nat /\ through \in Nat /\ through < Len(mine)
      /\ DOMAIN mine = 1..Len(mine)
  BY LenProperties DEF ReviewParks, TypeOK
<1>2. mine' = [mine EXCEPT ![Len(mine)] = [mine[Len(mine)] EXCEPT !.wait = limit'.named]]
  BY DEF ReviewParks
<1>3. Len(mine) \in DOMAIN mine /\ \A i \in DOMAIN mine : mine[i] \in Attempts
  BY <1>1, ElementOfSeq
<1>4. mine' \in Seq(Attempts)
  BY TypeJudgements DEF Judging, TypeOK
<1>5. DOMAIN mine' = DOMAIN mine
  BY <1>2
<1>6. Len(mine') = Len(mine)
  BY <1>1, <1>4, <1>5, LenProperties
<1>7. ASSUME NEW i \in DOMAIN mine
      PROVE  mine'[i].id = mine[i].id /\ (i = Len(mine) => mine'[i].wait = limit'.named)
  BY <1>2, <1>3, <1>7 DEF Attempts
<1> QED
  BY <1>1, <1>3, <1>4, <1>5, <1>6, <1>7

LEMMA ParkedAttempt ==
  ASSUME TypeOK, TransportParks
  PROVE  limit'.named \in Nat /\ mine' = Attempted(limit'.named)
BY ResetsAreTyped DEF TransportParks

LEMMA WrittenStep == IInv /\ [Next]_vars => Written' /\ LimitIsOnRecord'
<1> SUFFICES ASSUME TypeOK, Written, LimitIsOnRecord, [Next]_vars
             PROVE  Written' /\ LimitIsOnRecord'
  BY DEF IInv
<1> DEFINE Asleep == {"waiting", "review_wait"}
           Safe == {"idle", "starting", "waiting", "review_wait"}
<1>1. Len(mine) \in Nat /\ through \in Nat /\ mine \in Seq(Attempts) /\ Len(<<>>) = 0
  BY AttemptIsAppended, EmptySeq DEF TypeOK
<1>2. InForce => at \in Safe
  BY DEF LimitIsOnRecord
<1>3. ASSUME through' <= Len(mine'), at' \notin Asleep \union {"returned", "reviewing"}
      PROVE  Written'
  BY <1>3 DEF Written, RecordedBeforeSleep
<1>4. ASSUME ~InForce' \/ (UNCHANGED <<limit, disk>> /\ at' \in Safe)
      PROVE  LimitIsOnRecord'
  BY <1>4 DEF LimitIsOnRecord, InForce
<1>5. CASE StartRun("run") \/ StartRun("resume") \/ StartRelevel \/ RelevelRefused \/ Return \/ Crash
  <2>1. \E how, n : FreshRun(how, n)
    BY <1>5 DEF StartRun, StartRelevel, RelevelRefused, Return, Crash
  <2>2. at' \in {"idle", "starting"} /\ UNCHANGED <<limit, disk>>
    BY <1>5 DEF StartRun, StartRelevel, RelevelRefused, Return, Crash, Goto
  <2> QED
    BY <1>1, <1>3, <1>4, <2>1, <2>2 DEF FreshRun
<1>6. CASE BeginRelevel \/ Begin
  <2>1. UNCHANGED <<mine, through, limit, disk>> /\ at' \in {"enter", "ended"} /\ ~ParkedOnRecord
    BY <1>6 DEF BeginRelevel, Begin, Goto, End, runVars
  <2>2. ~InForce'
    BY <2>1 DEF ParkedOnRecord, LimitIsOnRecord, InForce
  <2> QED
    BY <1>3, <1>4, <2>1, <2>2 DEF Written
<1>7. CASE \/ EnterConflict \/ EnterStuck \/ EnterExecutor \/ EnterLevel \/ EnterRelevelled \/ EnterRelevelReviewed
           \/ ConfigurationPresent \/ VerifyWidened \/ VerifyStops \/ VerifyAdvances \/ ReviewRefused
           \/ ReviewAdvances \/ ReviewStops \/ Publish \/ PublishConflict \/ PublishNothing
  <2>1. at \notin Safe /\ UNCHANGED <<mine, through, limit, disk>>
    BY <1>7, Zenon DEF EnterConflict, EnterStuck, EnterExecutor, EnterLevel, EnterRelevelled,
      EnterRelevelReviewed, Entering,
      ConfigurationPresent, VerifyWidened, VerifyStops, VerifyAdvances, ReviewRefused, ReviewAdvances, ReviewStops,
      ReviewRecorded, Reviewing, Judged, Publish, PublishConflict, PublishNothing, Goto, runVars
  <2>2. at' \notin Asleep \union {"returned", "reviewing"}
    BY <1>7, Zenon DEF EnterConflict, EnterStuck, EnterExecutor, EnterLevel, EnterRelevelled,
      EnterRelevelReviewed, Entering,
      ConfigurationPresent, VerifyWidened, VerifyStops, VerifyAdvances, ReviewRefused, ReviewAdvances, ReviewStops,
      Publish, PublishConflict, PublishNothing, Goto, End
  <2>3. ~InForce'
    BY <1>2, <2>1 DEF InForce
  <2>4. through' <= Len(mine')
    BY <2>1 DEF Written
  <2> QED
    BY <1>3, <1>4, <2>2, <2>3, <2>4, Zenon
<1>8. CASE TransportRetries \/ CeilingContinues \/ AttemptStops \/ AttemptChangesNothing
           \/ ConflictAfterSeal \/ ConflictStops \/ ResolutionLands
  <2>1. /\ at = "executing" /\ mine' = Attempted(0) /\ through' = through
        /\ at' \in {"enter", "ended"}
    BY <1>8 DEF TransportRetries, CeilingContinues, AttemptStops, AttemptChangesNothing, ConflictAfterSeal,
      ConflictStops, ResolutionLands, Completes, AddAttempt, End
  <2>2. InForce' = InForce
    BY <1>8 DEF InForce, TransportRetries, CeilingContinues, AttemptStops, AttemptChangesNothing, ConflictAfterSeal,
      ConflictStops, ResolutionLands, TypeOK
  <2>3. through' <= Len(mine')
    BY <1>1, <2>1, AttemptIsAppended DEF Written
  <2> QED
    BY <1>2, <1>3, <1>4, <2>1, <2>2, <2>3
<1>9. CASE RoundCompletes
  <2>1. at = "executing" /\ mine' = Attempted(0) /\ through' = through /\ limit' = limit /\ at' \in {"verifying", "reviewing"}
    BY <1>9 DEF RoundCompletes, Completes, AddAttempt
  <2>2. through' < Len(mine')
    BY <1>1, <2>1, AttemptIsAppended DEF Written
  <2>3. Written'
    BY <1>1, <2>1, <2>2, AttemptIsAppended DEF Written, RecordedBeforeSleep
  <2> QED
    BY <1>2, <1>4, <2>1, <2>3 DEF InForce
<1>10. CASE TransportParks
  <2>1. /\ mine' \in Seq(Attempts) /\ Len(mine') = Len(mine) + 1 /\ mine' # <<>>
        /\ mine'[Len(mine')].wait = limit'.named
    BY <1>10, ParkedAttempt, AttemptIsAppended
  <2>2. at' = "waiting" /\ \E d : Flush(mine', d)
    BY <1>10 DEF TransportParks
  <2>3. through < Len(mine')
    BY <1>1, <2>1 DEF Written
  <2>4. disk' # <<>> /\ disk'[Len(disk')] = mine'[Len(mine')] /\ through' = Len(mine')
    BY <2>1, <2>2, <2>3, FlushWrites
  <2>5. through' <= Len(mine')
    BY <1>1, <2>1, <2>4
  <2> QED
    BY <2>1, <2>2, <2>4, <2>5 DEF Written, RecordedBeforeSleep, LimitIsOnRecord
<1>11. CASE ReviewParks
  <2>1. at' = "review_wait" /\ Flush(mine', declined) /\ through < Len(mine)
    BY <1>11 DEF ReviewParks, Goto
  <2>2. disk' # <<>> /\ disk'[Len(disk')] = mine'[Len(mine')] /\ through' = Len(mine')
    BY <1>11, <2>1, ParkedLedger, FlushWrites
  <2>3. mine' # <<>> /\ mine'[Len(mine')].wait = limit'.named /\ through' <= Len(mine')
    BY <1>1, <1>11, <2>2, ParkedLedger
  <2> QED
    BY <2>1, <2>2, <2>3 DEF Written, RecordedBeforeSleep, LimitIsOnRecord
<1>12. CASE WaitOver
  <2>1. ~InForce' /\ UNCHANGED <<mine, through>> /\ at' \in {"enter", "re_reviewing"}
    BY <1>12 DEF WaitOver, Goto, runVars, InForce
  <2> QED
    BY <1>3, <1>4, <2>1 DEF Written
<1>13. CASE Finish
  <2>1. at = "recording" /\ at' = "returned" /\ mine' = mine /\ through' = Len(mine) /\ limit' = limit
    BY <1>13 DEF Finish, Goto, Flush
  <2> QED
    BY <1>1, <1>2, <1>4, <2>1 DEF Written, RecordedBeforeSleep, InForce
<1>14. CASE LimitPasses \/ BoundLowered
  <2>1. ~InForce' /\ limit'.named = limit.named /\ UNCHANGED <<at, mine, through, disk>>
    BY <1>14 DEF LimitPasses, BoundLowered, InForce, runVars, TypeOK
  <2> QED
    BY <1>4, <2>1 DEF Written, RecordedBeforeSleep
<1>15. CASE BaseMoves \/ Answer \/ CommitByHand \/ UNCHANGED vars
  <2>1. UNCHANGED <<at, limit, mine, through, disk>>
    BY <1>15 DEF BaseMoves, Answer, CommitByHand, vars, runVars
  <2> QED
    BY <2>1 DEF Written, RecordedBeforeSleep, LimitIsOnRecord, InForce
<1> QED
  BY <1>5, <1>6, <1>7, <1>8, <1>9, <1>10, <1>11, <1>12, <1>13, <1>14, <1>15, StepKinds DEF Attempting, Judging

-----------------------------------------------------------------------------
(* A branch either got a new head or is what it was.                       *)
MovesTo(b) ==
  \/ b.head = Fresh
  \/ b.head = branch.head /\ b.work = branch.work /\ b.judged = branch.judged

LEMMA BranchMoves ==
  ASSUME TypeOK
  PROVE  /\ \A b \in Sealed : MovesTo(b) /\ MovesTo(MergedUp(b))
         /\ MovesTo(Emptied) /\ Emptied.work = 0
         /\ MovesTo(MergedUp(branch))
         /\ \A b \in BranchStates : MergedUp(b).work = b.work /\ MergedUp(b).judged = b.judged
<1>1. branch \in BranchStates
  BY DEF TypeOK, BranchStates
<1>2. ASSUME NEW b \in Sealed
      PROVE  MovesTo(b)
  BY <1>1, <1>2, Zenon DEF Sealed, OwnWork, MovesTo, BranchStates
<1>3. ASSUME NEW b \in BranchStates
      PROVE  /\ MergedUp(b).work = b.work /\ MergedUp(b).judged = b.judged
             /\ MergedUp(b).head = Fresh \/ MergedUp(b) = b
  BY <1>3 DEF MergedUp, BranchStates
<1>4. ASSUME NEW b \in BranchStates, MovesTo(b)
      PROVE  MovesTo(MergedUp(b))
  BY <1>3, <1>4 DEF MovesTo
<1>5. MovesTo(branch) /\ MovesTo(Emptied) /\ Emptied.work = 0
  BY <1>1 DEF MovesTo, Emptied, BranchStates
<1> QED
  BY <1>1, <1>2, <1>3, <1>4, <1>5, BranchesStay

(* Writing attempts changes what is conceded on the record, and nothing    *)
(* else of the judgement.                                                  *)
LEMMA FlushKeepsTheJudgement ==
  ASSUME TypeOK, NEW ledger, NEW d, Flush(ledger, d)
  PROVE  judgement'.head = judgement.head /\ judgement'.work = judgement.work /\ judgement'.decision = judgement.decision
BY DEF TypeOK, Flush, Write

(* A step that judges nothing and publishes nothing.                       *)
LEMMA UnjudgedStep ==
  ASSUME TypeOK, HeadsCarryTheirWork, SeenByAReview, MovesTo(branch'), UNCHANGED published,
         judgement'.head = judgement.head /\ judgement'.work = judgement.work /\ judgement'.decision = judgement.decision
  PROVE  /\ HeadsCarryTheirWork'
         /\ published' # None => Seen(published')
         /\ judgement'.decision # "none" /\ branch'.head = judgement'.head => Seen(branch')
<1>1. Fresh # branch.head /\ Fresh # judgement.head /\ (published # None => Fresh # published.head)
  BY FreshIsNew DEF Named
<1>2. CASE branch'.head = Fresh
  BY <1>1, <1>2 DEF HeadsCarryTheirWork, SeenByAReview, SameWork, Seen
<1>3. CASE branch'.head = branch.head /\ branch'.work = branch.work /\ branch'.judged = branch.judged
  BY <1>3 DEF HeadsCarryTheirWork, SeenByAReview, SameWork, Seen
<1> QED
  BY <1>2, <1>3 DEF MovesTo

(* A step that judges the branch as it stands, or puts it back where the   *)
(* last judgement is.                                                      *)
LEMMA JudgedStep ==
  ASSUME TypeOK, HeadsCarryTheirWork, SeenByAReview, UNCHANGED published, branch'.judged,
         \/ branch'.head = branch.head /\ branch'.work = branch.work
            /\ judgement'.head = branch.head /\ judgement'.work = branch.work
         \/ branch'.head = Fresh /\ judgement'.head = Fresh /\ judgement'.work = branch'.work
         \/ branch'.head = judgement.head /\ branch'.work = judgement.work
            /\ judgement'.head = judgement.head /\ judgement'.work = judgement.work
  PROVE  /\ HeadsCarryTheirWork'
         /\ published' # None => Seen(published')
         /\ Seen(branch')
<1>1. published # None => Fresh # published.head
  BY FreshIsNew DEF Named
<1> QED
  BY <1>1 DEF HeadsCarryTheirWork, SeenByAReview, SameWork, Seen

JudgementKept ==
  judgement'.head = judgement.head /\ judgement'.work = judgement.work /\ judgement'.decision = judgement.decision

(* The parts of the two invariants that name a place of the run.           *)
Placed ==
  /\ at = "enter" /\ run.how = "relevel" /\ mine = <<>> => Seen(branch)
  /\ at = "ended" /\ outcome \in {"approved", "escalated", "relevelled"} => Seen(branch)
  /\ ContinuesTheRecord

LEMMA FindingsStep ==
  IInv /\ [Next]_vars => HeadsCarryTheirWork' /\ ContinuesTheRecord' /\ SeenByAReview'
<1> SUFFICES ASSUME TypeOK, RelevelsAPull, StartsFresh, WithinCap, Briefed, AttemptsAreNamedOnce, Written,
                    HeadsCarryTheirWork, ContinuesTheRecord, SeenByAReview, [Next]_vars
             PROVE  HeadsCarryTheirWork' /\ ContinuesTheRecord' /\ SeenByAReview'
  BY DEF IInv
<1>1. branch \in BranchStates /\ MovesTo(branch) /\ s \in RoundState
  BY DEF TypeOK, BranchStates, MovesTo
<1>2. ASSUME MovesTo(branch'), UNCHANGED published, JudgementKept, Placed'
      PROVE  HeadsCarryTheirWork' /\ ContinuesTheRecord' /\ SeenByAReview'
  BY <1>2, UnjudgedStep DEF JudgementKept, Placed, SeenByAReview
<1>3. ASSUME HeadsCarryTheirWork', published' # None => Seen(published'), Seen(branch'), ContinuesTheRecord'
      PROVE  HeadsCarryTheirWork' /\ ContinuesTheRecord' /\ SeenByAReview'
  BY <1>3 DEF SeenByAReview
<1>4. ASSUME at' \notin {"enter", "executing"} \/ (mine' # <<>>),
             at' # "ended" \/ outcome' \notin {"approved", "escalated", "relevelled"} \/ Seen(branch')
      PROVE  Placed'
  BY <1>4 DEF Placed, ContinuesTheRecord, FindingsAreOfTheBranch
<1>5. CASE StartRun("run") \/ StartRun("resume") \/ StartRelevel \/ RelevelRefused \/ Return
           \/ PublishConflict \/ PublishNothing
  <2>1. at' \in {"idle", "starting", "recording"} /\ UNCHANGED <<branch, published, judgement>>
    BY <1>5 DEF StartRun, StartRelevel, RelevelRefused, Return, PublishConflict, PublishNothing, Goto,
      branchVars
  <2> QED
    BY <1>1, <1>2, <1>4, <2>1 DEF MovesTo, JudgementKept
<1>6. CASE Crash
  <2>1. at' = "idle" /\ UNCHANGED <<published, judgement>> /\ MovesTo(branch')
    BY <1>1, <1>6 DEF Crash, MovesTo, BranchStates
  <2> QED
    BY <1>2, <1>4, <2>1 DEF JudgementKept
<1>7. CASE BeginRelevel
  <2>1. published # None
    BY <1>7 DEF BeginRelevel, Goto, RelevelsAPull
  <2>2. /\ branch'.head = published.head /\ branch'.work = published.work /\ branch'.judged = published.judged
        /\ UNCHANGED <<published, judgement, s>> /\ at' = "enter" /\ at = "starting"
    BY <1>1, <1>7 DEF BeginRelevel, Goto, runVars, BranchStates
  <2>3. s'.kind = "execute"
    BY <2>2, BlankState DEF StartsFresh
  <2> QED
    BY <1>3, <2>1, <2>2, <2>3 DEF HeadsCarryTheirWork, SameWork, SeenByAReview, Seen, ContinuesTheRecord,
      FindingsAreOfTheBranch
<1>8. CASE Begin
  <2>1. UNCHANGED <<branch, published, judgement>>
    BY <1>8 DEF Begin, branchVars
  <2>2. CASE run.how = "run" /\ Deliverable
    <3>1. Seen(branch) /\ at' = "ended"
      BY <1>8, <2>2 DEF Begin, End, Deliverable, Decidable, SeenByAReview
    <3> QED
      BY <1>1, <1>2, <1>4, <2>1, <3>1 DEF MovesTo, JudgementKept, Seen
  <2>3. CASE ~(run.how = "run" /\ Deliverable)
    <3>1. PICK c \in BOOLEAN : at' = "enter" /\ s' = InitialRoundState(c) /\ (c => run.how = "run")
      BY <1>8, <2>3 DEF Begin
    <3>2. s'.kind = "remediate" => s'.continuing
      BY <3>1, BlankState DEF InitialRoundState
    <3>3. run'.how # "relevel"
      BY <1>8, <2>3, Zenon DEF Begin, TypeOK
    <3>4. Placed'
      BY <3>1, <3>2, <3>3 DEF Placed, ContinuesTheRecord, FindingsAreOfTheBranch
    <3> QED
      BY <1>1, <1>2, <2>1, <3>4 DEF MovesTo, JudgementKept
  <2> QED
    BY <2>2, <2>3
<1>9. CASE EnterConflict
  <2>1. at = "enter" /\ at' = "enter" /\ UNCHANGED <<branch, published, judgement, run, mine>> /\ s' = Reenter(Confirmed)
    BY <1>9 DEF EnterConflict, Entering, branchVars
  <2>2. s'.kind = "resolve_conflict"
    BY <2>1, ConfirmedRound DEF Reenter, RoundState
  <2>3. Placed'
    BY <2>1, <2>2 DEF Placed, SeenByAReview, ContinuesTheRecord, FindingsAreOfTheBranch, Seen
  <2> QED
    BY <1>1, <1>2, <2>1, <2>3 DEF MovesTo, JudgementKept
<1>10. CASE EnterStuck \/ EnterLevel
  <2>1. at' = "ended" /\ outcome' \in {"base_conflict", "level"} /\ UNCHANGED <<branch, published, judgement>>
    BY <1>10 DEF EnterStuck, EnterLevel, End, branchVars
  <2> QED
    BY <1>1, <1>2, <1>4, <2>1 DEF MovesTo, JudgementKept
<1>11. CASE EnterExecutor
  <2>1. /\ at = "enter" /\ s' = Confirmed /\ UNCHANGED <<published, judgement, mine>>
        /\ MovesTo(branch') /\ branch'.work = branch.work
    BY <1>1, <1>11, BranchMoves DEF EnterExecutor, Entering
  <2>2. at' = "executing"
    <3>1. BriefOf(Confirmed)
      BY <2>1, ConfirmedWithin
    <3>2. s'.kind = "remediate" => s'.open # {}
      BY <2>1, <3>1 DEF BriefOf
    <3> QED
      BY <1>11, <3>2 DEF EnterExecutor
  <2>3. ASSUME s'.kind = "remediate", mine = <<>>
        PROVE  branch'.work = judgement'.work
    <3>1. Confirmed # Blank
      BY <2>1, <2>3, BlankState
    <3>2. s.kind = "remediate"
      BY <1>1, <2>1, <2>3, <3>1, ConfirmedRound DEF RoundState
    <3>3. s.continuing
      BY <2>1, <2>3, <3>2 DEF ContinuesTheRecord
    <3>4. branch.head = judgement.head
      BY <3>1, <3>3, BlankState DEF Confirmed
    <3> QED
      BY <2>1, <3>4 DEF HeadsCarryTheirWork, SameWork
  <2>4. Placed'
    BY <2>1, <2>2, <2>3 DEF Placed, ContinuesTheRecord, FindingsAreOfTheBranch
  <2> QED
    BY <1>2, <2>1, <2>4 DEF JudgementKept
<1>12. CASE EnterRelevelled
  <2>1. /\ at = "enter" /\ at' = "ended" /\ run.how = "relevel" /\ mine = <<>>
        /\ branch' = MergedUp(branch) /\ UNCHANGED <<published, judgement>>
    BY <1>12 DEF EnterRelevelled, Entering, Levels, End
  <2>2. MovesTo(branch') /\ branch'.work = branch.work /\ branch'.judged = branch.judged
    BY <1>1, <2>1, BranchMoves
  <2>3. Seen(branch')
    BY <2>1, <2>2 DEF SeenByAReview, Seen
  <2> QED
    BY <1>2, <1>4, <2>1, <2>2, <2>3 DEF JudgementKept
<1>13. CASE EnterRelevelReviewed
  <2>1. /\ at' = "ended" /\ published' = published /\ branch' = [MergedUp(branch) EXCEPT !.judged = TRUE]
        /\ judgement'.head = branch'.head /\ judgement'.work = branch'.work
    BY <1>13 DEF EnterRelevelReviewed, End, RecordReview
  <2>2. \/ MergedUp(branch).head = Fresh
        \/ MergedUp(branch).head = branch.head /\ MergedUp(branch).work = branch.work
    <3>1. MovesTo(MergedUp(branch))
      BY BranchMoves
    <3> QED
      BY <3>1 DEF MovesTo
  <2>3. branch'.judged /\ branch'.head = MergedUp(branch).head /\ branch'.work = MergedUp(branch).work
    BY <1>1, <2>1, BranchesStay DEF BranchStates
  <2> QED
    BY <1>3, <2>1, <2>2, <2>3, JudgedStep DEF ContinuesTheRecord, FindingsAreOfTheBranch
<1>14. CASE ConfigurationPresent
  <2>1. at' = "ended" /\ outcome' = "terminated" /\ UNCHANGED <<branch, published, judgement>>
    BY <1>14 DEF ConfigurationPresent, End, AttemptEnded
  <2> QED
    BY <1>1, <1>2, <1>4, <2>1 DEF MovesTo, JudgementKept
<1>15. CASE TransportRetries \/ TransportParks \/ CeilingContinues \/ AttemptStops
  <2>1. MovesTo(branch')
    BY <1>15, BranchMoves, BranchesStay DEF TransportRetries, TransportParks, CeilingContinues, AttemptStops
  <2>2. published' = published /\ JudgementKept
    BY <1>15, FlushKeepsTheJudgement DEF TransportRetries, TransportParks, CeilingContinues, AttemptStops,
      AttemptEnded, JudgementKept
  <2>3. mine' # <<>> /\ (at' # "ended" \/ outcome' = "terminated")
    BY <1>15, ParkedAttempt, AttemptIsAppended DEF TransportRetries, TransportParks, CeilingContinues,
      AttemptStops, AddAttempt, End
  <2> QED
    BY <1>2, <1>4, <2>1, <2>2, <2>3
<1>16. CASE AttemptChangesNothing
  <2>1. branch' = Emptied /\ at' = "ended" /\ UNCHANGED <<published, judgement>>
    BY <1>16 DEF AttemptChangesNothing, AttemptEnded, End
  <2>2. MovesTo(branch') /\ Seen(branch')
    BY <2>1, BranchMoves DEF Seen
  <2> QED
    BY <1>2, <1>4, <2>1, <2>2 DEF JudgementKept
<1>17. CASE ConflictAfterSeal \/ ConflictStops \/ ResolutionLands \/ RoundCompletes
  <2>1. MovesTo(branch') /\ mine' # <<>>
    BY <1>17, BranchMoves, AttemptIsAppended
      DEF ConflictAfterSeal, ConflictStops, ResolutionLands, RoundCompletes, Completes, AddAttempt
  <2>2. UNCHANGED <<published, judgement>> /\ (at' # "ended" \/ outcome' = "base_conflict")
    BY <1>17 DEF ConflictAfterSeal, ConflictStops, ResolutionLands, RoundCompletes, AttemptEnded, End
  <2> QED
    BY <1>2, <1>4, <2>1, <2>2 DEF JudgementKept
<1>18. CASE VerifyWidened
  <2>1. /\ at' = "ended" /\ outcome' = "changes_requested" /\ published' = published
        /\ branch' \in {Restored, branch} /\ JudgementKept
    BY <1>18 DEF VerifyWidened, End, Judged, TypeOK, JudgementKept
  <2>2. CASE branch' = Restored
    <3>1. branch'.judged /\ branch'.head = judgement.head /\ branch'.work = judgement.work
      BY <1>1, <2>2 DEF Restored, BranchStates
    <3> QED
      BY <1>3, <2>1, <3>1, JudgedStep DEF ContinuesTheRecord, FindingsAreOfTheBranch, JudgementKept
  <2>3. CASE branch' = branch
    BY <1>2, <1>4, <2>1, <2>3 DEF MovesTo
  <2> QED
    BY <2>1, <2>2, <2>3
<1>19. CASE VerifyStops \/ VerifyAdvances \/ ReviewAdvances \/ ReviewStops
  <2>1. /\ published' = published /\ branch' = [branch EXCEPT !.judged = TRUE]
        /\ judgement'.head = branch.head /\ judgement'.work = branch.work
    <3>1. CASE VerifyStops \/ VerifyAdvances
      <4>1. published' = published /\ \E closed : RecordVerification(ToVerify, closed)
        BY <3>1 DEF VerifyStops, VerifyAdvances, Judged
      <4> QED
        BY <4>1 DEF RecordVerification, TypeOK
    <3>2. CASE ReviewAdvances \/ ReviewStops
      <4>1. published' = published /\ branch' = [branch EXCEPT !.judged = TRUE] /\ \E v : RecordReview(v, branch)
        BY <3>2, Zenon DEF ReviewAdvances, ReviewStops, ReviewRecorded
      <4> QED
        BY <4>1 DEF RecordReview
    <3> QED
      BY <1>19, <3>1, <3>2
  <2>2. branch'.judged /\ branch'.head = branch.head /\ branch'.work = branch.work
    <3>1. branch \in BranchStates /\ branch' = [branch EXCEPT !.judged = TRUE]
      BY <1>1, <2>1, Zenon
    <3> QED
      BY ONLY <3>1 DEF BranchStates
  <2>3. mine' # <<>>
    BY <1>19, JudgedAfterAnAttempt, Zenon DEF VerifyStops, VerifyAdvances, ReviewAdvances, ReviewStops,
      ReviewRecorded, Reviewing, Judged
  <2> QED
    BY <1>3, <2>1, <2>2, <2>3, JudgedStep DEF ContinuesTheRecord, FindingsAreOfTheBranch
<1>20. CASE ReviewRefused \/ ReviewParks \/ Finish
  <2>1. UNCHANGED <<branch, published>> /\ JudgementKept
    BY <1>20, FlushKeepsTheJudgement DEF ReviewRefused, ReviewParks, Finish, branchVars, JudgementKept
  <2>2. at' \in {"re_reviewing", "review_wait", "returned"}
    BY <1>20 DEF ReviewRefused, ReviewParks, Finish, Goto
  <2> QED
    BY <1>1, <1>2, <1>4, <2>1, <2>2 DEF MovesTo
<1>21. CASE WaitOver
  <2>1. /\ at \in {"waiting", "review_wait"} /\ at' \in {"enter", "re_reviewing"}
        /\ UNCHANGED <<branch, published, judgement, mine>>
    BY <1>21 DEF WaitOver, Goto, runVars, branchVars
  <2>2. mine' # <<>>
    BY <2>1 DEF Written
  <2> QED
    BY <1>1, <1>2, <1>4, <2>1, <2>2 DEF MovesTo, JudgementKept
<1>22. CASE Publish
  <2>1. at = "ended" /\ at' = "recording" /\ judgement' = judgement /\ outcome \in {"approved", "escalated", "relevelled"}
    BY <1>22 DEF Publish, Publishable, Verdict, Goto
  <2>2. Seen(branch)
    BY <2>1 DEF SeenByAReview
  <2>3. branch' = [MergedUp(branch) EXCEPT !.foreign = FALSE] \/ branch' = [branch EXCEPT !.foreign = FALSE]
    BY <1>22 DEF Publish
  <2>4. branch'.work = branch.work /\ branch'.judged = branch.judged /\ (branch'.head = Fresh \/ branch'.head = branch.head)
    BY <1>1, <2>3, BranchMoves, BranchesStay DEF MovesTo, BranchStates
  <2>5. published'.head = branch'.head /\ published'.work = branch'.work /\ published'.judged = branch'.judged
    BY <1>22 DEF Publish
  <2>6. Fresh # judgement.head
    BY FreshIsNew DEF Named
  <2>7. SameWork(branch', judgement') /\ SameWork(branch', published') /\ SameWork(judgement', published')
    BY <2>1, <2>4, <2>5, <2>6 DEF HeadsCarryTheirWork, SameWork
  <2> QED
    BY <1>3, <2>1, <2>2, <2>4, <2>5, <2>7 DEF HeadsCarryTheirWork, SameWork, Seen, ContinuesTheRecord,
      FindingsAreOfTheBranch
<1>23. CASE CommitByHand
  <2>1. at' = at /\ at \in {"idle", "starting"} /\ UNCHANGED <<published, judgement>> /\ branch'.head = Fresh
    BY <1>1, <1>23 DEF CommitByHand, BranchStates
  <2> QED
    BY <1>2, <1>4, <2>1 DEF MovesTo, JudgementKept
<1>24. CASE BaseMoves \/ LimitPasses \/ BoundLowered \/ Answer \/ UNCHANGED vars
  <2>1. UNCHANGED <<at, s, run, mine, outcome, branch, published, judgement>>
    BY <1>24 DEF BaseMoves, LimitPasses, BoundLowered, Answer, vars, runVars, branchVars
  <2> QED
    BY <2>1 DEF HeadsCarryTheirWork, SameWork, SeenByAReview, Seen, ContinuesTheRecord, FindingsAreOfTheBranch
<1> QED
  BY <1>5, <1>6, <1>7, <1>8, <1>9, <1>10, <1>11, <1>12, <1>13, <1>14, <1>15, <1>16, <1>17, <1>18, <1>19,
    <1>20,
    <1>21, <1>22, <1>23, <1>24, StepKinds DEF Attempting, Judging

-----------------------------------------------------------------------------
(* The attempt added comes after the others of its run.                    *)
LEMMA AppendedIds ==
  ASSUME TypeOK, IdsOfTheRun, at = "executing", NEW w \in Nat, mine' = Attempted(w), run'.number = run.number
  PROVE  /\ \A i \in DOMAIN mine' : mine'[i].id.run = run'.number
         /\ \A i, j \in DOMAIN mine' : mine'[i].id = mine'[j].id => i = j
         /\ \A i \in DOMAIN mine' : mine'[i].id \in Ids /\ (mine'[i].id = Position \/ Before(mine'[i].id, Position))
         /\ \A i \in DOMAIN mine : i \in DOMAIN mine' /\ mine'[i].id = mine[i].id
<1>1. /\ Position \in Ids /\ Position.run = run.number /\ Len(mine) \in Nat /\ Len(mine') = Len(mine) + 1
      /\ mine' \in Seq(Attempts) /\ mine'[Len(mine) + 1].id = Position
      /\ \A i \in 1..Len(mine) : mine'[i] = mine[i]
  BY AttemptIsAppended DEF Position
<1>2. DOMAIN mine = 1..Len(mine) /\ DOMAIN mine' = 1..(Len(mine) + 1)
  BY <1>1, LenProperties DEF TypeOK
<1>3. ASSUME NEW i \in DOMAIN mine'
      PROVE  i = Len(mine) + 1 \/ (i \in DOMAIN mine /\ mine'[i].id = mine[i].id /\ Before(mine'[i].id, Position))
  BY <1>1, <1>2, <1>3 DEF IdsOfTheRun, Trying
<1>4. ASSUME NEW i \in DOMAIN mine'
      PROVE  mine'[i].id \in Ids /\ mine'[i].id.run = run'.number /\ (mine'[i].id = Position \/ Before(mine'[i].id, Position))
  <2>1. mine'[i] \in Attempts
    BY <1>1, <1>4, ElementOfSeq, <1>2, LenProperties
  <2>2. mine'[i].id \in Ids
    BY <2>1 DEF Attempts
  <2> QED
    BY <1>1, <1>3, <1>4, <2>2 DEF IdsOfTheRun
<1>5. ~Before(Position, Position)
  BY <1>1 DEF Before, Ids
<1>6. ASSUME NEW i \in DOMAIN mine', NEW j \in DOMAIN mine', mine'[i].id = mine'[j].id
      PROVE  i = j
  <2>1. CASE i = Len(mine) + 1 /\ j = Len(mine) + 1
    BY <2>1
  <2>2. CASE i = Len(mine) + 1 /\ j # Len(mine) + 1
    BY <1>1, <1>3, <1>5, <1>6, <2>2
  <2>3. CASE i # Len(mine) + 1 /\ j = Len(mine) + 1
    BY <1>1, <1>3, <1>5, <1>6, <2>3
  <2>4. CASE i # Len(mine) + 1 /\ j # Len(mine) + 1
    BY <1>3, <1>6, <2>4 DEF IdsOfTheRun
  <2> QED
    BY <2>1, <2>2, <2>3, <2>4
<1>7. \A i \in DOMAIN mine : i \in DOMAIN mine' /\ mine'[i].id = mine[i].id
  BY <1>1, <1>2
<1> QED
  BY <1>4, <1>6, <1>7

(* The next attempt of a round comes after those it has.                   *)
LEMMA PositionAdvances ==
  ASSUME TypeOK, NEW x \in Ids, x = Position \/ Before(x, Position), run'.number = run.number
  PROVE  /\ s' = RetryTransport(s) \/ s' = RetryCeiling(s) => Before(x, Position') /\ x.round <= s'.round
         /\ s'.round = s.round + 1 => Before(x, Position') /\ x.round <= s'.round
         /\ s'.round = s.round => x.round <= s'.round
<1>1. s \in RoundState /\ s.round \in Nat /\ s.ceiling \in Nat /\ s.transport \in Nat
  BY DEF TypeOK, RoundState
<1>2. Position.round = s.round /\ Position.ceiling = s.ceiling /\ Position.transport = s.transport
  BY DEF Position
<1>3. Position'.round = s'.round /\ Position'.ceiling = s'.ceiling /\ Position'.transport = s'.transport
  BY DEF Position
<1>4. x.round \in Nat /\ x.ceiling \in Nat /\ x.transport \in Nat /\ x.round <= s.round
  BY <1>1, <1>2 DEF Ids, Before
<1>5. CASE s' = RetryTransport(s)
  <2>1. s'.round = s.round /\ s'.ceiling = s.ceiling /\ s'.transport = s.transport + 1
    BY <1>1, <1>5 DEF RetryTransport, RoundState
  <2> QED
    BY <1>1, <1>2, <1>3, <1>4, <2>1 DEF Before
<1>6. CASE s' = RetryCeiling(s)
  <2>1. s'.round = s.round /\ s'.ceiling = s.ceiling + 1 /\ s'.transport = 0
    BY <1>1, <1>6 DEF RetryCeiling, RoundState
  <2> QED
    BY <1>1, <1>2, <1>3, <1>4, <2>1 DEF Before
<1>7. s'.round = s.round + 1 => Before(x, Position') /\ x.round <= s'.round
  BY <1>1, <1>3, <1>4 DEF Before
<1> QED
  BY <1>4, <1>5, <1>6, <1>7

(* What a flush makes of the record, whose ledger is this run's so far.    *)
LEMMA FlushedIds ==
  ASSUME TypeOK, IdsOnRecord, at # "idle", through <= Len(mine),
         NEW ledger \in Seq(Attempts), NEW d, Flush(ledger, d), Len(mine) <= Len(ledger),
         \A i \in DOMAIN mine : ledger[i].id = mine[i].id,
         \A i \in DOMAIN ledger : ledger[i].id.run = run.number,
         \A i, j \in DOMAIN ledger : ledger[i].id = ledger[j].id => i = j
  PROVE  /\ \A i, j \in DOMAIN disk' : disk'[i].id = disk'[j].id => i = j
         /\ \A i \in DOMAIN disk' : disk'[i].id.run = run.number => \E j \in 1..through' : disk'[i].id = ledger[j].id
         /\ disk' \in Seq(Attempts) /\ Len(disk') >= Len(disk)
         /\ \A i \in 1..Len(disk) : disk'[i] = disk[i]
<1>1. /\ disk' = disk \o Pending(ledger) /\ through' = Len(ledger) /\ through \in Nat
      /\ disk \in Seq(Attempts) /\ mine \in Seq(Attempts)
  BY DEF Flush, Write, TypeOK
<1>2. Len(disk) \in Nat /\ Len(ledger) \in Nat /\ Len(mine) \in Nat /\ through <= Len(ledger)
  BY <1>1, LenProperties
<1>3. /\ disk \o Pending(ledger) \in Seq(Attempts)
      /\ Len(disk \o Pending(ledger)) = Len(disk) + (Len(ledger) - through)
      /\ \A i \in 1..Len(disk) : (disk \o Pending(ledger))[i] = disk[i]
      /\ \A i \in (Len(disk) + 1)..(Len(disk) + (Len(ledger) - through)) :
           (disk \o Pending(ledger))[i] = ledger[through + (i - Len(disk))]
  BY ONLY TypeOK, ledger \in Seq(Attempts), <1>2, PendingIsWritten
<1>4. /\ disk' \in Seq(Attempts) /\ Len(disk') = Len(disk) + (Len(ledger) - through)
      /\ \A i \in 1..Len(disk) : disk'[i] = disk[i]
      /\ \A i \in (Len(disk) + 1)..(Len(disk) + (Len(ledger) - through)) : disk'[i] = ledger[through + (i - Len(disk))]
  BY ONLY <1>1, <1>3
<1>5. /\ DOMAIN disk = 1..Len(disk) /\ DOMAIN ledger = 1..Len(ledger) /\ DOMAIN mine = 1..Len(mine)
      /\ DOMAIN disk' = 1..(Len(disk) + (Len(ledger) - through))
  BY <1>1, <1>4, LenProperties
<1>6. ASSUME NEW i \in DOMAIN disk'
      PROVE  \/ i \in DOMAIN disk /\ disk'[i] = disk[i]
             \/ /\ i > Len(disk) /\ through + (i - Len(disk)) \in DOMAIN ledger
                /\ disk'[i] = ledger[through + (i - Len(disk))]
  <2>1. i \in 1..(Len(disk) + (Len(ledger) - through))
    BY <1>5, <1>6
  <2>2. CASE i \in 1..Len(disk)
    BY <1>4, <1>5, <2>2
  <2>3. CASE i \notin 1..Len(disk)
    <3>1. /\ i \in (Len(disk) + 1)..(Len(disk) + (Len(ledger) - through)) /\ i > Len(disk)
          /\ through + (i - Len(disk)) \in 1..Len(ledger)
      BY <1>1, <1>2, <2>1, <2>3
    <3> QED
      BY <1>4, <1>5, <3>1
  <2> QED
    BY <2>2, <2>3
<1>7. ASSUME NEW i \in DOMAIN disk, disk[i].id.run = run.number
      PROVE  \E j \in 1..through : disk[i].id = ledger[j].id
  <2>1. PICK j \in 1..through : disk[i].id = mine[j].id
    BY <1>7 DEF IdsOnRecord
  <2>2. j \in DOMAIN mine
    BY <1>1, <1>2, <1>5, <2>1
  <2> QED
    BY <2>1, <2>2
<1>8. ASSUME NEW i \in DOMAIN disk, NEW j \in DOMAIN ledger, j > through
      PROVE  disk[i].id # ledger[j].id
  <2> SUFFICES ASSUME disk[i].id = ledger[j].id
               PROVE  FALSE
    OBVIOUS
  <2>1. PICK k \in 1..through : disk[i].id = ledger[k].id
    BY <1>7, <1>8
  <2>2. k \in DOMAIN ledger /\ k # j
    BY <1>1, <1>2, <1>5, <1>8, <2>1
  <2> QED
    BY <1>8, <2>1, <2>2
<1>9. ASSUME NEW i \in DOMAIN disk', NEW j \in DOMAIN disk', disk'[i].id = disk'[j].id
      PROVE  i = j
  <2>1. CASE i \in DOMAIN disk /\ j \in DOMAIN disk
    BY <1>4, <1>5, <1>9, <2>1 DEF IdsOnRecord
  <2>2. CASE i \in DOMAIN disk /\ j \notin DOMAIN disk
    <3>1. through + (j - Len(disk)) \in DOMAIN ledger /\ through + (j - Len(disk)) > through
      BY <1>1, <1>2, <1>5, <1>6, <2>2
    <3> QED
      BY <1>6, <1>8, <1>9, <2>2, <3>1, <1>4, <1>5
  <2>3. CASE i \notin DOMAIN disk /\ j \in DOMAIN disk
    <3>1. through + (i - Len(disk)) \in DOMAIN ledger /\ through + (i - Len(disk)) > through
      BY <1>1, <1>2, <1>5, <1>6, <2>3
    <3> QED
      BY <1>6, <1>8, <1>9, <2>3, <3>1, <1>4, <1>5
  <2>4. CASE i \notin DOMAIN disk /\ j \notin DOMAIN disk
    <3>1. /\ through + (i - Len(disk)) \in DOMAIN ledger /\ disk'[i] = ledger[through + (i - Len(disk))]
          /\ through + (j - Len(disk)) \in DOMAIN ledger /\ disk'[j] = ledger[through + (j - Len(disk))]
      BY <1>6, <2>4
    <3>2. through + (i - Len(disk)) = through + (j - Len(disk))
      BY <1>9, <3>1
    <3> QED
      BY <1>1, <1>2, <1>5, <1>9, <3>2
  <2> QED
    BY <2>1, <2>2, <2>3, <2>4
<1>10. ASSUME NEW i \in DOMAIN disk', disk'[i].id.run = run.number
       PROVE  \E j \in 1..through' : disk'[i].id = ledger[j].id
  <2>1. CASE i \in DOMAIN disk
    <3>1. PICK j \in 1..through : disk[i].id = ledger[j].id
      BY <1>4, <1>5, <1>7, <1>10, <2>1
    <3>2. j \in 1..through' /\ disk'[i] = disk[i]
      BY <1>1, <1>2, <1>4, <1>5, <2>1, <3>1
    <3> QED
      BY <3>1, <3>2
  <2>2. CASE i \notin DOMAIN disk
    BY <1>1, <1>5, <1>6, <1>10, <2>2
  <2> QED
    BY <2>1, <2>2
<1>11. Len(disk') >= Len(disk)
  BY <1>1, <1>2, <1>4
<1> QED
  BY <1>4, <1>9, <1>10, <1>11

-----------------------------------------------------------------------------
LEMMA IdsOfTheRunStep == IInv /\ [Next]_vars => IdsOfTheRun'
<1> SUFFICES ASSUME TypeOK, StartsFresh, AttemptsAreNamedOnce, Written, IdsOfTheRun, [Next]_vars
             PROVE  IdsOfTheRun'
  BY DEF IInv
<1> DEFINE Done == {"ended", "recording", "returned"}
<1>1. s \in RoundState /\ mine \in Seq(Attempts) /\ run.number \in Nat
  BY DEF TypeOK
<1>2. s.round \in Nat /\ \A i \in DOMAIN mine : mine[i].id \in Ids
  <2>1. \A i \in DOMAIN mine : mine[i] \in Attempts
    BY <1>1, ElementOfSeq, LenProperties
  <2> QED
    BY <1>1, <2>1 DEF RoundState, Attempts
<1>3. ASSUME mine' = <<>>
      PROVE  IdsOfTheRun'
  BY <1>3 DEF IdsOfTheRun
<1>4. ASSUME UNCHANGED mine, run'.number = run.number, at' \notin Trying, s'.round = s.round \/ at' \in Done,
             at' \in Done \/ at \notin Done
      PROVE  IdsOfTheRun'
  BY <1>4 DEF IdsOfTheRun
<1>5. ASSUME UNCHANGED <<s, mine>>, run'.number = run.number, at \in Trying
      PROVE  IdsOfTheRun'
  <2>1. Position' = Position
    BY <1>5 DEF Position
  <2> QED
    BY <1>5, <2>1 DEF IdsOfTheRun, Trying
<1>6. CASE StartRun("run") \/ StartRun("resume") \/ StartRelevel \/ RelevelRefused \/ Return \/ Crash
  <2>1. \E how, n : FreshRun(how, n)
    BY <1>6 DEF StartRun, StartRelevel, RelevelRefused, Return, Crash
  <2> QED
    BY <1>3, <2>1 DEF FreshRun
<1>7. CASE BeginRelevel \/ Begin
  <2>1. at = "starting" /\ mine' = mine
    BY <1>7 DEF BeginRelevel, Begin, Goto, runVars
  <2> QED
    BY <1>3, <2>1 DEF StartsFresh
<1>8. CASE EnterConflict \/ EnterStuck \/ EnterLevel \/ EnterRelevelled \/ EnterRelevelReviewed
  <2>1. mine' = <<>>
    BY <1>8 DEF EnterConflict, EnterStuck, EnterLevel, EnterRelevelled, EnterRelevelReviewed, Levels
  <2> QED
    BY <1>3, <2>1
<1>9. CASE EnterExecutor
  <2>1. mine' = mine /\ s' = Confirmed /\ run'.number = run.number /\ at = "enter"
    BY <1>9 DEF EnterExecutor, Entering, TypeOK
  <2>2. CASE mine = <<>>
    BY <1>3, <2>1, <2>2
  <2>3. CASE mine # <<>>
    <3>1. s' = s
      BY <1>1, <2>1, <2>3 DEF Confirmed, StartsFresh, RoundState
    <3> QED
      BY <1>5, <2>1, <3>1 DEF Trying
  <2> QED
    BY <2>2, <2>3
<1>10. CASE ConfigurationPresent
  BY <1>4, <1>10 DEF ConfigurationPresent, End, AttemptEnded, Trying
<1>11. CASE Attempting /\ ~ConfigurationPresent
  <2>1. /\ at = "executing" /\ run' = run
        /\ \E w \in Nat : mine' = Attempted(w)
    <3>1. CASE TransportParks
      BY <3>1, ParkedAttempt DEF TransportParks
    <3>2. CASE ~TransportParks
      <4>1. at = "executing" /\ run' = run /\ \E declines \in Declines : AddAttempt(declines)
        BY <1>11, <3>2 DEF Attempting, TransportRetries, CeilingContinues, AttemptStops,
          AttemptChangesNothing,
          ConflictAfterSeal, ConflictStops, ResolutionLands, RoundCompletes, Completes, AttemptEnded
      <4> QED
        BY <4>1 DEF AddAttempt
    <3> QED
      BY <3>1, <3>2
  <2>2. /\ \A i \in DOMAIN mine' : mine'[i].id.run = run'.number
        /\ \A i, j \in DOMAIN mine' : mine'[i].id = mine'[j].id => i = j
        /\ \A i \in DOMAIN mine' : mine'[i].id \in Ids /\ (mine'[i].id = Position \/ Before(mine'[i].id, Position))
    BY <2>1, AppendedIds
  <2>3. CASE TransportRetries \/ TransportParks \/ CeilingContinues
    <3>1. s' = RetryTransport(s) \/ s' = RetryCeiling(s)
      BY <2>3 DEF TransportRetries, TransportParks, CeilingContinues
    <3>2. \A i \in DOMAIN mine' : Before(mine'[i].id, Position') /\ mine'[i].id.round <= s'.round
      BY <2>1, <2>2, <3>1, PositionAdvances
    <3> QED
      BY <2>2, <3>2 DEF IdsOfTheRun
  <2>4. CASE ConflictAfterSeal \/ ResolutionLands
    <3>1. s'.round = s.round + 1
      BY <1>1, <2>4 DEF ConflictAfterSeal, ResolutionLands, Advance, RoundState
    <3>2. \A i \in DOMAIN mine' : Before(mine'[i].id, Position') /\ mine'[i].id.round <= s'.round
      BY <2>1, <2>2, <3>1, PositionAdvances
    <3> QED
      BY <2>2, <3>2 DEF IdsOfTheRun
  <2>5. CASE RoundCompletes
    <3>1. s'.round = s.round /\ at' \notin Trying
      BY <1>1, <2>5 DEF RoundCompletes, RoundState, Trying
    <3>2. \A i \in DOMAIN mine' : mine'[i].id.round <= s'.round
      BY <2>1, <2>2, <3>1, PositionAdvances
    <3> QED
      BY <2>2, <3>1, <3>2 DEF IdsOfTheRun
  <2>6. CASE AttemptStops \/ AttemptChangesNothing \/ ConflictStops
    <3>1. at' = "ended"
      BY <2>6 DEF AttemptStops, AttemptChangesNothing, ConflictStops, End
    <3> QED
      BY <2>2, <3>1 DEF IdsOfTheRun, Trying
  <2> QED
    BY <1>11, <2>3, <2>4, <2>5, <2>6 DEF Attempting
<1>12. CASE VerifyAdvances \/ ReviewAdvances
  <2>1. mine' = mine /\ run'.number = run.number /\ at \in {"verifying", "reviewing", "re_reviewing"}
    BY <1>12, Zenon DEF VerifyAdvances, ReviewAdvances, ReviewRecorded, Reviewing, Judged, TypeOK
  <2>2. s'.round = s.round + 1
    BY <1>1, <1>12, Zenon DEF VerifyAdvances, ReviewAdvances, Advance, RoundState
  <2>3. \A i \in DOMAIN mine : mine[i].id.round < s'.round /\ mine[i].id.round <= s'.round
    BY <1>2, <2>1, <2>2 DEF IdsOfTheRun, Ids
  <2> QED
    BY <2>1, <2>3 DEF IdsOfTheRun, Before, Position
<1>13. CASE VerifyWidened \/ VerifyStops \/ ReviewStops \/ ReviewRefused
  <2>1. /\ mine' = mine /\ run'.number = run.number /\ at \notin Done
        /\ at' = "ended" \/ (at' = "re_reviewing" /\ s' = s)
    BY <1>13, Zenon DEF VerifyWidened, VerifyStops, ReviewStops, ReviewRefused, ReviewRecorded, Reviewing,
      Judged, End, Goto, runVars, TypeOK
  <2> QED
    BY <1>4, <2>1 DEF Trying
<1>14. CASE ReviewParks
  <2>1. /\ at = "reviewing" /\ at' = "review_wait" /\ UNCHANGED <<s, run>>
    BY <1>14 DEF ReviewParks, Goto
  <2>2. DOMAIN mine' = DOMAIN mine /\ \A i \in DOMAIN mine : mine'[i].id = mine[i].id
    BY <1>14, ParkedLedger
  <2> QED
    BY <2>1, <2>2 DEF IdsOfTheRun, Trying
<1>15. CASE WaitOver
  <2>1. UNCHANGED <<s, run, mine>> /\ (at = "waiting" \/ (at = "review_wait" /\ at' = "re_reviewing"))
    BY <1>15 DEF WaitOver, Goto, runVars
  <2> QED
    BY <1>4, <1>5, <2>1 DEF Trying
<1>16. CASE Publish \/ PublishConflict \/ PublishNothing \/ Finish
  <2>1. UNCHANGED <<run, mine>> /\ at' \in Done
    BY <1>16 DEF Publish, PublishConflict, PublishNothing, Finish, Goto
  <2> QED
    BY <1>4, <2>1 DEF Trying
<1>17. CASE BaseMoves \/ LimitPasses \/ BoundLowered \/ Answer \/ CommitByHand \/ UNCHANGED vars
  <2>1. UNCHANGED <<at, s, run, mine>>
    BY <1>17 DEF BaseMoves, LimitPasses, BoundLowered, Answer, CommitByHand, vars, runVars
  <2>2. Position' = Position
    BY <2>1 DEF Position
  <2> QED
    BY <2>1, <2>2 DEF IdsOfTheRun
<1> QED
  BY <1>6, <1>7, <1>8, <1>9, <1>10, <1>11, <1>12, <1>13, <1>14, <1>15, <1>16, <1>17, StepKinds DEF Attempting, Judging

(* What a step makes of the attempts record.                               *)
Appended ==
  /\ disk' \in Seq(Attempts) /\ Len(disk') >= Len(disk)
  /\ \A i \in 1..Len(disk) : disk'[i] = disk[i]

LEMMA RecordStep == IInv /\ [Next]_vars => IdsOnRecord' /\ Appended
<1> SUFFICES ASSUME IInv, [Next]_vars
             PROVE  IdsOnRecord' /\ Appended
  OBVIOUS
<1>1. /\ TypeOK /\ StartsFresh /\ Written /\ IdsOfTheRun /\ IdsOnRecord
      /\ disk \in Seq(Attempts) /\ mine \in Seq(Attempts) /\ through \in Nat /\ through <= Len(mine)
      /\ Len(disk) \in Nat /\ Len(mine) \in Nat
      /\ DOMAIN disk = 1..Len(disk) /\ DOMAIN mine = 1..Len(mine)
  BY LenProperties DEF IInv, TypeOK, Written
<1>2. ASSUME disk' = disk, at' = "idle"
      PROVE  IdsOnRecord' /\ Appended
  BY <1>1, <1>2 DEF IdsOnRecord, Appended
<1>3. ASSUME UNCHANGED <<disk, through>>, at # "idle", run'.number = run.number,
             \A i \in DOMAIN mine : mine'[i].id = mine[i].id
      PROVE  IdsOnRecord' /\ Appended
  BY <1>1, <1>3 DEF IdsOnRecord, Appended
<1>4. CASE StartRun("run") \/ StartRun("resume") \/ StartRelevel
  <2>1. PICK counted \in Nat : \E how, n : n \in RunNumbers(counted) /\ FreshRun(how, n)
    <3>1. CASE StartRelevel
      BY <1>1, <3>1 DEF StartRelevel, TypeOK
    <3>2. CASE StartRun("run") \/ StartRun("resume")
      <4>1. starts'.counted \in Nat
        BY <1>1, <3>2, TypeStarts DEF TypeOK, IInv
      <4> QED
        BY <3>2, <4>1 DEF StartRun
    <3> QED
      BY <1>4, <3>1, <3>2
  <2>2. PICK how, n : n \in RunNumbers(counted) /\ FreshRun(how, n)
    BY <2>1
  <2>3. disk' = disk /\ run'.number = n /\ n \notin RunsOnDisk
    BY <1>1, <1>4, <2>2, RunNumbersAreNew DEF StartRun, StartRelevel, FreshRun
  <2>4. \A i \in DOMAIN disk : disk[i].id.run # run'.number
    BY <2>3 DEF RunsOnDisk
  <2> QED
    BY <1>1, <2>3, <2>4 DEF IdsOnRecord, Appended
<1>5. CASE RelevelRefused \/ Return \/ Crash
  BY <1>2, <1>5 DEF RelevelRefused, Return, Crash, Goto
<1>6. CASE \/ BeginRelevel \/ Begin
           \/ EnterConflict \/ EnterStuck \/ EnterExecutor \/ EnterLevel \/ EnterRelevelled \/ EnterRelevelReviewed
           \/ ConfigurationPresent \/ VerifyWidened \/ VerifyStops \/ VerifyAdvances \/ ReviewRefused
           \/ ReviewAdvances \/ ReviewStops \/ WaitOver \/ Publish \/ PublishConflict \/ PublishNothing
  <2>1. at # "idle" /\ UNCHANGED <<disk, through, mine>>
    BY <1>6, Zenon DEF BeginRelevel, Begin,
      EnterConflict, EnterStuck, EnterExecutor, EnterLevel, EnterRelevelled, EnterRelevelReviewed, Entering,
      ConfigurationPresent, VerifyWidened, VerifyStops, VerifyAdvances, ReviewRefused, ReviewAdvances, ReviewStops,
      ReviewRecorded, Reviewing, Judged, WaitOver, Publish, PublishConflict, PublishNothing, Goto, runVars
  <2>2. run'.number = run.number
    <3>1. run \in [how: {"run", "resume", "relevel", "deliver"}, number: Nat, owed: SUBSET Findings, applied: Nat]
      BY <1>1 DEF TypeOK
    <3>2. CASE Begin
      BY <3>1, <3>2 DEF Begin
    <3>3. CASE EnterExecutor
      BY <3>1, <3>3 DEF EnterExecutor
    <3>4. CASE ReviewAdvances \/ ReviewStops
      BY <3>1, <3>4, Zenon DEF ReviewAdvances, ReviewStops, ReviewRecorded
    <3>5. CASE ~(Begin \/ EnterExecutor \/ ReviewAdvances \/ ReviewStops)
      BY <1>6, <3>5 DEF BeginRelevel,
        EnterConflict, EnterStuck, EnterLevel, EnterRelevelled, EnterRelevelReviewed,
        ConfigurationPresent, AttemptEnded, VerifyWidened, VerifyStops, VerifyAdvances, ReviewRefused, Judged,
        WaitOver, Publish, PublishConflict, PublishNothing, runVars
    <3> QED
      BY <3>2, <3>3, <3>4, <3>5
  <2>3. UNCHANGED <<disk, through>> /\ \A i \in DOMAIN mine : mine'[i].id = mine[i].id
    BY <2>1
  <2> QED
    BY <1>3, <2>1, <2>2, <2>3, Zenon
<1>7. CASE TransportRetries \/ CeilingContinues \/ AttemptStops \/ AttemptChangesNothing
           \/ ConflictAfterSeal \/ ConflictStops \/ ResolutionLands \/ RoundCompletes
  <2>1. at = "executing" /\ mine' = Attempted(0) /\ UNCHANGED <<run, disk, through>>
    BY <1>7 DEF TransportRetries, CeilingContinues, AttemptStops, AttemptChangesNothing, ConflictAfterSeal,
      ConflictStops, ResolutionLands, RoundCompletes, Completes, AddAttempt, AttemptEnded
  <2>2. \A i \in DOMAIN mine : mine'[i].id = mine[i].id
    BY <1>1, <2>1, AttemptIsAppended
  <2> QED
    BY <1>3, <2>1, <2>2
<1>8. ASSUME NEW d, Flush(mine', d), at # "idle", run'.number = run.number, mine' \in Seq(Attempts), Len(mine) <= Len(mine'),
             \A i \in DOMAIN mine : mine'[i].id = mine[i].id,
             \A i \in DOMAIN mine' : mine'[i].id.run = run.number,
             \A i, j \in DOMAIN mine' : mine'[i].id = mine'[j].id => i = j
      PROVE  IdsOnRecord' /\ Appended
  <2>1. /\ \A i, j \in DOMAIN disk' : disk'[i].id = disk'[j].id => i = j
        /\ \A i \in DOMAIN disk' : disk'[i].id.run = run.number => \E j \in 1..through' : disk'[i].id = mine'[j].id
        /\ disk' \in Seq(Attempts) /\ Len(disk') >= Len(disk)
        /\ \A i \in 1..Len(disk) : disk'[i] = disk[i]
    BY <1>1, <1>8, FlushedIds
  <2> QED
    BY <1>8, <2>1 DEF IdsOnRecord, Appended
<1>9. CASE TransportParks
  <2>1. /\ at = "executing" /\ run' = run /\ (\E d : Flush(mine', d))
        /\ limit'.named \in Nat /\ mine' = Attempted(limit'.named)
    BY <1>1, <1>9, ParkedAttempt DEF TransportParks
  <2>2. mine' \in Seq(Attempts) /\ Len(mine) <= Len(mine')
    BY <1>1, <2>1, AttemptIsAppended
  <2>3. /\ \A i \in DOMAIN mine' : mine'[i].id.run = run.number
        /\ \A i, j \in DOMAIN mine' : mine'[i].id = mine'[j].id => i = j
        /\ \A i \in DOMAIN mine : mine'[i].id = mine[i].id
    BY <1>1, <2>1, AppendedIds
  <2> QED
    BY <1>8, <2>1, <2>2, <2>3
<1>10. CASE ReviewParks
  <2>1. at = "reviewing" /\ run' = run /\ Flush(mine', declined)
    BY <1>10 DEF ReviewParks, Goto
  <2>2. /\ mine' \in Seq(Attempts) /\ Len(mine') = Len(mine) /\ DOMAIN mine' = DOMAIN mine
        /\ \A i \in DOMAIN mine : mine'[i].id = mine[i].id
    BY <1>1, <1>10, ParkedLedger
  <2> QED
    BY <1>1, <1>8, <2>1, <2>2 DEF IdsOfTheRun
<1>11. CASE Finish
  <2>1. at = "recording" /\ run' = run /\ mine' = mine /\ Flush(mine', declined)
    BY <1>11 DEF Finish, Goto, Flush, Write
  <2> QED
    BY <1>1, <1>8, <2>1 DEF IdsOfTheRun
<1>12. CASE BaseMoves \/ LimitPasses \/ BoundLowered \/ Answer \/ CommitByHand \/ UNCHANGED vars
  <2>1. UNCHANGED <<at, run, mine, through, disk>>
    BY <1>12 DEF BaseMoves, LimitPasses, BoundLowered, Answer, CommitByHand, vars, runVars
  <2> QED
    BY <1>1, <2>1 DEF IdsOnRecord, Appended
<1> QED
  BY <1>4, <1>5, <1>6, <1>7, <1>9, <1>10, <1>11, <1>12, StepKinds DEF Attempting, Judging

-----------------------------------------------------------------------------
LEMMA InitIInv == Init => IInv
<1> SUFFICES ASSUME Init
             PROVE  IInv
  OBVIOUS
<1>1. /\ at = "idle" /\ mine = <<>> /\ disk = <<>> /\ through = 0 /\ ~limit.ahead /\ published = None
      /\ s = Blank /\ run.applied = 0 /\ branch.head = judgement.head /\ branch.work = judgement.work
      /\ judgement.decision = "none"
  BY BlankState DEF Init
<1>2. Len(mine) = 0 /\ DOMAIN mine = {} /\ DOMAIN disk = {}
  BY <1>1, EmptySeq
<1>3. WithinCap /\ Briefed
  BY <1>1, BlankRound, BlankState DEF WithinCap, Briefed
<1>4. AttemptsAreNamedOnce /\ DiffIsApplied /\ Written /\ LimitIsOnRecord
  BY <1>1, <1>2 DEF AttemptsAreNamedOnce, DiffIsApplied, RetainedDiffOnce, Written, RecordedBeforeSleep,
    LimitIsOnRecord, InForce, Trying
<1>5. HeadsCarryTheirWork /\ ContinuesTheRecord /\ SeenByAReview
  BY <1>1 DEF HeadsCarryTheirWork, SameWork, ContinuesTheRecord, FindingsAreOfTheBranch, SeenByAReview
<1>6. IdsOfTheRun /\ IdsOnRecord
  BY <1>1, <1>2 DEF IdsOfTheRun, IdsOnRecord
<1> QED
  BY <1>3, <1>4, <1>5, <1>6, TypeInit, StartsFreshInit DEF IInv

LEMMA StepIInv == IInv /\ [Next]_vars => IInv'
<1> SUFFICES ASSUME IInv, [Next]_vars
             PROVE  IInv'
  OBVIOUS
<1> QED
  BY TypeStep, StartsFreshStep, RoundsStep, NamingStep, DiffStep, WrittenStep, FindingsStep,
    IdsOfTheRunStep, RecordStep
  DEF IInv

(* The inductive invariant holds in every state of every run.              *)
THEOREM Invariant == Spec => []IInv
BY InitIInv, StepIInv, PTL DEF Spec

(* Every part of the run's state stays what it is said to be.              *)
THEOREM TypeCorrect == Spec => []TypeOK
BY Invariant, PTL DEF IInv

(* No round passes the ceiling on all rounds, no remediation its cap, and  *)
(* none is briefed with nothing to close, whatever conflicts and verdicts  *)
(* the rounds meet (context.ts, index.ts, brief.ts).                       *)
THEOREM RoundsAreBounded == Spec => []RoundsNeverRunOut
<1>1. IInv => RoundsNeverRunOut
  <2> SUFFICES ASSUME IInv, at = "enter"
               PROVE  WithinCeiling /\ s.remediation <= MaxRounds /\ (Confirmed.kind = "remediate" => Confirmed.open # {})
    BY DEF RoundsNeverRunOut
  <2>1. s.round \in Nat /\ s.remediation \in Nat /\ MaxRounds \in Nat
    BY LoopAssumption DEF IInv, TypeOK, RoundState
  <2>2. s.remediation <= MaxRounds /\ s.round <= 2 * s.remediation + 2
    BY DEF IInv, WithinCap, CapOf
  <2>3. WithinCeiling
    BY <2>1, <2>2 DEF WithinCeiling
  <2>4. BriefOf(Confirmed)
    BY ConfirmedWithin DEF IInv
  <2> QED
    BY <2>2, <2>3, <2>4 DEF BriefOf
<1> QED
  BY <1>1, Invariant, PTL

(* A run that sleeps or returns has its attempts on record, whatever it    *)
(* retried before (ledger.ts).                                             *)
THEOREM SleepsOnTheRecord == Spec => []RecordedBeforeSleep
<1>1. IInv => RecordedBeforeSleep
  BY DEF IInv, Written
<1> QED
  BY <1>1, Invariant, PTL

(* Over any number of runs and crashes, nothing is spent while a reset an  *)
(* attempt on record waits for is still to come, unless a person lowered   *)
(* the bound under what is left of the wait (start.ts).                    *)
THEOREM LimitsAreSatOut == Spec => []NothingAgainstTheLimit
<1>1. IInv => NothingAgainstTheLimit
  BY DEF IInv, LimitIsOnRecord, NothingAgainstTheLimit
<1> QED
  BY <1>1, Invariant, PTL

(* A run sleeps only on what it recorded, and no run spends against a limit *)
(* on record, over any number of parks, crashes and starts, but for a bound *)
(* lowered under the wait (ledger.ts, start.ts).                           *)
THEOREM Limits == Spec => []LimitsAreKept
<1>1. RecordedBeforeSleep /\ NothingAgainstTheLimit => LimitsAreKept
  BY DEF LimitsAreKept
<1> QED
  BY <1>1, SleepsOnTheRecord, LimitsAreSatOut, PTL

(* Every attempt is named on one round record (state.ts).                  *)
THEOREM NamedOnce == Spec => []AttemptsAreNamedOnce
<1>1. IInv => AttemptsAreNamedOnce
  BY DEF IInv
<1> QED
  BY <1>1, Invariant, PTL

(* The diff of a resumed attempt is applied at most once in a run, for any *)
(* interleaving of conflicts, outages and ceilings (brief.ts).             *)
THEOREM AppliedOnce == Spec => []RetainedDiffOnce
<1>1. IInv => RetainedDiffOnce
  BY DEF IInv, DiffIsApplied
<1> QED
  BY <1>1, Invariant, PTL

(* Findings are continued on the work the record judged, however often the *)
(* branch and the pull request moved before (confirmContinuation).         *)
THEOREM ContinuedOnTheirWork == Spec => []FindingsAreOfTheBranch
<1>1. IInv => FindingsAreOfTheBranch
  BY DEF IInv, ContinuesTheRecord
<1> QED
  BY <1>1, Invariant, PTL

(* What a publish shows was judged, or is no work at all.                  *)
LEMMA PublishedIsSeen ==
  ASSUME TypeOK, SeenByAReview, Publish
  PROVE  published'.judged \/ published'.work = 0
<1>1. at = "ended" /\ outcome \in {"approved", "escalated", "relevelled"}
  BY DEF Publish, Publishable, Verdict, Goto
<1>2. branch.judged \/ branch.work = 0
  BY <1>1 DEF SeenByAReview, Seen
<1>3. branch' = [MergedUp(branch) EXCEPT !.foreign = FALSE] \/ branch' = [branch EXCEPT !.foreign = FALSE]
  BY DEF Publish
<1>4. branch \in BranchStates
  BY DEF TypeOK, BranchStates
<1>5. branch'.work = branch.work /\ branch'.judged = branch.judged
  BY <1>3, <1>4, BranchMoves, BranchesStay DEF BranchStates
<1> QED
  BY <1>2, <1>5 DEF Publish

(* No run opens or moves a pull request to work nobody judged, by approval, *)
(* delivery, escalation or re-level (deliver.ts, level.ts).                *)
THEOREM JudgedBeforePublished == Spec => PublishedWasJudged
<1>1. IInv /\ [Next]_vars => [published' # published => published'.judged \/ published'.work = 0]_vars
  <2> SUFFICES ASSUME IInv, [Next]_vars, published' # published
               PROVE  published'.judged \/ published'.work = 0
    OBVIOUS
  <2>1. CASE Publish
    BY <2>1, PublishedIsSeen DEF IInv
  <2>2. CASE Attempting
    BY <2>2 DEF Attempting, ConfigurationPresent, TransportRetries, TransportParks, CeilingContinues,
      AttemptStops,
      AttemptChangesNothing, ConflictAfterSeal, ConflictStops, ResolutionLands, RoundCompletes, AttemptEnded
  <2>3. CASE Judging \/ WaitOver
    BY <2>3, Zenon DEF Judging, WaitOver, VerifyWidened, VerifyStops, VerifyAdvances, ReviewRefused,
      ReviewParks, ReviewAdvances,
      ReviewStops, ReviewRecorded, Judged, branchVars
  <2>4. CASE \/ StartRun("run") \/ StartRun("resume") \/ StartRelevel \/ RelevelRefused \/ BeginRelevel \/ Begin
             \/ EnterConflict \/ EnterStuck \/ EnterExecutor \/ EnterLevel \/ EnterRelevelled \/ EnterRelevelReviewed
    BY <2>4 DEF StartRun, StartRelevel, RelevelRefused, BeginRelevel, Begin,
      EnterConflict, EnterStuck, EnterExecutor, EnterLevel, EnterRelevelled, EnterRelevelReviewed, branchVars
  <2>5. CASE \/ PublishConflict \/ PublishNothing \/ Finish \/ Return \/ Crash
             \/ BaseMoves \/ LimitPasses \/ BoundLowered \/ Answer \/ CommitByHand \/ UNCHANGED vars
    BY <2>5 DEF PublishConflict, PublishNothing, Finish, Return, Crash, BaseMoves, LimitPasses, BoundLowered, Answer,
      CommitByHand,
      vars, branchVars
  <2> QED
    BY <2>1, <2>2, <2>3, <2>4, <2>5, StepKinds
<1> QED
  BY <1>1, Invariant, PTL DEF Spec, PublishedWasJudged

(* The ids on record, and how many they are.                               *)
LEMMA LogOfRecord ==
  ASSUME NEW d \in Seq(Attempts)
  PROVE  /\ Len([i \in DOMAIN d |-> d[i].id]) = Len(d)
         /\ DOMAIN [i \in DOMAIN d |-> d[i].id] = DOMAIN d
<1>1. DOMAIN d = 1..Len(d) /\ Len(d) \in Nat /\ \A i \in DOMAIN d : d[i] \in Attempts
  BY LenProperties, ElementOfSeq
<1>2. [i \in DOMAIN d |-> d[i].id] \in [1..Len(d) -> Ids]
  BY <1>1 DEF Attempts
<1> QED
  BY <1>1, <1>2

(* The runs of a ticket implement the record they append to: it grows at   *)
(* its end and holds no attempt twice (attempts.ts).                       *)
THEOREM RunsAppend == Spec => RecordIsAppended
<1>1. Init => Recorded!Init
  BY DEF Init, Recorded!Init
<1>2. IInv /\ IInv' /\ [Next]_vars => [Recorded!Next]_([i \in DOMAIN disk |-> disk[i].id])
  <2> SUFFICES ASSUME IInv, IInv', [Next]_vars, disk' # disk
               PROVE  Recorded!AppendAttempts
    BY DEF Recorded!Next
  <2>1. /\ disk \in Seq(Attempts) /\ disk' \in Seq(Attempts) /\ Len(disk') >= Len(disk)
        /\ Len(disk) \in Nat /\ Len(disk') \in Nat
        /\ DOMAIN disk = 1..Len(disk) /\ DOMAIN disk' = 1..Len(disk')
        /\ \A i \in 1..Len(disk) : disk'[i] = disk[i]
    BY RecordStep, LenProperties, Zenon DEF Appended, IInv, TypeOK
  <2>2. Len(disk') > Len(disk)
    BY <2>1, SeqEqual
  <2>3. Recorded!Distinct([i \in DOMAIN disk' |-> disk'[i].id])
    BY DEF IInv, IdsOnRecord, Recorded!Distinct
  <2> QED
    BY <2>1, <2>2, <2>3, LogOfRecord DEF Recorded!AppendAttempts
<1> QED
  BY <1>1, <1>2, Invariant, PTL DEF Spec, RecordIsAppended, Recorded!Spec
=============================================================================
