-------------------------------- MODULE Loop --------------------------------
(***************************************************************************)
(* The runs of one ticket (packages/runner/src/loop).  A run takes rounds: *)
(* it briefs an executor, seals what the attempt wrote, has it reviewed or *)
(* has its closures verified, and the routing of that answer decides       *)
(* whether the run stops or takes another round, and what for.  Between    *)
(* runs a person answers findings, commits to the branch, or waits for the *)
(* provider; a crash may end a run at any step.                            *)
(*                                                                         *)
(* An action is what the run does from one await to the next: an attempt's *)
(* end is recorded, routed and (where it parks) flushed to disk in one     *)
(* synchronous stretch.  The state of a round is `s` (RoundState,          *)
(* internal/state.ts), replaced as a whole by each step.                   *)
(***************************************************************************)
EXTENDS Integers, FiniteSets, Sequences

CONSTANTS
  Findings,     \* the findings a review may make
  MaxRounds,    \* maxRounds: remediation rounds one run may take
  Metered,      \* the executor is billed per token, so the ticket budget binds
  Budget,       \* ticketBudgetMicros, where an attempt costs one
  MaxStarts,    \* bound: runs started
  MaxEvents,    \* bound: provider failures sat out, moves of the base and commits by hand, together
  None

ASSUME LoopAssumption ==
  /\ MaxRounds \in Nat \ {0}
  /\ Metered \in BOOLEAN
  /\ Budget \in Nat
  /\ MaxStarts \in Nat /\ MaxEvents \in Nat

Kinds == {"execute", "remediate", "resolve_conflict"}
Decisions == {"none", "approve", "remediable", "escalate", "changes_requested", "incomplete", "error"}
Outcomes ==
  {"approved", "changes_requested", "escalated", "remediation_exhausted", "remediation_stalled",
   "no_changes", "terminated", "base_conflict", "review_failed", "level", "relevelled"}
FINISHED_TRYING == {"remediation_stalled", "remediation_exhausted"}

Conflicts == [tip: Nat, before: BOOLEAN, resume: Kinds] \union {None}

RoundState ==
  [round: Nat, remediation: Nat, kind: Kinds, executeRound: Nat,
   transport: Nat, ceiling: Nat,     \* transportRetry, ceilingContinuation
   superseded: Nat,                  \* how many attempts of this round ended unanswered
   open: SUBSET Findings,            \* openFindings
   reviewed: BOOLEAN,                \* finalReview # null
   again: BOOLEAN,                   \* reviewingAgain
   conflict: Conflicts,
   continuing: BOOLEAN,              \* continuing # null, until it is confirmed
   handed: SUBSET Findings]          \* the findings `directions` are about

Ids == [run: Nat, round: Nat, ceiling: Nat, transport: Nat]
Attempts == [id: Ids, wait: Nat]
(* The round records: the number the next one is past, and how many        *)
(* attempts they name.                                                     *)
Records == [next: Nat, named: Nat]

VARIABLES
  at,           \* where the run is, "idle" between runs
  s,            \* the round state
  run,          \* what the run was started for: how, its number, findings owed, diffs applied
  mine,         \* the ledger: this run's attempts
  through,      \* recordedThrough: how many of them are on disk
  declined,     \* findings declined by its last attempt, by those since the review on record that
                \* are not on disk, and by all of them
  rounds,       \* the ledger's round records
  outcome,      \* how the run ended
  disk,         \* the ticket's attempts record
  starts,       \* runs started, and those the ticket counted (runs_started)
  limit,        \* the provider's failures, its last named reset, whether that is still to come, and
                \* whether the wait a run allows was lowered under what is left of it
  base,         \* the tip of the base branch
  branch,       \* the ticket's branch: its head, the work that head carries (0: none past the base),
                \* the base it holds,
                \* whether a commit past the pull request is nobody's on record, and, as history,
                \* whether that work was read by a review or a verification
  published,    \* what the pull request shows, None before one opens
  commits,      \* the commits made by hand
  judgement,    \* the last review on record and what verifications made of it
  answers       \* what the ticket and the person say of it: finished, shipped, handed

runVars == <<s, run, mine, through, declined, rounds, outcome>>
branchVars == <<base, branch, published, commits>>
vars == <<at, s, run, mine, through, declined, rounds, outcome, disk, starts, limit, base, branch,
          published, commits, judgement, answers>>

Places ==
  {"idle", "starting", "enter", "executing", "waiting", "verifying", "reviewing", "review_wait",
   "re_reviewing", "ended", "recording", "returned"}

TypeOK ==
  /\ at \in Places
  /\ s \in RoundState
  /\ run \in [how: {"run", "resume", "relevel", "deliver"}, number: Nat, owed: SUBSET Findings, applied: Nat]
  /\ mine \in Seq(Attempts) /\ disk \in Seq(Attempts)
  /\ through \in Nat
  /\ declined \in [last: SUBSET Findings, since: SUBSET Findings, all: SUBSET Findings]
  /\ rounds \in Records
  /\ outcome \in Outcomes
  /\ starts \in [all: Nat, counted: Nat]
  /\ limit \in [failures: Nat, named: Nat, ahead: BOOLEAN, lowered: BOOLEAN]
  /\ base \in Nat
  /\ branch \in [head: Nat, work: Nat, base: Nat, foreign: BOOLEAN, judged: BOOLEAN]
  /\ published \in [head: Nat, work: Nat, base: Nat, judged: BOOLEAN] \union {None}
  /\ commits \in Nat
  /\ judgement \in [decision: Decisions, open: SUBSET Findings, remediable: SUBSET Findings,
                    keys: SUBSET Findings, verified: BOOLEAN, conceded: SUBSET Findings,
                    head: Nat, work: Nat]
  /\ answers \in [finished: BOOLEAN, shipped: SUBSET Findings, handed: SUBSET Findings]

-----------------------------------------------------------------------------
(* What the record says of the last review (internal/continuation.ts and   *)
(* contracts/decision.ts).                                                 *)

(* routedToPerson: the findings a person is asked about. *)
ThePersons ==
  IF answers.finished
  THEN judgement.open
  ELSE judgement.open \ (judgement.remediable \ judgement.conceded)

Tried == answers.finished \/ judgement.open \intersect judgement.conceded # {}

Decidable ==
  \/ judgement.decision \in {"changes_requested", "escalate"}
  \/ judgement.decision = "remediable" /\ Tried

(* decisionsOn: an answer counts where the review takes one. *)
Shipped == IF Decidable THEN answers.shipped \intersect ThePersons ELSE {}
Handed == IF Decidable THEN answers.handed \intersect ThePersons ELSE {}

(* remediationToContinue: the findings a run goes on closing. *)
ToContinue == ((judgement.open \intersect judgement.keys) \ ThePersons) \union Handed

(* Mutant: delivered wherever the branch is. *)
DeliverableAnywhere ==
  /\ Decidable
  /\ answers.shipped \union answers.handed # {}
  /\ judgement.open \subseteq Shipped

(* decidedDelivery: every standing finding is answered. *)
Deliverable ==
  /\ Decidable
  /\ answers.shipped \union answers.handed # {}
  /\ judgement.open \subseteq Shipped
  /\ branch.head = judgement.head

(* refuseOwedAnswers: the person owes the answers a run would start without. *)
AnswersOwed ==
  /\ Tried /\ Decidable
  /\ judgement.open \subseteq ThePersons
  /\ Handed = {}
  /\ ThePersons \ Shipped # {}
  /\ branch.head = judgement.head

-----------------------------------------------------------------------------
(* The round state and its steps (internal/state.ts). *)

InitialRoundState(continuing) ==
  [round |-> IF continuing THEN 1 ELSE 0,
   remediation |-> IF continuing THEN 1 ELSE 0,
   kind |-> IF continuing THEN "remediate" ELSE "execute",
   executeRound |-> 0, transport |-> 0, ceiling |-> 0, superseded |-> 0,
   open |-> IF continuing THEN ToContinue ELSE {},
   reviewed |-> continuing, again |-> FALSE, conflict |-> None,
   continuing |-> continuing,
   handed |-> IF continuing THEN Handed ELSE {}]

Reenter(st) ==
  [st EXCEPT !.conflict = [tip |-> base, before |-> TRUE, resume |-> st.kind], !.kind = "resolve_conflict"]

RetryTransport(st) == [st EXCEPT !.superseded = @ + 1, !.transport = @ + 1]

RetryCeiling(st) == [st EXCEPT !.superseded = @ + 1, !.transport = 0, !.ceiling = @ + 1]

(* Mutant: the attempts an answered round superseded stay with the next. *)
AdvanceKeeping(st, kind, remediation) ==
  [st EXCEPT !.round = @ + 1, !.remediation = IF remediation THEN @ + 1 ELSE @, !.kind = kind,
             !.transport = 0, !.ceiling = 0]

Advance(st, kind, remediation) ==
  [st EXCEPT !.round = @ + 1, !.remediation = IF remediation THEN @ + 1 ELSE @, !.kind = kind,
             !.transport = 0, !.ceiling = 0, !.superseded = 0]

-----------------------------------------------------------------------------
(* The ledger and the branch. *)

Position == [run |-> run.number, round |-> s.round, ceiling |-> s.ceiling, transport |-> s.transport]

Attempted(wait) == Append(mine, [id |-> Position, wait |-> wait])

Declining(declines) ==
  [last |-> declines, since |-> declined.since \union declines, all |-> declined.all \union declines]

AddAttempt(declines) == mine' = Attempted(0) /\ declined' = Declining(declines)

(* A round that answered: the attempt it ended on and those it superseded. *)
AddRound == rounds' = [next |-> s.round + 1, named |-> rounds.named + s.superseded + 1]

(* appendAttempts, from the ledger's mark on. *)
Pending(ledger) == SubSeq(ledger, through + 1, Len(ledger))

Events == limit.failures + base + commits

Spend == Len(disk) + Len(mine) - through

(* A commit is named by a number no head or work goes by. *)
Named ==
  {0, branch.head, branch.work, judgement.head, judgement.work}
  \union (IF published = None THEN {} ELSE {published.head, published.work})
Fresh == CHOOSE n \in 1..7 : n \notin Named /\ \A m \in 1..7 : m \in Named \/ n <= m

Behind == branch.base < base

(* What an attempt left on the branch: what it found, or work of its own,  *)
(* with the merge a resolution was briefed to make where it made it.       *)
OwnWork ==
  LET over(b) == [branch EXCEPT !.head = Fresh, !.work = Fresh, !.base = b, !.judged = FALSE]
      resolved == IF s.conflict # None /\ branch.base < s.conflict.tip THEN {s.conflict.tip} ELSE {}
  IN  {over(b) : b \in {branch.base} \union resolved}
Sealed == OwnWork \union {branch}

(* An attempt that took everything it found off the branch again. *)
Emptied ==
  IF branch.work = 0 THEN branch ELSE [branch EXCEPT !.head = Fresh, !.work = 0, !.judged = FALSE]
(* takeMergeUp: a clean merge of the base, a new head over the same work. *)
MergedUp(b) == IF b.base < base THEN [b EXCEPT !.head = Fresh, !.base = base] ELSE b

End(out) == at' = "ended" /\ outcome' = out

Goto(here, there) == at = here /\ at' = there

-----------------------------------------------------------------------------
(* A run starts (index.ts, internal/start.ts). *)

RunsOnDisk == {disk[i].id.run : i \in DOMAIN disk}

(* Mutant: the number is what the caller counted, whatever the record holds. *)
CountedNumbers(counted) == {counted}

(* The first number from the larger of the two counts on whose root is free. *)
RunNumbers(counted) ==
  LET candidates == {n \in 1..(counted + Cardinality(RunsOnDisk) + 1) :
                       n >= counted /\ n > Cardinality(RunsOnDisk) /\ n \notin RunsOnDisk}
  IN  {n \in candidates : \A m \in candidates : n <= m}

NoneDeclined == [last |-> {}, since |-> {}, all |-> {}]
NoRounds == [next |-> 0, named |-> 0]

FreshRun(how, n) ==
  /\ s' = InitialRoundState(FALSE)
  /\ run' = [how |-> how, number |-> n, owed |-> {}, applied |-> 0]
  /\ mine' = <<>> /\ through' = 0 /\ declined' = NoneDeclined /\ rounds' = NoRounds /\ outcome' = "terminated"

(* A run of the ticket, or one resuming a stopped attempt's work: the run  *)
(* is counted before it starts and refused where it owes answers.          *)
StartRun(how) ==
  /\ Goto("idle", "starting")
  /\ starts.all < MaxStarts
  /\ how = "run" => ~AnswersOwed
  /\ how = "resume" => disk # <<>>
  /\ starts' = [all |-> starts.all + 1, counted |-> starts.counted + 1]
  /\ \E n \in RunNumbers(starts'.counted) : FreshRun(how, n)
  /\ UNCHANGED <<disk, limit, branchVars, judgement, answers>>

(* A re-level is of a ticket whose pull request is open, and not counted. *)
StartRelevel ==
  /\ Goto("idle", "starting")
  /\ starts.all < MaxStarts
  /\ published # None
  /\ starts' = [starts EXCEPT !.all = @ + 1]
  /\ \E n \in RunNumbers(starts.counted) : FreshRun("relevel", n)
  /\ UNCHANGED <<disk, limit, branchVars, judgement, answers>>

(* Mutant: the wait a previous process was killed in is not read. *)
NotReadingTheRecord == FALSE

(* A reset is still to come, and what is left of the wait is within the    *)
(* bound a run is given.                                                   *)
InForce == limit.ahead /\ ~limit.lowered

(* parkedWait: the last attempt on record waits for such a reset. *)
ParkedOnRecord == disk # <<>> /\ disk[Len(disk)].wait = limit.named /\ InForce

(* resetToPullRequest: a commit the loop did not make is a person's, and   *)
(* the loop neither drops nor publishes it.                                *)
RelevelRefused ==
  /\ Goto("starting", "idle")
  /\ ~ParkedOnRecord
  /\ run.how = "relevel" /\ branch.foreign
  /\ FreshRun("run", 0)
  /\ UNCHANGED <<disk, starts, limit, branchVars, judgement, answers>>

(* Otherwise it starts from what the pull request shows. *)
BeginRelevel ==
  /\ Goto("starting", "enter")
  /\ ~ParkedOnRecord
  /\ run.how = "relevel" /\ ~branch.foreign
  /\ branch' = [branch EXCEPT !.head = published.head, !.work = published.work,
                            !.base = published.base, !.judged = published.judged]
  /\ UNCHANGED <<runVars, disk, starts, limit, base, published, commits, judgement, answers>>

(* A run of the ticket delivers on a person's answers, goes on from the findings the   *)
(* record left open, or starts the ticket's own brief (index.ts, before    *)
(* the rounds).                                                            *)
Begin ==
  /\ at = "starting"
  /\ ~ParkedOnRecord
  /\ run.how # "relevel"
  /\ IF run.how = "run" /\ Deliverable
     THEN /\ End("approved")
          /\ s' = [s EXCEPT !.reviewed = TRUE]
          /\ run' = [run EXCEPT !.how = "deliver"]
     ELSE LET continuing == run.how = "run" /\ ToContinue # {} IN
          /\ at' = "enter"
          /\ s' = InitialRoundState(continuing)
          /\ run' = IF continuing THEN [run EXCEPT !.owed = ThePersons \ (Shipped \union Handed)] ELSE run
          /\ UNCHANGED outcome
  /\ UNCHANGED <<mine, through, declined, rounds, disk, starts, limit, branchVars, judgement, answers>>

-----------------------------------------------------------------------------
(* The top of a round (index.ts, provision.ts, level.ts, brief.ts). *)

(* Mutant: the findings are continued wherever the branch is. *)
ConfirmedUnasked == [s EXCEPT !.continuing = FALSE]

(* confirmContinuation: findings are continued only on the branch the      *)
(* record judged; a branch that moved is reviewed afresh.                  *)
Confirmed ==
  IF s.continuing /\ branch.head # judgement.head
  THEN InitialRoundState(FALSE) ELSE [s EXCEPT !.continuing = FALSE]
(* levelBeforeExecutor's merge-up belongs to the run's first attempt. *)
Levels(st) ==
  mine = <<>> /\ st.transport = 0 /\ st.ceiling = 0 /\ st.kind # "resolve_conflict"

WithinCeiling == s.round <= 2 * MaxRounds + 2

Entering == at = "enter" /\ WithinCeiling

(* The base conflicts before the executor: the round resolves that first. *)
EnterConflict ==
  /\ Entering
  /\ Levels(Confirmed) /\ Behind
  /\ s' = Reenter(Confirmed)
  /\ UNCHANGED <<at, run, mine, through, declined, rounds, outcome, disk, starts, limit, branchVars, judgement, answers>>

(* The merge stopped naming no unmerged path: nothing for a round to resolve. *)
EnterStuck ==
  /\ Entering
  /\ Levels(Confirmed) /\ Behind
  /\ End("base_conflict")
  /\ s' = Confirmed
  /\ UNCHANGED <<run, mine, through, declined, rounds, disk, starts, limit, branchVars, judgement, answers>>

(* Mutant: every attempt of the round applies it again. *)
AppliesDiffEachAttempt(st) ==
  run.how = "resume" /\ st.kind = "execute" /\ st.round = st.executeRound

(* resumedHere: a prior attempt's diff goes into the worktree in the round *)
(* of the ticket's own brief, before its first attempt.                    *)
AppliesDiff(st) ==
  /\ run.how = "resume" /\ st.kind = "execute" /\ st.round = st.executeRound
  /\ st.transport = 0 /\ st.ceiling = 0
(* The executor is briefed, or has nothing to close. *)
EnterExecutor ==
  /\ Entering
  /\ ~(run.how = "relevel" /\ Levels(Confirmed))
  /\ s' = Confirmed
  /\ branch' = IF Levels(Confirmed) THEN MergedUp(branch) ELSE branch
  /\ IF s'.kind = "remediate" /\ s'.open = {}
     THEN End("escalated") /\ UNCHANGED run
     ELSE /\ at' = "executing" /\ UNCHANGED outcome
          /\ run' = [run EXCEPT !.applied = @ + IF AppliesDiff(s') THEN 1 ELSE 0,
                                !.owed = IF s'.reviewed THEN @ ELSE {}]
  /\ UNCHANGED <<mine, through, declined, rounds, disk, starts, limit, base, published, commits, judgement, answers>>

(* judgeRelevel: no executor runs.  A branch level with its base is left,  *)
(* a merged one is judged on the checks, and where the base touched the    *)
(* contract's scope reviewed afresh.                                       *)
EnterLevel ==
  /\ Entering
  /\ run.how = "relevel" /\ Levels(s) /\ ~Behind
  /\ End("level")
  /\ UNCHANGED <<s, run, mine, through, declined, rounds, disk, starts, limit, branchVars, judgement, answers>>

EnterRelevelled ==
  /\ Entering
  /\ run.how = "relevel" /\ Levels(s) /\ Behind
  /\ branch' = MergedUp(branch)
  /\ \E red \in BOOLEAN : End(IF red THEN "changes_requested" ELSE "relevelled")
  /\ UNCHANGED <<s, run, mine, through, declined, rounds, disk, starts, limit, base, published, commits, judgement, answers>>

(* What a review may come to: a verdict, the findings it made, those of    *)
(* them routed to the executor and those of these it may be handed.        *)
Verdicts ==
  {v \in [decision: Decisions \ {"none"}, found: SUBSET Findings, remediable: SUBSET Findings,
          keys: SUBSET Findings] :
     /\ v.keys \in {{}, v.remediable} /\ v.remediable \subseteq v.found
     /\ CASE v.decision \in {"approve", "error"} -> v.found = {}
          [] v.decision = "incomplete" -> v.keys = v.found
          [] v.decision = "remediable" -> v.found # {} /\ v.remediable = v.found
          [] OTHER -> v.remediable # v.found /\ v.keys = v.remediable}

(* A review on record, of the commit it judged: what was answered, tried   *)
(* or declined of an earlier one says nothing of it.                       *)
RecordReview(v, b) ==
  /\ judgement' = [decision |-> v.decision, open |-> v.found, remediable |-> v.remediable,
                   keys |-> v.keys, verified |-> FALSE, conceded |-> {},
                   head |-> b.head, work |-> b.work]
  /\ answers' = [finished |-> FALSE, shipped |-> {}, handed |-> {}]

EnterRelevelReviewed ==
  /\ Entering
  /\ run.how = "relevel" /\ Levels(s) /\ Behind
  /\ branch' = [MergedUp(branch) EXCEPT !.judged = TRUE]
  /\ \E v \in Verdicts :
       /\ RecordReview(v, branch')
       /\ End(CASE v.decision = "approve" -> "relevelled"
                [] v.decision = "error" -> "review_failed"
                [] v.decision \in {"escalate", "incomplete"} -> "escalated"
                [] OTHER -> "changes_requested")
  /\ s' = [s EXCEPT !.reviewed = TRUE]
  /\ UNCHANGED <<run, mine, through, declined, rounds, disk, starts, limit, base, published, commits>>

-----------------------------------------------------------------------------
(* An attempt ends (execute.ts, seal.ts, attempt.ts, route.ts). *)

(* D-065: declines are read off a remediation attempt however it ended. *)
Declines == IF s.kind = "remediate" THEN SUBSET s.open ELSE {{}}

AttemptEnded == <<run, starts, base, published, commits, judgement, answers>>

(* A configuration the run withholds is in the worktree: no attempt ran. *)
ConfigurationPresent ==
  /\ at = "executing"
  /\ End("terminated")
  /\ UNCHANGED <<s, mine, through, declined, rounds, disk, limit, branch, AttemptEnded>>

(* The transport failed.  The first failure of a round buys one more       *)
(* attempt: at once, or, where the provider named a reset within the       *)
(* bound, after a park that is on disk before the sleep.                   *)
TransportRetries ==
  /\ at = "executing" /\ s.transport = 0
  /\ Events < MaxEvents /\ limit' = [limit EXCEPT !.failures = @ + 1]
  /\ branch' \in Sealed
  /\ \E declines \in Declines : AddAttempt(declines)
  /\ s' = RetryTransport(s)
  /\ at' = "enter"
  /\ UNCHANGED <<through, rounds, outcome, disk, AttemptEnded>>

(* ledger.flush: what the run has made so far, before it sleeps.  A        *)
(* finding declined since the review on record is the person's from here.  *)
Write(ledger, declines) ==
  /\ disk' = disk \o Pending(ledger)
  /\ judgement' = [judgement EXCEPT !.conceded = @ \union (judgement.open \intersect declines.since)]

(* Mutant: a park leaves the record for the end of the run. *)
KeepForTheEnd(ledger, declines) == UNCHANGED <<disk, through, judgement>> /\ declined' = declines

Flush(ledger, declines) ==
  Write(ledger, declines) /\ through' = Len(ledger) /\ declined' = [declines EXCEPT !.since = {}]

(* The provider names a reset the run may wait for: a new one, or again    *)
(* one an earlier run was told of under a longer bound.                    *)
NameReset ==
  /\ limit.ahead => limit.lowered
  /\ Events < MaxEvents
  /\ limit' = [failures |-> limit.failures + 1, named |-> limit.named + 1, ahead |-> TRUE, lowered |-> FALSE]

TransportParks ==
  /\ at = "executing" /\ s.transport = 0
  /\ NameReset
  /\ branch' \in Sealed
  /\ mine' = Attempted(limit'.named)
  /\ \E declines \in Declines : Flush(mine', Declining(declines))
  /\ s' = RetryTransport(s)
  /\ at' = "waiting"
  /\ UNCHANGED <<rounds, outcome, run, starts, base, published, commits, answers>>

(* A ceiling cut the attempt: over work of its own, and while the ticket's *)
(* budget lasts, the next attempt of the round continues it.               *)
WithinBudget(spend) == Metered /\ spend < Budget

CeilingContinues ==
  /\ at = "executing"
  /\ branch' \in OwnWork
  /\ \E declines \in Declines : AddAttempt(declines)
  /\ WithinBudget(Spend + 1)
  /\ s' = RetryCeiling(s)
  /\ at' = "enter"
  /\ UNCHANGED <<through, rounds, outcome, disk, limit, AttemptEnded>>

(* The run stops on the attempt: a second transport failure, a reset past  *)
(* the bound, a ceiling nothing continues, a refused action or a stall.    *)
AttemptStops ==
  /\ at = "executing"
  /\ branch' \in Sealed
  /\ \E declines \in Declines : AddAttempt(declines)
  /\ AddRound
  /\ End("terminated")
  /\ UNCHANGED <<s, through, disk, limit, AttemptEnded>>

(* The branch adds no change to its base: a person's where the executor    *)
(* declined what it was asked for.                                         *)
AttemptChangesNothing ==
  /\ at = "executing"
  /\ branch' = Emptied
  /\ \E declines \in Declines :
       /\ AddAttempt(declines)
       /\ End(IF declines = {} THEN "no_changes" ELSE "escalated")
  /\ AddRound
  /\ UNCHANGED <<s, through, disk, limit, AttemptEnded>>

(* The executor finished, over work of its own or what it found; the base  *)
(* is merged into it, or will not merge (levelAfterSeal).                  *)
Completes(conflict) ==
  /\ at = "executing"
  /\ \E b \in Sealed :
       /\ b.work # 0
       /\ conflict => b.base < base
       /\ ~conflict /\ s.kind = "resolve_conflict" => b.base >= s.conflict.tip
       /\ branch' = IF conflict THEN b ELSE MergedUp(b)
  /\ \E declines \in Declines : AddAttempt(declines)

(* The base will not merge into what the round made: a round whose only    *)
(* task is the resolution follows.                                         *)
ConflictAfterSeal ==
  /\ Completes(TRUE)
  /\ s.kind # "resolve_conflict"
  /\ AddRound
  /\ s' = [Advance(s, "resolve_conflict", FALSE) EXCEPT !.conflict = [tip |-> base, before |-> FALSE, resume |-> s.kind]]
  /\ at' = "enter"
  /\ UNCHANGED <<through, outcome, disk, limit, AttemptEnded>>

(* Nothing to resolve, a resolution back at the same conflict, or one that *)
(* committed its markers.                                                  *)
ConflictStops ==
  /\ Completes(TRUE) \/ (Completes(FALSE) /\ s.kind = "resolve_conflict")
  /\ AddRound
  /\ End("base_conflict")
  /\ UNCHANGED <<s, through, disk, limit, AttemptEnded>>

BriefStillOwed == s.kind = "resolve_conflict" /\ s.conflict.before /\ run.how # "relevel"

(* A resolution before the executor: the brief it interrupted is next. *)
ResolutionLands ==
  /\ Completes(FALSE)
  /\ BriefStillOwed
  /\ AddRound
  /\ s' = [Advance(s, s.conflict.resume, FALSE) EXCEPT
             !.conflict = None,
             !.executeRound = IF s.conflict.resume = "execute" THEN s.round + 1 ELSE @]
  /\ at' = "enter"
  /\ UNCHANGED <<through, outcome, disk, limit, AttemptEnded>>

(* Otherwise the round is judged: verified where a review routed findings  *)
(* to it, reviewed where none has judged the change yet.                   *)
RoundCompletes ==
  /\ Completes(FALSE)
  /\ ~BriefStillOwed
  /\ s' = [s EXCEPT !.conflict = None]
  /\ at' = IF s.reviewed /\ ~s.again THEN "verifying" ELSE "reviewing"
  /\ UNCHANGED <<through, rounds, outcome, disk, limit, AttemptEnded>>
-----------------------------------------------------------------------------
(* A round answering findings is verified (internal/verify.ts). *)

Judged == <<run, mine, through, declined, disk, starts, limit, base, published, commits>>

(* toVerify: what the executor was given and did not decline. *)
ToVerify == IF s.kind = "execute" THEN {} ELSE s.open \ declined.last

(* A verification on record: the findings it closed, and the work it read. *)
RecordVerification(given, closed) ==
  /\ judgement' = [judgement EXCEPT
       !.open = @ \ closed,
       !.keys = ((IF judgement.verified THEN @ ELSE {}) \union given) \ closed,
       !.verified = TRUE,
       !.conceded = @ \ closed,
       !.head = branch.head, !.work = branch.work]
  /\ branch' = [branch EXCEPT !.judged = TRUE]

(* restoreJudgedCommit: the branch goes back where the last judgement is,  *)
(* and stays where it is where it does not carry that commit.              *)
Restored == [branch EXCEPT !.head = judgement.head, !.work = judgement.work, !.judged = TRUE]

(* A round given a scope finding added paths: refused before anything is   *)
(* paid to verify it, and the finding is the person's from then on.        *)
VerifyWidened ==
  /\ at = "verifying" /\ s.kind = "remediate"
  /\ s.open # {}
  /\ judgement' = [judgement EXCEPT !.keys = (IF judgement.verified THEN @ ELSE {}) \union ToVerify,
                                    !.verified = TRUE, !.conceded = @ \union ToVerify]
  /\ branch' \in {Restored, branch}
  /\ AddRound
  /\ End("changes_requested")
  /\ UNCHANGED <<s, answers, Judged>>

(* backToPerson: a finding they handed to the executor is theirs again. *)
OrTheirs(open, out) == IF open \intersect s.handed # {} THEN "escalated" ELSE out

(* The run stops on a verification: a check fails on the round's tree, all *)
(* is closed, nothing was, or there is no round or money left for more.    *)
VerifyStops ==
  /\ at = "verifying"
  /\ \E closed \in SUBSET ToVerify, failed \in BOOLEAN :
       LET left == s.open \intersect (ToVerify \ closed) IN
       /\ failed => closed = {}
       /\ ~failed /\ left # {} /\ closed # {} =>
            s.remediation >= MaxRounds \/ (Metered /\ Spend >= Budget)
       /\ RecordVerification(ToVerify, closed)
       /\ End(CASE failed -> "changes_requested"
                [] ~failed /\ left = {} -> IF declined.all = {} THEN "approved" ELSE "escalated"
                [] ~failed /\ left # {} /\ closed = {} -> OrTheirs(left, "remediation_stalled")
                [] OTHER -> OrTheirs(left, "remediation_exhausted"))
  /\ AddRound
  /\ UNCHANGED <<s, answers, Judged>>

(* Mutant: the cap is read one round late. *)
EarnsARoundTooMany == s.remediation <= MaxRounds /\ ~(Metered /\ Spend >= Budget)

(* The round closed something and left something: progress earns another,  *)
(* while there is a round and money left.                                  *)
EarnsARound == s.remediation < MaxRounds /\ ~(Metered /\ Spend >= Budget)
VerifyAdvances ==
  /\ at = "verifying"
  /\ EarnsARound
  /\ \E closed \in SUBSET ToVerify :
       LET left == s.open \intersect (ToVerify \ closed) IN
       /\ closed # {} /\ left # {}
       /\ RecordVerification(ToVerify, closed)
       /\ s' = [Advance(s, "remediate", TRUE) EXCEPT !.open = left]
  /\ AddRound
  /\ at' = "enter"
  /\ UNCHANGED <<outcome, answers, Judged>>

-----------------------------------------------------------------------------
(* A round nothing judged before is reviewed (internal/review.ts). *)

(* The provider refused the review and named no reset, or one already past. *)
ReviewRefused ==
  /\ Goto("reviewing", "re_reviewing")
  /\ UNCHANGED <<runVars, disk, starts, limit, branchVars, judgement, answers>>

(* parkAfter: the wait is put on the attempt the review was judging, and   *)
(* written, before the sleep.  An attempt already on disk takes none.      *)
ReviewParks ==
  /\ Goto("reviewing", "review_wait")
  /\ NameReset
  /\ Len(mine) > through
  /\ mine' = [mine EXCEPT ![Len(mine)].wait = limit'.named]
  /\ Flush(mine', declined)
  /\ UNCHANGED <<s, run, rounds, outcome, starts, branchVars, answers>>

Reviewing == at \in {"reviewing", "re_reviewing"}

ReviewRecorded(v) ==
  /\ v \in Verdicts
  /\ RecordReview(v, branch)
  /\ branch' = [branch EXCEPT !.judged = TRUE]
  /\ AddRound
  /\ declined' = [declined EXCEPT !.since = {}]
  /\ run' = [run EXCEPT !.owed = {}]
  /\ UNCHANGED <<mine, through, disk, starts, limit, base, published, commits>>

(* The executor is handed what the review routed to it, or the findings an *)
(* incomplete review could not judge around: that round is reviewed again. *)
ReviewAdvances ==
  /\ Reviewing
  /\ s.remediation < MaxRounds
  /\ \E v \in Verdicts, causes \in SUBSET Findings :
       /\ ReviewRecorded(v)
       /\ causes # {} /\ causes \subseteq v.keys
       /\ \/ v.decision = "remediable" /\ causes = v.keys
          \/ v.decision = "incomplete" /\ ~s.again
       /\ s' = [Advance(s, "remediate", TRUE) EXCEPT
                  !.open = causes, !.reviewed = TRUE, !.again = v.decision = "incomplete"]
  /\ at' = "enter"
  /\ UNCHANGED outcome

(* Every other verdict stops the run: approved, unjudged, a person's, or   *)
(* past the rounds there are.                                              *)
ReviewStops ==
  /\ Reviewing
  /\ \E v \in Verdicts :
       /\ ReviewRecorded(v)
       /\ v.decision = "remediable" /\ v.keys # {} => s.remediation >= MaxRounds
       /\ End(CASE v.decision = "approve" -> "approved"
                [] v.decision = "error" -> "review_failed"
                [] v.decision = "remediable" /\ v.keys # {} -> "remediation_exhausted"
                [] v.decision = "changes_requested" -> "changes_requested"
                [] OTHER -> "escalated")
  /\ s' = [s EXCEPT !.reviewed = TRUE, !.again = FALSE]

(* Mutant: the wait of a refused review is never left. *)
WaitOverBeforeAttempts ==
  /\ ~limit.ahead
  /\ Goto("waiting", "enter")
  /\ UNCHANGED <<runVars, disk, starts, limit, branchVars, judgement, answers>>

(* The wait is over: the next attempt of the round, or the review again. *)
WaitOver ==
  /\ ~limit.ahead
  /\ Goto("waiting", "enter") \/ Goto("review_wait", "re_reviewing")
  /\ UNCHANGED <<runVars, disk, starts, limit, branchVars, judgement, answers>>

-----------------------------------------------------------------------------
(* The run ends (index.ts past the rounds, internal/deliver.ts). *)

(* An approval of continued findings is the person's where one routed to   *)
(* them is unanswered.                                                     *)
Verdict ==
  IF outcome = "approved" /\ run.owed # {} /\ run.how # "deliver" THEN "escalated" ELSE outcome

(* attemptsThatSealed: a delivery opens its pull request under the run     *)
(* whose attempt sealed the judged commit, and publishes nothing where the *)
(* record has none; which attempt sealed which commit is not kept here.    *)
Publishable ==
  /\ Verdict \in {"approved", "escalated"} /\ s.reviewed
  /\ run.how = "deliver" \/ mine # <<>>

(* levelBeforePublish, the push and the pull request. *)
Publish ==
  /\ Goto("ended", "recording")
  /\ Publishable \/ Verdict = "relevelled"
  /\ branch' = [(IF Verdict = "relevelled" THEN branch ELSE MergedUp(branch)) EXCEPT !.foreign = FALSE]
  /\ published' = [head |-> branch'.head, work |-> branch'.work, base |-> branch'.base, judged |-> branch'.judged]
  /\ outcome' = Verdict
  /\ s' = InitialRoundState(FALSE)
  /\ UNCHANGED <<run, mine, through, declined, rounds, disk, starts, limit, base, commits, judgement, answers>>

(* The base conflicts before the publish: no round is left to resolve it. *)
PublishConflict ==
  /\ Goto("ended", "recording")
  /\ Publishable /\ Behind
  /\ outcome' = "base_conflict"
  /\ s' = InitialRoundState(FALSE)
  /\ UNCHANGED <<run, mine, through, declined, rounds, disk, starts, limit, branchVars, judgement, answers>>

PublishNothing ==
  /\ Goto("ended", "recording")
  /\ run.how = "deliver" \/ (~Publishable /\ Verdict # "relevelled")
  /\ outcome' = IF run.how = "deliver" THEN "terminated" ELSE Verdict
  /\ s' = InitialRoundState(FALSE)
  /\ UNCHANGED <<run, mine, through, declined, rounds, disk, starts, limit, branchVars, judgement, answers>>

(* ledger.finish: what no park has written yet. *)
Finish ==
  /\ Goto("recording", "returned")
  /\ Flush(mine, declined)
  /\ UNCHANGED <<s, run, mine, rounds, outcome, starts, limit, branchVars, answers>>

(* The command takes the result to the ticket: a run that stalled or       *)
(* exhausted its rounds leaves its findings with the person.               *)
Return ==
  /\ Goto("returned", "idle")
  /\ answers' = [answers EXCEPT !.finished = @ \/ outcome \in FINISHED_TRYING]
  /\ FreshRun("run", 0)
  /\ UNCHANGED <<disk, starts, limit, branchVars, judgement>>

(* The process dies: what no park has written of its attempts is lost. *)
Crash ==
  /\ at # "idle" /\ at' = "idle"
  /\ FreshRun("run", 0)
  /\ branch' = [branch EXCEPT !.foreign = @ \/ Len(mine) > through]
  /\ UNCHANGED <<disk, starts, limit, base, published, commits, judgement, answers>>

-----------------------------------------------------------------------------
(* Between the run's steps. *)

BaseMoves ==
  /\ Events < MaxEvents /\ base' = base + 1
  /\ UNCHANGED <<at, runVars, disk, starts, limit, branch, published, commits, judgement, answers>>

LimitPasses ==
  /\ limit.ahead /\ limit' = [limit EXCEPT !.ahead = FALSE, !.lowered = FALSE]
  /\ UNCHANGED <<at, runVars, disk, starts, branchVars, judgement, answers>>

(* wait_for_provider_ms is set below what is left of a wait on record: the *)
(* next run reads it, and one asleep is bound by what it was started with. *)
BoundLowered ==
  /\ at = "idle"
  /\ limit.ahead /\ limit' = [limit EXCEPT !.lowered = TRUE]
  /\ UNCHANGED <<at, runVars, disk, starts, branchVars, judgement, answers>>

(* The person answers what they are asked, while no run is under way. *)
Answer ==
  /\ at = "idle" /\ Decidable
  /\ ThePersons \ (answers.shipped \union answers.handed) # {}
  /\ \/ answers' = [answers EXCEPT !.shipped = @ \union ThePersons, !.handed = @ \ ThePersons]
     \/ answers' = [answers EXCEPT !.handed = @ \union ThePersons, !.shipped = @ \ ThePersons]
  /\ UNCHANGED <<at, runVars, disk, starts, limit, branchVars, judgement>>

(* Somebody commits to the ticket's branch, before the run reads it. *)
CommitByHand ==
  /\ at \in {"idle", "starting"}
  /\ Events < MaxEvents /\ commits' = commits + 1
  /\ branch' = [branch EXCEPT !.head = Fresh, !.work = Fresh, !.foreign = TRUE, !.judged = FALSE]
  /\ UNCHANGED <<at, runVars, disk, starts, limit, base, published, judgement, answers>>

-----------------------------------------------------------------------------
Init ==
  /\ at = "idle"
  /\ judgement = [decision |-> "none", open |-> {}, remediable |-> {}, keys |-> {}, verified |-> FALSE,
                  conceded |-> {}, head |-> 0, work |-> 0]
  /\ answers = [finished |-> FALSE, shipped |-> {}, handed |-> {}]
  /\ s = InitialRoundState(FALSE)
  /\ run = [how |-> "run", number |-> 0, owed |-> {}, applied |-> 0]
  /\ mine = <<>> /\ through = 0 /\ declined = NoneDeclined /\ rounds = NoRounds /\ outcome = "terminated"
  /\ disk = <<>>
  /\ starts = [all |-> 0, counted |-> 0]
  /\ limit = [failures |-> 0, named |-> 0, ahead |-> FALSE, lowered |-> FALSE]
  /\ base = 0
  /\ branch = [head |-> 0, work |-> 0, base |-> 0, foreign |-> FALSE, judged |-> FALSE]
  /\ published = None
  /\ commits = 0

Attempting ==
  \/ ConfigurationPresent \/ TransportRetries \/ TransportParks \/ CeilingContinues
  \/ AttemptStops \/ AttemptChangesNothing
  \/ ConflictAfterSeal \/ ConflictStops \/ ResolutionLands \/ RoundCompletes

Judging ==
  \/ VerifyWidened \/ VerifyStops \/ VerifyAdvances
  \/ ReviewRefused \/ ReviewParks \/ ReviewAdvances \/ ReviewStops

(* The run's own steps. *)
RunSteps ==
  \/ Begin \/ BeginRelevel \/ RelevelRefused
  \/ EnterConflict \/ EnterStuck \/ EnterExecutor
  \/ EnterLevel \/ EnterRelevelled \/ EnterRelevelReviewed
  \/ Attempting \/ Judging \/ WaitOver
  \/ Publish \/ PublishConflict \/ PublishNothing
  \/ Finish \/ Return

Next ==
  \/ StartRun("run") \/ StartRun("resume") \/ StartRelevel
  \/ RunSteps
  \/ Crash \/ BaseMoves \/ LimitPasses \/ BoundLowered \/ Answer \/ CommitByHand

Spec == Init /\ [][Next]_vars

(* A live process takes its steps, and a reset the provider named comes.   *)
Fairness == WF_vars(RunSteps) /\ WF_vars(LimitPasses)

FairSpec == Spec /\ Fairness

-----------------------------------------------------------------------------
(* What the code calls unreachable stays so: a round past the ceiling on   *)
(* all rounds, with its remediation past the cap on those (context.ts,     *)
(* index.ts), and an executor briefed with no finding to close (brief.ts). *)
(* Conflict rounds are not remediation, and no count stops them.           *)
RoundsNeverRunOut ==
  at = "enter" =>
    /\ WithinCeiling /\ s.remediation <= MaxRounds
    /\ Confirmed.kind = "remediate" => Confirmed.open # {}

(* A process that may die asleep leaves its attempts behind: a run is only *)
(* parked with every attempt it made on the record, the last with the wait *)
(* it is sitting out, and returns with all of them there; and the attempt  *)
(* a review is judging is still to be written when the review would park   *)
(* on it, so `parkAfter` never refuses (ledger.ts).                        *)
RecordedBeforeSleep ==
  /\ at \in {"waiting", "review_wait"} =>
       /\ disk # <<>> /\ disk[Len(disk)].id = mine[Len(mine)].id
       /\ disk[Len(disk)].wait = limit.named
  /\ at \in {"waiting", "review_wait", "returned"} => through = Len(mine)
  /\ at = "reviewing" => through < Len(mine)

(* Nothing is spent against a limit the record knows of: while a reset an  *)
(* attempt on record waits for is still to come, no executor, review or    *)
(* verification runs, whichever process made the record and whatever died  *)
(* in between (start.ts, parkedWait).  The one exception is a person's: a  *)
(* bound lowered under what is left of the wait, which the next run starts *)
(* now rather than exceed.                                                 *)
NothingAgainstTheLimit ==
  InForce /\ (\E i \in DOMAIN disk : disk[i].wait = limit.named) =>
    at \notin {"enter", "executing", "verifying", "reviewing", "re_reviewing"}

(* The record is what keeps a run to its provider's limits: a run sleeps on *)
(* it only once all it did is there, and spends nothing that it forbids.   *)
LimitsAreKept == RecordedBeforeSleep /\ NothingAgainstTheLimit

(* `rounds` holds one entry a round, in order, and every attempt is named  *)
(* on exactly one of them, whatever superseded it; only a run stopped      *)
(* before its attempt leaves superseded ones unnamed (state.ts,            *)
(* RoundRecord).                                                           *)
AttemptsAreNamedOnce ==
  /\ at \in {"enter", "executing", "waiting"} =>
       s.round >= rounds.next /\ Len(mine) = rounds.named + s.superseded
  /\ at \in {"verifying", "reviewing", "review_wait", "re_reviewing"} =>
       s.round >= rounds.next /\ Len(mine) = rounds.named + s.superseded + 1
  /\ at = "ended" =>
       \/ Len(mine) = rounds.named
       \/ Len(mine) = rounds.named + s.superseded /\ outcome = "terminated"

(* SCP-154: a resumed attempt's diff goes into the worktree once in a run, *)
(* whatever conflicts, outages and ceilings the round takes (brief.ts).    *)
RetainedDiffOnce == run.applied <= 1

(* Findings are closed on the change they were found in: the first round   *)
(* of a run that continues another's starts from the work the record last  *)
(* judged, however the branch moved in between (confirmContinuation).      *)
FindingsAreOfTheBranch ==
  at = "executing" /\ s.kind = "remediate" /\ mine = <<>> => branch.work = judgement.work

(* No pull request shows work that no review and no verification judged:   *)
(* a merge of the base brings in the base's own commits and nothing else   *)
(* (deliver.ts, level.ts), and a branch emptied by its executor none.      *)
PublishedWasJudged ==
  [][published' # published => published'.judged \/ published'.work = 0]_vars

(* The attempts record is appended to and holds no attempt twice, over     *)
(* runs that park, crash, retry and re-level (attempts.ts).                *)
Recorded == INSTANCE AttemptLog WITH log <- [i \in DOMAIN disk |-> disk[i].id]

RecordIsAppended == Recorded!Spec

(* A run that is started ends, under a live process and providers whose    *)
(* resets come: its rounds, retries and ceilings are all bounded.          *)
EveryRunEnds == at # "idle" ~> at = "idle"

(* D-057: a review that could not resolve every criterion has not judged   *)
(* the change, and nothing here can judge it in the reviewer's place       *)
(* (review.ts, routeReview).                                               *)
ApprovedWasJudged ==
  at = "returned" /\ outcome = "approved" => judgement.decision \notin {"incomplete", "error"}
=============================================================================
