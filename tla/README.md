# Perbo, in TLA+

Perbo runs coding agents on tickets: a person writes a spec, a plan is drafted
from it and approved as a ticket, a run lets an executor and a reviewer take
turns on a branch, and the result is a pull request that a person (or the loop)
merges. This directory models the parts of that which several processes share
and no test interleaves, checks them with TLC, and proves the main properties
of eight of them with TLAPS.

The source names below are relative to `src/`.

## 1. Inventory

Everything is files. A repository has a store of tickets, attempts, verdicts,
questions and locks; commands (`apps/cli`) read and write it, each in a process
of its own; a queue (`perbo serve`) starts such commands; the desktop
(`apps/desktop`) starts them too and keeps a profile of its own. There is no
server. What processes share they share through files replaced whole
(`packages/workspace/src/replace-file.ts`), and through GitHub.

| Component | State | Operations | With whom | Hard | What makes it correct |
|---|---|---|---|---|---|
| Record lock `packages/runner/src/record-lock.ts` | `<record>.lock`, `<record>.lock.clearing` | create, judge stale, clear, change under the lock, release | `verdicts.json`, a ticket's egress questions; the person who removes a lock by hand | several waiters clear one lock; a process dies at any step; pids mean nothing on another machine | one change at a time, none lost; every writer ends |
| Run, merge, serve locks `packages/runner/src/lock.ts` | one file per ticket, base or queue | acquire, park, release | the loop, `retained.ts`, `merge.ts`, `serve` | create and write are two steps; take-over of a dead run's lock | one holder; no lock outlives its run |
| Ticket record `packages/contracts/src/ticket.ts`, `ticket-transitions.ts` | state, history, delivery | transition, attribute, hand off, resume | every command | guards on rows; attribution read back from history | history is a path of the lifecycle; the opener on record is true |
| `perbo run` `apps/cli/src/commands/run/index.ts` | the ticket file, run lock | start, refuse, finish, reopen, publish retained work | the loop, `sync`, other runs | result recorded after the lock is let go; process may die anywhere | a refusal returns the ticket; a result is recorded or refused for a reason |
| `perbo sync` `apps/cli/src/commands/sync.ts` | the ticket file | read, ask `gh`, write, reconcile a stranded ticket | GitHub, people, runs, the queue | record read before `gh` is asked and written after | merges true and recorded; nothing rewritten |
| Loop `packages/runner/src/loop/` | round state, ledger, branch, worktree | rounds, seal, verify, review, level, park, publish, record | executor, reviewer, delivery, provider limits, a person's answers | ceilings and retries that meet, crashes and sleeps between records, a branch that moved between runs | every attempt recorded once; ceilings kept; what is published or continued was judged |
| Attempts `packages/runner/src/attempts.ts` | a ticket's attempts record | append, read the last wait, count runs | runs one after another | names minted by a run after one that died | appended to, no attempt twice |
| Delivery `packages/runner/src/delivery.ts` | branch, pull request | push, create or adopt a pull request | GitHub | a pull request already there | not adopted from someone else |
| Merge `packages/runner/src/merge.ts` | merge lock | observe, decide, observe again, merge | GitHub, people, other merges | the pull request, its base and its reviews move between any two calls | merges what was judged; one merge of a base at a time |
| Queue scheduling `apps/cli/src/scheduling.ts` | none | `queueOrder`, `waitsFor` | `serve` | dependencies, overlaps, held states | no ticket waits for ever, no two that overlap run |
| `perbo serve` `apps/cli/src/commands/serve/index.ts` | children, serve lock | tick: sync, merge, decide, re-level, start, draft; pause; drain | every command above | the live set is read three times a tick; tickets change between read and write; children settle in any of them | the ceiling; nothing written over what was not read; no ticket waits for nothing |
| Egress questions `packages/runner/src/egress-questions.ts`, `loop/internal/egress.ts` | a record per ticket; a run's allowed and refused hosts; `.perbo/config.json` | ask, wait, close, answer, allow | the adapter's held calls, `verdict --egress`, desktop | answer against close, window and abort; what the answerer read before the lock; allow list has no lock | one question a run, answered or closed; an answer is acted on; nothing let through or listed that nobody allowed |
| Verdicts `apps/cli/src/commands/verdict/` | `verdicts.json` | record, decline | runs that continue a review | whose review is answered | no verdict lost |
| Ticket store, admission `apps/cli/src/store/tickets.ts`, `admit.ts` | ticket files | key by scan, write, level | desktop, terminal | two admissions scan one store | keys unique |
| Desktop jobs `apps/desktop/src/host/jobs/runner.ts`, `shared/jobs.ts` | active jobs, tails of admissions, saved profile | start, stop, shut down, crash, open | routes, CLI children, editing receipts | promise chains, aborts, saves that throw, closing | lanes, turns, stops and outcomes stand; all ends |
| Desktop planning `shared/contract-editing.ts`, `host/plan/drift.ts`, `host/routes.ts` | editing sessions, readings | submit, land, re-read, re-plan | jobs, ticket files | a reading lands on an edited plan; delete before re-admission | receipts match their jobs |
| Interview `host/interview/host.ts` | session, child process | start, turn, stop | model provider | stop against launch | one session |
| Review, planning, model, workspace, evaluation, renderer | | prompts, parsing, adapters, worktrees, display | | I/O and text | |

## 2. The modules

| Module | What it is |
|---|---|
| `SerialRecord` | What a locked record promises: one whole change at a time, for as long as nothing is broken. |
| `RecordLock` | The record lock, step by step; implements `SerialRecord`. |
| `RecordLockProofs` | Its theorems. |
| `PidLock` | The run lock, step by step. |
| `PidLockProofs` | Its theorems. |
| `TicketRecord` | Pure: the lifecycle table, transitions, walks, reopening, attribution. |
| `TicketFile` | One ticket's file under `perbo run` and `perbo sync`, with GitHub and people; extends `TicketRecord`. |
| `TicketFileProofs` | Its theorems, and the lemmas about walks of the lifecycle they rest on. |
| `AttemptLog` | What a ticket's attempts record promises: appended to, no attempt twice. |
| `Loop` | The runs of one ticket, round by round, with crashes, parks, answers and re-levels; implements `AttemptLog`. |
| `LoopProofs` | Its theorems. |
| `LoopMerge` | The loop merging pull requests into one base. |
| `LoopMergeProofs` | Its theorems. |
| `Scheduling` | Pure: the queue order, and what each ticket waits on. |
| `Serve` | The queue over a store, with its children, runs by hand and people; extends `Scheduling`. |
| `ServeProofs` | Its theorems. |
| `JobRunner` | The desktop's jobs. |
| `JobRunnerProofs` | Its theorems. |
| `EgressQuestions` | The one question a run puts to a person about a host, from the held call to the allow list. |
| `EgressQuestionsProofs` | Its theorems. |
| `MC...` | Instances for TLC. `MCTicketRecord` holds the recursive search that `Reopen` is compared with; it is kept apart because nothing can be proved beside a recursive operator. |

An action is a run of code no other process can come between: one system call
where another process sees the difference (`openSync` and then `writeSync`), a
whole handler where it awaits nothing. Two steps of that rule are assumptions:

* a command that reads the ticket and replaces it with nothing awaited between
  is one action of `TicketFile`. Two processes could interleave inside even
  that; the window is microseconds against the minutes of the ones modelled,
  and modelling it would only add more of the stale writes a sync makes.
* replacing a file (`replaceFile`: write beside it, rename) is one step.

### RecordLock

`lock` is the file (its holder's token, or `None`), `breaker` the `.clearing`
file; `pc` says where each writer is in `acquire`, `clearStale`, the change and
the release, and `held` what it read. `Create`, `Look`, `Judge`, `Break`,
`Reread`, `Rename`, `Unbreak`, `Pause`, `Refuse`, `ReadRecord`, `WriteRecord`,
`Check` and `Remove` follow the source's lines in order. Time is one bit per
writer (`Expire`); a process may die at any step (`Crash`) and a person told to
remove a lock and its `.clearing` file by hand may (`PersonClears`), where the
process is gone, as the message tells them (record-lock.ts:66-72): that they do so
only then is an assumption, and a person who does not breaks everything. `alive` is
true of a writer on another machine, and may be true of a pid that was reused.
`record` and `wrote` are sets of writers, whose change is in the record and was
written: the one the record holds and the one the callers believe. `stolen`
is history: a live holder's lock was moved aside.

### PidLock

The same for `acquireRunLock`: `OpenExclusive` and `Fill` are the two halves of
`writeLockFile`, with the file empty between them; `Read`, `Judge`, `Over` the
path of the one that found a file; `Park` truncates and fills again; `Release`
reads and `Remove` removes. `overlap` is history: a claimant's file was
overwritten while the claimant lived. The merge and serve locks use the same
`writeLockFile` and so have the same window; `LoopMerge` takes its lock in one
step.

### TicketRecord, TicketFile

`TICKET_TRANSITIONS` is the table row by row, with its guards. A note is what
it says and the state it names: those are all that the code reads back. Numbers
of pull requests are positions in the branch's list of them. `Reopen` is
`reopen`'s search, which the table makes short (no state is two hops away;
`ReopenIsTheShortestRoute` would fail otherwise), `ApplyObservedPath` the walk
that skips rows the table does not have (`Walked` is where it is after each
step), `RecordDelivery` and `WrittenDelivery` what a run and a sync write.

`TicketFile` has for each run where it is: `idle`, `started` (the ticket says
`provisioning`), `locked`, `owed` or `judged`, `opened`, `returned`, `ended`;
and for each sync the record it read and what `gh` said. The loop is three
actions, `Judge` (any result the loop can end with), `Open` and `Return`; the
run lock is a variable with one owner, `PidLock` being about whether it is.
A run may die anywhere, a sync at most forgets. People open, merge, close and
reopen pull requests at any time. `mishaps` is history: what went wrong that no
later step can see, and that some properties except: a sync wrote a record it had
read before someone else's write (`stale_write`), or wrote under a live run
(`written_under_a_run`); a run was started over a settled ticket while another had
yet to be judged (`restarted_under_a_run`); a person's pull request was adopted, or
the loop's own was left off the record (`opener_lost`); a run recorded a pull
request older than the one on record (`older_pull_recorded`); a sync took an answer
of `gh` it could not read for a branch without a pull request, and wrote that over
the number and the opener on record (`pull_erased`). `RefusalReturns` is what a
refusal keeps to outside two of these. A sync that asked is answered (`Poll`, then
`SyncWrite` with whatever happened in between), meets silence, which writes nothing
(`PollSilent`), or gets an answer it cannot read, which does (`SyncErases`: asking
and writing are one step there, since nothing in the answer is of a moment; the
record it writes over is still the one read before).

Left out: re-levelling and the record of one that failed (`Serve` has that),
publishing retained work, the loop's own merge, parked waits, and runs of work that
is no ticket. What happens between `Judge` and
`Open` is `Loop`'s.

### Loop, AttemptLog

`s` is `RoundState`, replaced whole by each step as in `state.ts`: `Advance`,
`RetryTransport`, `RetryCeiling` and `Reenter` are `applyStep`'s cases. `at` is
where the run is between two awaits. `mine`, `through`, `declined` and `rounds`
are the ledger; `disk` is the attempts record, `judgement` what the record says
of the last review and of the verifications since, `answers` what a person said
of it. A commit is a number and carries the work it holds past the base: `branch`
has its head, that work, the base it holds, and, as history, whether the work was
read by a review or a verification; `published` is the same of the pull request.
A merge of the base makes a new head over the same work. `Fresh` is a number no
head or work goes by, which is all a new sha is to the code.

The actions follow `runLockedTicket`: a start (`StartRun`, `StartRelevel`,
`Begin`, `BeginRelevel`, `RelevelRefused`), the top of a round (`Enter...`:
`confirmContinuation`, `levelBeforeExecutor`, `briefRound`, `judgeRelevel`), the
end of an attempt with its seal and its routing (`Transport...`, `Ceiling...`,
`Attempt...`, `Conflict...`, `ResolutionLands`, `RoundCompletes`), verification
(`Verify...`), review (`Review...`), the wait for a reset (`WaitOver`), and the
end (`Publish...`, `Finish`, `Return`). What an executor, a reviewer, a verifier
or `git merge` comes to is a choice. `Crash` may end a run at any step; the base
moves, a person answers or commits to the branch between runs, and a provider
fails or names a reset. `limit` is the last reset named: whether it is still to come
(`ahead`) and whether somebody has since lowered `wait_for_provider_ms` under what is
left of it (`BoundLowered`, between runs: one asleep keeps the bound it was started
with). A run sits out a recorded wait that is `InForce`, and starts at once against
one that is longer than its bound, as start.ts:192-200 does. Where
`restoreJudgedCommit` finds no such commit on the branch it leaves it where it is
(`VerifyWidened` chooses).

Left out: cancelling, provisioning, the critic and what any of them costs beyond
one unit an attempt, checks that are named one by one, the content of briefs and
of pull requests, which attempt sealed which commit (`attemptsThatSealed`), and
the merge a publishing run asks for at once.

### LoopMerge

`merger` is where each process is between the calls of `mergeLoopPullRequest`,
and what it read: `ReadFirst`, `TakeLock`, `ReadAgain`, `Merge`, `Return`. A
pull request is its state, its checks, and the heads a review approved; a branch
is its commits, each by the loop, unsigned or by a person, of some content and
holding the base up to some tip; a commit of the base touches the scope of some
pull requests. `Carries` is `carriedApprovals`: the same content, and nothing in
the scope between the two bases. The decision is made of the first reading, under
the lock, as in the source; where it would stop, the lock is taken and let go in
one breath, and the action is not taken. `gh pr merge` may always refuse (`Merge`).

Left out: the switch and the credential, which come before any reading, a `gh` that is
given up on or outlives the process that ran it and merges after the lock is let go
(merge.ts:419), force pushes, GitHub's `unknown`, and two spellings of one base (the
lock is named by the spelling).

### Scheduling, Serve

`plan` is what people wrote and approved: the dependencies, which pairs of scopes
overlap by their globs, and whose globs a ticket's sealed paths reach. `QueueOrder`
is `queueOrder`'s walk as a recursive function; `Ahead` is read off it once.

`queue` is what `runTick` holds across its awaits. The tick is cut at them: `Tick`
(fetch, first reading of the live runs, the list to sync); a ticket at a time
`SyncReads`, where `perbo sync` reads the record and asks `gh`, and `Sync` or
`SyncMerges`, where it is answered and writes that reading back whole (`WritesBack`),
with anything in between: a child's promise, a run, a person; `ReadStore`, `Decide`
(after the git reads of what was sealed); a branch at a time `LevelLooks`, where a pause
is seen and git asked where the branch stands, and `LeaveLevel`, `Relevel` or
`LevelEnds` on its answer; `Start`. `ChildExits` is a child's promise, which may settle
in any of these; `Signal`, `Drain`, `Stop` and `Pause` are `serve`'s own. `snap` is the
tickets as the tick read them; `changed` is history: which records were written since,
and which of those writes stamped the record (`withReconciliation` does not). A run is
what `perbo run` writes and holds: it moves the ticket, takes the lock, publishes or
fails, lets the lock go and records. A run that is refused before it moves the ticket,
or refused the lock after, leaves the ticket where it is: `refused`, which puts one
back, is called for answers a person owes alone (run/index.ts:1361), and that refusal is
under the lock (`RunFails`, then `RunFinishes`). Refusals are otherwise `Dies`, which is
any end of a process that records nothing. `tried` is history: tips a branch's re-level
failed at; `erased` those of them whose record a sync wrote over, until the failure is
recorded again.

GitHub answers a sync as of the moment the sync writes: what happens between the two
is in `TicketFile`, where the answer is kept apart.

Left out: drafting an issue (the tick's last step), `perbo sync` typed by hand while
the queue runs, a spec that changed under a plan (which sends the ticket to
`plan_invalid`), whose pull request it is that the queue would re-level, `--once`,
`--publish` not given, re-levels started by hand, a queue that is restarted while its children
live, and a contract that cannot be read.

### JobRunner

Jobs are numbered as they are started, 1 to `MaxJobs`. `at` is where a job is in
its promise chain: it waits behind an admission, operates, is told, or is done;
`state` is what memory says of it, `disk` what the saved profile does, `aborted`
the abort signals, `ahead` and `tail` the chain of admissions (`admissions` in the
source), `awaited` what `shutdown` waits for. The host has one thread: `Start`
is the whole of `start` (its promises run before any other request), `Lands`
goes from the operation's end to the save of the outcome, with only microtasks
between, and `Tell` is what is awaited after it; the job stays tracked until that
settles. Saving or telling may throw in `start`, in `cancel` and at the end
(`Throws`), saved or not. `Open` is `Profile.open`. The profile is saved whole,
so each save writes what memory says of every job.

Left out: the journal's bound of forty (the bound here is three), the texts of
logs and errors, and the receipts of editing sessions.

### EgressQuestions

A call is a tool call the adapter holds because it names one host off the list
(one that names several asks about each in turn, as several calls). `at` is where
it is: it waits for another call's answer (`waiting`), for its own (`held`), its
window is over and it is about to close its question (`late`), or it acts on an
allow (`listing`); `verdict` is what the adapter made of it. `pending` of
`RunEgressQuestions` is the call in flight (`Asking`), and `asked`, `allowed`,
`refused` and `profile` are its fields. `question` is a call's question on its
ticket's record, with the answer and the close in fields of their own, as on disk:
that they exclude each other is a property. A run has one thread, so after its last
read of the record it closes or settles before anything else of it happens (`Busy`),
while other processes do as they like: `Poll`, then `Close`; `Settle`, which reads
the list, then `WriteList`. `Begin` and `Answer` are one `perbo verdict --egress`,
which reads the live runs and the time before it waits for the record's lock.
Each change under that lock is one action here, since the lock is `RecordLock`'s
subject; what that module shows to go wrong with it is assumed away here.

Files may fail: the record as a question is put (`Put`), read (`PollFails`) or closed
(`CloseFails`), the list as it is written. A close that failed, or a record that could
not be read, leaves the question open with nobody waiting on it; these are the calls in
`unclosed`. `orphaned` are those answered when nothing waited on them. A run's start
reads the refusals and the list in one step; between its lock and that reading
nobody can ask anything of it.

Left out: how a question is named and shown, host names beyond being plain or not,
and asks that never reach the gate because the stream does not show the call.

## 3. The runs

| Run | Instance | States | Shows |
|---|---|---|---|
| `record_lock_safe` | 3 writers, one on another machine | all | `ExclusiveUnlessStolen`, `FirstTheftOfAnAbsentLock`, `SerialSpec`, `EveryWriterEnds` |
| `record_lock_lost` | 3 writers on one machine | to the violation | `NoLostUpdate` fails |
| `pid_lock_safe` | 4 runs, one on another machine, symmetry of the other three | all | `LockIsItsRuns`, `FirstOverlapIsUnread` |
| `ticket_file_runs` | 2 runs, 1 sync, 1 pull request; the search, over every state and delivery record a guard reads | all | history, refusal, result, opener, `ReopenIsTheShortestRoute` |
| `ticket_file_pulls` | 1 run, 1 sync, 2 pull requests, after a failed run | all | merges, resumption; liveness |
| `job_runner` | 3 jobs, 2 launches, 1 failure | all | lanes, turns, stops, outcomes; liveness |
| `loop_rounds` | 1 run, 2 findings, 2 remediation rounds, 1 event, unmetered | all | ceilings, the run ends |
| `loop_runs` | 2 runs, 1 finding, 1 remediation round, 1 event, a metered budget of 2, crashes | all | records, names, limits, diffs, findings, what is published |
| `loop_unjudged` | 2 runs, 1 finding, no event | to the violation | `ApprovedWasJudged` fails |
| `loop_merge` | 2 processes, 2 pull requests, 3 commits a branch, 2 events | all | the lock, the second reading, what is merged |
| `serve_queue` | 2 tickets, 7 plans, a ceiling of 1, 1 event | all | the ceiling, decisions, re-levels, starts; nobody waits for nothing |
| `egress_ticket` | 2 runs of a ticket, one after another, 3 calls, 2 hosts, 1 person, 1 event | all | one question, answers that decide and stand, refusals remembered; every call settled |

Bounds, and why they are enough to be interesting:

* Writers and takers (3, 4): a holder, one that judges its lock stale, and one
  that takes it between that one's reading and its clearing; the fourth run lock
  taker is on another machine, where pids mean nothing. The proofs need no bound.
* `MaxPulls` 2: a pull request that is replaced by a second one after it was
  closed or merged. Two runs with one pull request, and one run after an earlier
  one (`EarlierRun`) with two, are separate runs because together they are too
  many states. `ErasedAlone` bounds the first of them: a behaviour in which a sync wrote
  an answer it could not read over a pull request is followed for as long as nothing
  else goes wrong in it. The second, and the theorems, follow every one.
* `MaxJobs` 3: one that operates, one that waits behind it, and one asked for
  once the first has ended: the fewest for a tail forgotten too soon.
  `MaxLaunches` 2: a crash and what the next launch makes of it.
  `MaxFailures` 1: saving or telling throws once; two failures are two jobs that
  failed. Commands are admissions and readiness checks, which name no ticket;
  the rule for commands that do name one is covered by `TicketsTurns`, which
  is proved for any keys.

* `Loop`: `loop_rounds` has two findings, so that a round may close one and leave
  one, and two remediation rounds, so that one is earned by a verification and one
  refused; `loop_runs` has a second run after one that crashed, parked, published
  or ended, and one event is an outage, a named reset, a move of the base or a
  commit by hand. Two events at once are the reason for the proofs.
* `LoopMerge`: two commits past the first let an approval carry over one re-level
  and be lost at the next; two events are, for instance, a move of the base and a
  push, or a death and a merge by a person.
* `Serve`: the plans are chosen: apart, overlapping with sealed paths that do or do
  not reach the other, a dependency in and against the order, a ring, a key nobody
  admitted. A ceiling of one makes the second ticket wait for room. One event is
  one of everything people and the world do; the tick's own interleavings with two
  runs are not bounded. One event is also an answer of `gh` that is silent or cannot be
  read; erasing the record of a failed re-level takes no event, only a promise that
  settles while a sync waits.
* `EgressQuestions`: two calls in a run are one that asks and one that waits for its
  answer, or asks in a later attempt; the third is in the run that comes after. One
  host is plain and one is not, and each may be named by any call. An event is a
  death, a file operation that fails or an edit of the list by hand: one is enough
  for a run to be followed by another over an answer in flight. Attempts are not
  bounded, nor is how often a person begins an answer and leaves it. Runs of several
  tickets that write one list at once are not in the instance, but any number of them
  are in the theorems.

Liveness runs use no symmetry. No run spends its time on `TypeOK`: each module's is
proved (`TypeCorrect`).

### Fairness

* `RecordLock`: each live writer goes on (weak fairness of its steps), and its
  deadline passes. `acquire` is a loop in one process with a clock; nothing in it
  waits for anyone beyond its deadline. No fairness of `Crash` or `PersonClears`.
* `TicketFile` (`FairSpec`): the queue syncs a ticket at `pr_open` on every tick, and
  GitHub answers one that asks again and again (strong fairness of `Poll`, since each
  read may meet silence or an answer that cannot be read). A run is never assumed to go
  on, nor a person to do anything. The third conjunct says a sync that was answered
  writes, without `ENABLED`, which TLC evaluates slowly on that action.
* `JobRunner`: a job's chain goes on. Its operation is a CLI process which ends by
  itself, by its abort, or by `COMMAND_TIMEOUT_MS`, so `Return` is fair; the rest
  are promises. `Quit` is fair once closing began. Nobody need start or stop.

* `Loop`: a live process takes its steps, and a reset the provider named comes.
  Nothing is assumed of a person, of a start or of the base.
* `Serve`: the queue's process and each child go on, which the sleep between ticks,
  timeouts on every `gh` and git call and the loop's own bounds (`EveryRunEnds`)
  justify; a child's promise settles. People, signals and pauses owe nothing, and the
  property names each case in which the next move is a person's (`PeopleOwe`), and
  the one in which the queue itself goes round and round (`AboutToErase`).
* `EgressQuestions`: a live run's event loop turns: of a call there is one next step at
  a time (`Wake`; `Poll` or `Close`, which are one loop, so that an attempt that stops
  cannot starve it; `WriteList`). A window's time passes; it is watched only while the
  question is open. The poll is every second (`pollMs`), and the abort ends its pause. A
  person owes no answer.

`CHECK_DEADLOCK FALSE` everywhere: writers, runs and jobs end and the number of
each is bounded, so every model stops in the end.

## 4. What does not hold

Two runs expect a violation; each is a shortest trace of one real disagreement
between the code and what it says of itself.

1. `record_lock_lost` — `clearStale` compares by token but moves by path, and a
   waiter that read no lock at all compares `null` with `null`. What it then
   renames may be a lock taken since. Until that happens everything holds
   (`ExclusiveUnlessStolen`, `SerialSpec`), and it only ever starts that way
   (`FirstTheftOfAnAbsentLock`).
2. `loop_unjudged` — a review that came to `incomplete` has judged nothing, and
   inside one run the round that answers it is reviewed again. A run that
   continues from such a record does not know: `remediationToContinue`
   (continuation.ts:68) hands its findings to a round with `reviewingAgain` false,
   which is verified, closes them, and ends approved.

Shown by the runs as an exception a property makes, or on the way to it:

* two runs that start at once may both hold the run lock: the file exists before it
  says whose it is (lock.ts:174), and a reader in between takes it for a dead run's.
  `parked` opens the same window, and two takers of one dead run's lock are the other
  way in (`FirstOverlapIsUnread`). The merge and serve locks are written alike;
* `perbo sync` writes the record it read before it awaited `gh` (sync.ts:673); a row
  a run wrote meanwhile is gone (the stale write that `TicketFile`'s properties
  except). `perbo serve` looks again before such a write (serve/index.ts:604);
* so is the failure of a re-level. The tick syncs every open ticket, one whose re-level
  is running among them (serve/index.ts:533-542), and where the child's promise records
  the failure (704-719) while that sync waits for `gh`, the sync writes the ticket back
  without it. The next tick re-levels the branch at the same tip, where the comment at
  636-638 says it does not (`RelevelledOnceATip` excepts a tip so erased). At a ceiling
  of one this can go on for as long as each failure falls into a sync, and nothing new
  is started meanwhile (`NobodyWaitsForNothing` excepts it by `AboutToErase`);
* a `gh` that succeeds and prints what cannot be read, or names no state, is taken for
  an answer: no pull request (delivery.ts:962-970). On a stranded or a failed ticket
  nothing is written; on any other, an open one among them, the number and the opener
  on record are (sync.ts:567-580, 673), and the next sync takes the loop's own pull
  request for one a person handed off (`pull_erased`, which
  `OpenerIsTrueWhereNothingWasLost` excepts);
* a run whose configured bound is less than what is left of a wait on record starts at
  once, against a limit that is still in force (start.ts:192-200). The code means to,
  and says so as it does; `LimitsAreKept` excepts a bound that was lowered, and no
  other;
* the row `independent_review -> pr_open` of a reconciliation is read back as the
  loop's own (ticket.ts:828), so a pull request whose opener was unknown becomes the
  loop's at the next sync (`OpenerIsTrueWhereNothingWasLost` excepts it of a ticket that
  was reconciled; that no pull request of the loop's is handed to a person holds there
  too);
* a refused run is to undo its own start and no other (run/index.ts:244-251), and knows
  that start by the note of the last row (839), which names the plan and not the run.
  Every run of the plan writes the same note, and a run moves the ticket before it takes
  the lock. A run started over another, and refused once that one has finished and a
  third has started, takes the third's row for its own and returns the ticket to a state
  it never found it in (`RefusalReturns` excepts it, and is proved without a bound on the
  runs);
* an answer is taken if a run that started no later than the question was live when the
  command looked (verdict/index.ts:921), which is before it waits for the record's lock.
  A run that dies meanwhile, and another that starts and reads the record, leave a
  refusal on it that the second does not know: it asks about the host again, where
  egress.ts:45-46 says it never does. What a run was waiting for is remembered
  (`RefusalsAreRemembered` excepts the others, which are `orphaned`);
* a command that starts while Perbo is closing is neither cut off nor awaited
  (runner.ts:241); its record stays `running` on disk and the next launch calls it
  `interrupted`, as after a crash (`LiveJobsAreUnderWay`).

Met while modelling, without a run of their own:

* a plain `failed -> pr_open` row, which ticket-transitions.ts:130-139 keeps for
  evidence, is reached by two overlapping runs or after a stale write
  (`ResumedOnEvidence` excepts the second; the run that checks it has one run, and
  the theorem supposes that no two are under way at once);
* `createPullRequest` adopts a pull request a person opened on the branch, and
  `recordDelivery` then says the loop opened it (delivery.ts:682-687;
  `opener_lost`);
* a run that publishes, dawdles, and records its pull request after a later run has
  recorded a newer one puts the older number on record, and the next sync writes
  the newer one down as handed off, the loop's own as it is (`older_pull_recorded`,
  which `OpenerIsTrueWhereNothingWasLost` excepts: it takes two pull requests, one more
  than the run that checks that property has, and shows only in the proof);
* a reconciliation walks through `independent_review` on a completed attempt,
  reviewed or not;
* a run's result is refused, and nothing of it recorded, where another command
  moved the ticket, or where the gate closed with no judged round of its own
  (loop/internal/route.ts:186-197; `OnlyAMovedTicketRefusesAResult` excepts both);
* `perbo sync` reconciles a ticket whose run is alive: STRANDED_STATES are judged
  by the state alone;
* a job that completed and was saved as completed becomes failed in memory, and
  at the next save on disk, when telling it throws (runner.ts:187-189;
  `OutcomesStand` excepts it);
* `gh pr merge` names no head, so a push after the second reading is merged
  unreviewed (merge.ts:399-413; `MergesWhatWasApproved` excepts it, where
  docs/11-open-decisions.md:339 does not), and neither the checks nor the verdicts
  are asked for again by that reading;
* a run started by hand that has written `provisioning` and not yet taken its lock is
  not among the live runs, and a ready ticket is not read again when it is started
  (serve/index.ts:739-773): the queue starts a child for it too, which moves the
  ticket once more and is refused only by the lock. `StartsAreClear` excepts what was
  written since the tick read the store. The same hole takes a ticket that moved while
  the queue decided and is `ready` again (602-612);
* a sync whose merge landed and whose reading then failed reports no merge, and the
  tick asks a second one in the same tick;
* two tickets over one scope may run at once when the one ahead, settled when the
  later started, is reopened;
* a stranded ticket whose run died with no pull request holds its place until a
  person moves it (`PeopleOwe`), and a queue that drains waits for a child that waits
  for a person (serve/index.ts:1002);
* what an attempt declined is lost to the verifier of its round when the attempt is
  superseded or a conflict interrupts it (verify.ts:321-334 reads the last one's);
* a run of no remediation rounds that continues findings takes one (`MaxRounds` is
  positive here for that reason);
* a re-level that dies before it records anything leaves its name to the next;
* a ledger of priced and unpriced attempts bounds no continuation over a ceiling
  (`Spend` is of priced ones);
* a call that asks as its attempt stops, or whose question could not be put on record,
  spends the run's one question (egress.ts:106): every later host is refused;
* the configuration is read (egress-questions.ts:175) and replaced whole (184) under no
  lock. Two runs of a repository that act on an allow at once lose one host; so does a
  person who edits the file in between. Nothing comes onto the list that way that nobody
  allowed (`ListedWasAllowed`, proved), but a host a person took off comes back;
* an allow whose run dies before it acts is on the record and on no list, so a later run
  asks again;
* `RunEgressQuestions.refused` never decides anything a run learns itself, since it has
  asked its one question by then; it is for what earlier runs were told;
* a base that moves again while a conflict is resolved ends the run as if the
  resolution had failed (route.ts:225-257).

## 5. What is proved

For every set of writers, machines, takers, commands, repositories and findings, every
number of jobs, runs, rounds and attempts; no bound of the runs is used. TLC found each
inductive invariant to hold before it was proved. Each proof is the same three facts:
`Init => IInv`, one step per action for `IInv /\ [Next]_vars => IInv'`, and what follows
from `IInv`.

* `RecordLockProofs`. The type invariant alone says nothing of who holds the lock.
  `IInv` adds, while nothing was stolen: the lock file names the one holder there
  is, a writer that read the record under it read all that was written, and a
  clearer holding the right to clear has judged a lock whose writer is dead, or
  none. From it: `TypeCorrect`, `Exclusion`, `FirstTheft` (as an action property:
  a clearer that judged a dead writer's lock cannot be the first thief), and
  `Refinement`, the refinement of `SerialRecord` by mapping `broken` to `stolen`.
  Assumes that writers are not `None` and are on machines (`WritersAssumption`).
* `PidLockProofs`. `IInv` adds, while there was no overlap: one claimant, whose
  file it is, empty only while that one fills it; a file without a claimant is a
  dead run's; a taker over a named run is over one that is gone. From it:
  `TypeCorrect`, `Exclusion`, `NoLockLeft` (together `LockOfItsRun`), `FirstOverlap`.
* `LoopProofs`. `IInv` is the types, the invariants the runs check and what each of them
  needs. `WithinCap` bounds every round by twice the remediations before it and two
  more, and one less for a round that closes findings, because a resolution may follow
  each; the part that needs care is the run's first round, where a conflict met before
  the executor (`Briefed` keeps the brief it interrupted) takes a round of its own, and
  only while no attempt was made. `AttemptsAreNamedOnce` is inductive, and gives the
  others that a judged run made an attempt. `DiffIsApplied` says which states may still
  ask for the retained diff, and that it was not applied there. `Written` and
  `LimitIsOnRecord`: what a sleeping run waits for is the wait of the last attempt on
  record, and nobody but a run asleep or none sees a reset come, while the bound was not
  lowered under it (`InForce`). `HeadsCarryTheirWork`, `ContinuesTheRecord` and
  `SeenByAReview`: one head carries one work wherever it is named (a new one is named by
  nothing, `FreshIsNew`), findings are continued from the record before anything else
  happened, and what the record judged, the pull request shows, or a run ends with an
  answer on was seen by a review. `IdsOfTheRun` orders the attempts of a run by round,
  ceiling and transport retry, and `IdsOnRecord` says that those on record under this
  run's number are those it flushed. From it: `TypeCorrect`, `RoundsAreBounded`,
  `SleepsOnTheRecord`, `LimitsAreSatOut` (with it, as `Limits`), `NamedOnce`,
  `AppliedOnce`, `ContinuedOnTheirWork`, `JudgedBeforePublished`, and `RunsAppend`, the
  refinement of `AttemptLog`.
* `LoopMergeProofs`. `IInv` adds: a base only grows and a branch holds no more of it
  than there is; a merger's second reading is no later than the base's tip, and
  between that reading and its merge nobody else's lock means nobody else's merge;
  what it decided of the head it read is still so of that head, since commits and
  approvals are only added. From it: `TypeCorrect`, `LockFollows`, `NoMergeBetween`,
  `ApprovedIsMerged`.
* `ServeProofs`. `IInv` adds: in a tick every child is among the runs it knows of (so
  each start is counted, whatever the locks said); a record written and not stamped
  since the tick read it is of a child it knows of (so `Decide` leaves it alone); a tip
  a re-level failed at is on the record until the branch is level there or a sync has
  written over it, and what the tick read of that record is still so for the branches it
  has to look at, since the syncs are over by then; a record nobody wrote since is as
  the tick read or decided it, and of the tickets to be started those have nothing in
  their way but what was written (`ReadyIsClear`: the decision was made on the other
  states, but it only moves tickets between ready and blocked, and `SameInTheWay` says
  that this changes nobody's way); a run by hand that asks for the lock has moved its
  ticket, and nothing moves one back to be decided on, nor does a sync, whose reading
  was of a ticket that had moved too. From it: `TypeCorrect`, `Ceiling`,
  `DecisionsYield`, `OneRelevelATip`, `StartsInTheClearOnly`. Assumes of `QueueOrder`
  that it orders the plans there are (`OrderAssumption`, which TLC evaluates): it is
  recursive, and what it computes cannot be proved.
* `JobRunnerProofs`. `IInv` adds: a job is live exactly while it waits or
  operates; commands in one another's way are not both live; the tail of a
  repository is the last of its tracked admissions; an admission with an earlier
  one before it waits, for an admission no earlier than that one; what is saved
  is what is known, or older. The fourth is what makes turns work without any
  induction over the chain: a job only ever needs to look at the one ahead. It
  needs the third to be established when an admission joins. From it:
  `TypeCorrect`, `TicketsTurns`, `AdmissionsTurns` (together `Turns`), `NoJobIsLeftLive`,
  `SavedOutcomes`, `StopsAreKept`.

* `TicketFileProofs`. A ticket is moved by walks, so the proof has two parts.

  What a walk does. `ApplyObservedPath` takes the steps the table has and skips the
  others; `Walked` is a recursive function, which can be reasoned about, where a
  fold cannot. `StepAlong` is one step and `WalkAlong` all of them, by induction
  over the set of positions reached (`SetInduction`, from the least element of a
  set of numbers: the library's induction theorems take an operator). It gives that
  a walk only appends legal rows, whatever path it is given. `FromProvisioning`
  follows the paths a run's result can ask for, to the end each names. Above them is
  one lemma for each of the source's functions: `Begins` (`starting`), `Refuses`,
  `Finishes`, `Resumes`, `Settles`, `DeliveryRecorded`, `DeliveryWritten`,
  `Reconciles`. Their conclusions are predicates with a name (`Begun`, `PutBack`,
  `Finished`, `IsReconciledFrom`), so that the proofs of the actions never expand a
  walk again.

  What holds between them. `IInv` is the types, that every record of the ticket, the one
  on file and each that a sync still holds, is a path of the lifecycle (`Lifecycles`: a
  stale write puts back an old record, so the old ones must be legal too), and that no
  number is on record before its pull request exists (`Numbers`). Each further property
  has an invariant of its own beside it. `Merges`: a merge that was read or reported and
  is still to be written is true as well. `Judged`: what a run knows of its result once
  it was judged. `Settling`: while nothing was moved under a run, every run that may
  still be refused found the ticket in the state the last two rows name, so whichever
  start a refusal undoes it returns to the same place. `AloneIsEvidenced`: besides the
  evidence of each row, that nothing is at `failed` while a run is under way, since a
  walk from there would take the plain row. `Openings`, while nothing was lost, has
  three parts: each number in a run's hand is of the loop's own pull request
  (`InHandAreOurs`); a number on record that is not credited to the loop is a person's,
  and every one of the loop's is on record, older than the one on record, or in hand
  (`HandedIsTheirs`), which is what makes "not ours, so handed off" a sound guess; and,
  until a stranded ticket is reconciled, the opener of a number on record is known, and
  what is credited to the loop is the loop's (`OpenerIsKnown`). From them:
  `TypeCorrect`, `HistoryIsLegal`, `MergeIsTrue`, `ResultReachesItsEnd`,
  `ResumedOnItsEvidence`, `RefusalPutsBack`, `OpenerIsTrue`.

  `ResumedOnItsEvidence` supposes `[]OneAtATime`, that no two runs of the ticket are
  under way at once. The code does not see to that by itself: the lock serialises
  the loops, but a run moves the ticket before it has the lock and records its
  result after it let go. Where two overlap in those windows the property fails, as
  section 4 says; the theorem is about one run after another, any number of them,
  beside any number of syncs and people. The other six suppose nothing.
* `EgressQuestionsProofs`. `IInv` adds: a ticket has one live run; what a call's place
  says of its question (`Places`: it is in flight only with a question on record, which
  spends its run's one, and a closed question is unanswered and its call done); a run's
  allowed hosts are ones a person allowed it (`AllowedByAPerson`); every copy of the
  list, the one on disk and each a run has read, holds only what was put there by hand
  or allowed (`CopiesWereAllowed`: a stale write puts back a copy, so copies must be
  good too); and a live run that has not asked yet knows every refusal a run waited on
  (`KnowsRefusals`). The last needs the first: a refusal given while a run waits is
  given to the one live run, which has asked. From it: `TypeCorrect`, `NeverBoth`,
  `OneQuestion`, `OpenOnlyForAWait` (together `WaitedOn`), `ActedOn`, `LetThrough`,
  `Listed` (together `Decides`), and as action properties `FirstWordStands` and
  `Remembered`. The types are not inductive alone: what becomes of a host rests on
  `Places`, that every call made names one. Assumes that runs and calls are of tickets
  and runs, and that no answer is `None` (`EgressAssumption`).

Only model-checked: `ReopenIsTheShortestRoute` (the search is recursive) and all
liveness (`EveryWriterEnds`, `MergeIsRecorded`,
`EveryCommandEnds`, `EveryRunEnds`, `NobodyWaitsForNothing`, `EveryAskEnds`): liveness under
fairness and `ENABLED` are out of the prover's reach, and so are `RECURSIVE`
operators and what a fold computes for every sequence.

## 6. Plan

What is left, in order of what the system can least do without:

1. That a run of `Loop` implements the three actions `Judge`, `Open`, `Return` of
   `TicketFile`.
2. `ContractEditing` with `JobRunner`: receipts, drift readings that land on an
   edited plan, re-planning.
3. Admission: keys by scanning the store, by two processes.

Not modelled, and not planned: the renderer (presentation), model providers and
worktrees (I/O), review and planning prompts and parsers (text), evaluation and
tooling (offline), and the schemas of records nothing above reads.
