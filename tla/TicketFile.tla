----------------------------- MODULE TicketFile -----------------------------
(***************************************************************************)
(* One ticket's record on disk, and everything that writes it: `perbo run` *)
(* (apps/cli/src/commands/run/index.ts) and `perbo sync` (sync.ts), with   *)
(* the pull requests of its branch, which GitHub and people move.          *)
(*                                                                         *)
(* The record has no lock.  A command reads it and replaces it whole.      *)
(* Where the code does both with nothing awaited in between, one action    *)
(* does both; where it awaits GitHub or the loop in between, the read and  *)
(* the write are two actions and anything may happen between them.  The    *)
(* run lock is RunLock's subject: here it has one owner at most, and a     *)
(* process that dies lets it go.                                           *)
(***************************************************************************)
EXTENDS TicketRecord, FiniteSets

CONSTANTS
  Runs,         \* calls of `perbo run --ticket`, each with its loop
  Syncs,        \* callers of `perbo sync <key>`, the queue among them
  MaxPulls,     \* bound: pull requests on the branch
  EarlierRun,   \* whether a run that failed came before these
  None          \* nobody

ASSUME ConstantsAssumption ==
  /\ None \notin Runs
  /\ MaxPulls \in Nat
  /\ EarlierRun \in BOOLEAN

VARIABLES
  ticket,       \* the record on disk
  pulls,        \* the pull requests of the branch, the last one current
  attempts,     \* how the attempts on record ended: "completed", "stopped"
  reviewed,     \* some review of this ticket is on record
  lockOwner,    \* the run that holds the run lock
  run,          \* each run: where it is and what it knows
  sync,         \* each sync: where it is, the record it read, what gh said
  mishaps       \* history: what went wrong that no later step can see

vars == <<ticket, pulls, attempts, reviewed, lockOwner, run, sync, mishaps>>

Mishaps == {"stale_write", "written_under_a_run", "restarted_under_a_run",
            "opener_lost", "older_pull_recorded", "pull_erased"}

(* A ticket as `perbo approve` leaves it; its first rows are left out. *)
Approved == [state |-> "ready", history |-> <<>>, delivery |-> NoDelivery]

(* The same after one run, whose attempt completed and whose result was    *)
(* refused: nothing was reviewed and nothing was opened.                   *)
FailedOnce ==
  [state |-> "failed",
   history |-> << [from |-> "ready", to |-> "provisioning", note |-> RunStartedNote],
                  [from |-> "provisioning", to |-> "failed", note |-> Note("did_not_complete")] >>,
   delivery |-> [NoDelivery EXCEPT !.branch = TRUE]]

NoResult ==
  [rounds |-> FALSE, judged |-> FALSE, completed |-> FALSE,
   outcome |-> "failed", publishes |-> FALSE, number |-> 0]

Unstarted == [at |-> "idle", found |-> "ready", result |-> NoResult]
Asking == [at |-> "idle", read |-> Approved, number |-> 0, said |-> "none"]

Init ==
  /\ ticket = IF EarlierRun THEN FailedOnce ELSE Approved
  /\ pulls = <<>>
  /\ attempts = IF EarlierRun THEN {"completed"} ELSE {}
  /\ reviewed = FALSE
  /\ lockOwner = None
  /\ run = [r \in Runs |-> Unstarted]
  /\ sync = [s \in Syncs |-> Asking]
  /\ mishaps = {}

Moves(r, here, there) ==
  /\ run[r].at = here
  /\ run' = [run EXCEPT ![r].at = there]

(* A process that is gone knows nothing any more. *)
Ends(r, here) ==
  /\ run[r].at \in here
  /\ run' = [run EXCEPT ![r] = [Unstarted EXCEPT !.at = "ended"]]

Release(r) == lockOwner' = IF lockOwner = r THEN None ELSE lockOwner

-----------------------------------------------------------------------------
(* perbo run --ticket *)

Readied == IF ticket.state = "ready" THEN ticket ELSE Reopen(ticket)
Startable == ticket.state = "ready" \/ CanReopen(ticket)

(* Runs that a refusal may still end. *)
Unjudged == {r \in Runs : run[r].at \in {"started", "locked", "owed"}}

(* starting: recorded before the attempt, and before the run lock. *)
Start(r) ==
  /\ run[r].at = "idle"
  /\ Startable
  /\ ticket' = Transition(Readied, "provisioning", RunStartedNote)
  /\ run' = [run EXCEPT ![r] =
       [@ EXCEPT !.at = "started", !.found = ticket.state]]
  /\ mishaps' = mishaps \union
       (IF Unjudged # {} /\ ticket.state \in {"changes_requested", "failed"}
        THEN {"restarted_under_a_run"} ELSE {})
  /\ UNCHANGED <<pulls, attempts, reviewed, lockOwner, sync>>

(* The spec has changed since the contract was drafted from it. *)
StartOnStaleSpec(r) ==
  /\ Startable
  /\ Ends(r, {"idle"})
  /\ ticket' = Transition(Readied, "plan_invalid", Note("spec_is_stale"))
  /\ UNCHANGED <<pulls, attempts, reviewed, lockOwner, sync, mishaps>>

TakeRunLock(r) ==
  /\ lockOwner = None
  /\ lockOwner' = r
  /\ Moves(r, "started", "locked")
  /\ UNCHANGED <<ticket, pulls, attempts, reviewed, sync, mishaps>>

(* Another run holds it: this one stops, and the record stays as it is. *)
FindRunLocked(r) ==
  /\ lockOwner # None
  /\ Ends(r, {"started"})
  /\ UNCHANGED <<ticket, pulls, attempts, reviewed, lockOwner, sync, mishaps>>

(* The loop's own refusal: a person owes answers to a review's findings. *)
OweAnswers(r) ==
  /\ reviewed
  /\ Moves(r, "locked", "owed")
  /\ Release(r)
  /\ UNCHANGED <<ticket, pulls, attempts, reviewed, sync, mishaps>>

(* Mutant: the row before the last is read without its note. *)
LeftByAnyReopening ==
  LET h == ticket.history
      reopened == h[Len(h) - 1]
  IN  IF Len(h) >= 2 /\ reopened.to = "ready" THEN reopened.from ELSE "ready"

(* The state the last two rows say a run of this command found it in. *)
LeftByLastStart ==
  LET h == ticket.history
      reopened == h[Len(h) - 1]
  IN  IF Len(h) >= 2 /\ reopened.to = "ready" /\ reopened.note = NewAttemptNote(reopened.from)
      THEN reopened.from
      ELSE "ready"

(* refused: back to that state, on a row of its own. *)
Refused(r) ==
  /\ Ends(r, {"owed"})
  /\ ticket' =
       IF /\ ticket.state = "provisioning"
          /\ Last(ticket.history).note = RunStartedNote
          /\ LeftByLastStart \in {"changes_requested", "failed"}
       THEN Transition(ticket, LeftByLastStart, AnswersOwedNote)
       ELSE ticket
  /\ UNCHANGED <<pulls, attempts, reviewed, lockOwner, sync, mishaps>>

(* What a loop can end with.  Only a completed attempt is judged; an       *)
(* approval is a judged round's, or a person's decisions on an earlier     *)
(* review; the gate closes on a judged round, or where a run continuing an *)
(* earlier review declined its findings and left the branch empty; only an *)
(* approval or an escalation with something to show is published.          *)
Possible(result) ==
  /\ result.completed => result.rounds
  /\ result.judged => result.completed
  /\ result.outcome = "approved" => result.judged \/ (~result.rounds /\ reviewed)
  /\ result.outcome = "gated" => result.judged \/ (result.rounds /\ ~result.completed /\ reviewed)
  /\ result.publishes => result.outcome # "failed" /\ (result.judged \/ ~result.rounds)

Results ==
  [rounds: BOOLEAN, judged: BOOLEAN, completed: BOOLEAN,
   outcome: {"approved", "gated", "failed"}, publishes: BOOLEAN, number: {0}]

Judge(r) ==
  /\ run[r].at = "locked"
  /\ \E result \in Results :
       /\ Possible(result)
       /\ run' = [run EXCEPT ![r] =
            [at |-> "judged", found |-> Unstarted.found, result |-> result]]
       /\ reviewed' = (reviewed \/ result.judged)
  /\ UNCHANGED <<ticket, pulls, attempts, lockOwner, sync, mishaps>>

PullIsOpen == pulls # <<>> /\ Last(pulls).state = "open"

(* createPullRequest: the open one the branch already has, or a new one. *)
Open(r) ==
  /\ run[r].at = "judged"
  /\ run[r].result.publishes
  /\ \/ /\ PullIsOpen
        /\ mishaps' = mishaps \union
             (IF Last(pulls).by = "person" THEN {"opener_lost"} ELSE {})
        /\ UNCHANGED pulls
     \/ /\ ~PullIsOpen
        /\ Len(pulls) < MaxPulls
        /\ pulls' = Append(pulls, [by |-> "loop", state |-> "open"])
        /\ UNCHANGED mishaps
  /\ run' = [run EXCEPT ![r] = [@ EXCEPT !.at = "opened", !.result.number = Len(pulls')]]
  /\ UNCHANGED <<ticket, attempts, reviewed, lockOwner, sync>>

(* The attempts are recorded and the run lock is let go; how they ended    *)
(* and whether it meant to publish, the loop's caller is not told.         *)
Return(r) ==
  /\ \/ run[r].at = "opened"
     \/ run[r].at = "judged" /\ ~run[r].result.publishes
  /\ run' = [run EXCEPT ![r] =
       [@ EXCEPT !.at = "returned", !.result.completed = FALSE, !.result.publishes = FALSE]]
  /\ attempts' = attempts \union
       (IF ~run[r].result.rounds THEN {}
        ELSE IF run[r].result.completed THEN {"completed"} ELSE {"stopped"})
  /\ Release(r)
  /\ UNCHANGED <<ticket, pulls, reviewed, sync, mishaps>>

Delivered(r) == RecordDelivery(ticket, run[r].result)
Path(r) == ObservedPath(run[r].result)

(* finished, after the lock was let go: the delivery and the walk ... *)
Finish(r) ==
  /\ ReachesItsEnd(Delivered(r), Path(r))
  /\ Ends(r, {"returned"})
  /\ ticket' = ApplyObservedPath(Delivered(r), Path(r))
  /\ mishaps' = mishaps \union
       (IF run[r].result.number \in 1 .. ticket.delivery.number - 1
        THEN {"older_pull_recorded"} ELSE {})
  /\ UNCHANGED <<pulls, attempts, reviewed, lockOwner, sync>>

(* What nobody will know the loop opened. *)
Unrecorded(r) == IF run[r].result.number # 0 THEN {"opener_lost"} ELSE {}

(* ... or nothing at all, where the table has no way to the walk's end. *)
FinishUnreachable(r) ==
  /\ ~ReachesItsEnd(Delivered(r), Path(r))
  /\ Ends(r, {"returned"})
  /\ mishaps' = mishaps \union Unrecorded(r)
  /\ UNCHANGED <<ticket, pulls, attempts, reviewed, lockOwner, sync>>

(* The process is killed, or the loop throws: nothing is recorded. *)
Die(r) ==
  /\ Ends(r, {"started", "locked", "owed", "judged", "opened", "returned"})
  /\ Release(r)
  /\ mishaps' = mishaps \union Unrecorded(r)
  /\ UNCHANGED <<ticket, pulls, attempts, reviewed, sync>>

-----------------------------------------------------------------------------
(* perbo sync <key> *)

UnderWay == {r \in Runs : run[r].at \notin {"idle", "ended"}}

(* Mutant: a failed ticket is walked like a stranded one. *)
STRANDED_OR_FAILED == {"provisioning", "executing", "verifying", "independent_review", "failed"}

STRANDED_STATES == {"provisioning", "executing", "verifying", "independent_review"}

(* With no branch recorded and none to derive there is nothing to read. *)
SyncRead(s) ==
  /\ sync[s].at = "idle"
  /\ ticket.delivery.branch \/ ticket.state \in STRANDED_STATES
  /\ sync' = [sync EXCEPT ![s] = [Asking EXCEPT !.at = "polling", !.read = ticket]]
  /\ UNCHANGED <<ticket, pulls, attempts, reviewed, lockOwner, run, mishaps>>

(* `gh` says nothing: no pull request, or no answer. *)
PollSilent(s) ==
  /\ sync[s].at = "polling"
  /\ sync' = [sync EXCEPT ![s] = Asking]
  /\ UNCHANGED <<ticket, pulls, attempts, reviewed, lockOwner, run, mishaps>>

(* `gh` reports the branch's current pull request, as it is now. *)
Poll(s) ==
  /\ sync[s].at = "polling"
  /\ pulls # <<>>
  /\ sync' = [sync EXCEPT ![s] =
       [@ EXCEPT !.at = "polled", !.number = Len(pulls), !.said = Last(pulls).state]]
  /\ UNCHANGED <<ticket, pulls, attempts, reviewed, lockOwner, run, mishaps>>

(* Mutant: a closed pull request counts as a merged one. *)
SettledByAnyEnd(written, said) ==
  IF said = "open" THEN {written} ELSE {Transition(written, "merged", Note("merged"))}

(* Mutant: a merge moves no ticket that is already at `pr_open`. *)
SettledOnClose(written, said) ==
  IF said = "closed" THEN {Transition(written, "closed", Note("closed_without_merging"))}
  ELSE {written}

(* Where a ticket at `pr_open` goes: one whose pull request was closed may *)
(* carry a review's verdict that changes are requested.                    *)
Settled(written, said) ==
  CASE said = "merged" -> {Transition(written, "merged", Note("merged"))}
    [] said = "closed" ->
         {Transition(written, to, Note("closed_without_merging")) :
            to \in {"closed", "changes_requested"}}
    [] OTHER -> {written}

(* What it may write, from the record it read before it asked: nothing but *)
(* that record, where the table has no way to the end of the walk.         *)
Reconciled(s) ==
  LET read == sync[s].read
      number == sync[s].number
      said == sync[s].said
      stranded == read.state \in STRANDED_STATES
      path == StatesReconciled(attempts, said)
      written == WrittenDelivery(read, number, said, stranded)
      resumed == FromFailedToPullRequest(written, AttributePullRequest(read, number))
  IN  CASE stranded ->
             IF ReachesItsEnd(written, path)
             THEN {ApplyObservedPath(written, path)}
             ELSE {ticket}
        [] read.state = "failed" /\ said \in {"open", "merged"} -> Settled(resumed, said)
        [] read.state = "pr_open" -> Settled(written, said)
        [] OTHER -> {written}

Miswritten(s) ==
  (IF ticket' # ticket /\ ticket # sync[s].read THEN {"stale_write"} ELSE {})
  \union (IF ticket' # ticket /\ UnderWay # {} THEN {"written_under_a_run"} ELSE {})

SyncWrite(s) ==
  /\ sync[s].at = "polled"
  /\ ticket' \in Reconciled(s)
  /\ mishaps' = mishaps \union Miswritten(s)
  /\ sync' = [sync EXCEPT ![s] = Asking]
  /\ UNCHANGED <<pulls, attempts, reviewed, lockOwner, run>>

(* `gh` succeeds, and what it printed cannot be read or names no state: an *)
(* answer all the same, of a branch with no pull request.  It leaves a     *)
(* stranded or a failed ticket as it is and is written over any other      *)
(* record, number and opener with it.  Nothing in it is of the moment it   *)
(* was given, so one action asks and writes.                               *)
Emptied(read) ==
  IF read.state \in STRANDED_STATES \union {"failed"}
  THEN ticket
  ELSE WrittenDelivery(read, 0, "none", FALSE)

SyncErases(s) ==
  /\ sync[s].at = "polling"
  /\ pulls # <<>>
  /\ ticket' = Emptied(sync[s].read)
  /\ mishaps' = mishaps \union Miswritten(s)
       \union (IF ticket' # ticket /\ sync[s].read.delivery.number # 0 THEN {"pull_erased"} ELSE {})
  /\ sync' = [sync EXCEPT ![s] = Asking]
  /\ UNCHANGED <<pulls, attempts, reviewed, lockOwner, run>>

-----------------------------------------------------------------------------
(* GitHub, and the people there. *)

(* A person pushes the branch the runs left and opens a pull request. *)
PersonOpens ==
  /\ attempts # {}
  /\ ~PullIsOpen
  /\ Len(pulls) < MaxPulls
  /\ pulls' = Append(pulls, [by |-> "person", state |-> "open"])
  /\ UNCHANGED <<ticket, attempts, reviewed, lockOwner, run, sync, mishaps>>

PersonEnds ==
  /\ PullIsOpen
  /\ \E outcome \in {"merged", "closed"} : pulls' = [pulls EXCEPT ![Len(pulls)].state = outcome]
  /\ UNCHANGED <<ticket, attempts, reviewed, lockOwner, run, sync, mishaps>>

PersonReopens ==
  /\ pulls # <<>>
  /\ Last(pulls).state = "closed"
  /\ pulls' = [pulls EXCEPT ![Len(pulls)].state = "open"]
  /\ UNCHANGED <<ticket, attempts, reviewed, lockOwner, run, sync, mishaps>>

-----------------------------------------------------------------------------
RunStep(r) ==
  \/ Start(r) \/ StartOnStaleSpec(r) \/ TakeRunLock(r) \/ FindRunLocked(r)
  \/ OweAnswers(r) \/ Refused(r) \/ Judge(r) \/ Open(r) \/ Return(r)
  \/ Finish(r) \/ FinishUnreachable(r) \/ Die(r)

SyncStep(s) ==
  SyncRead(s) \/ Poll(s) \/ PollSilent(s) \/ SyncWrite(s) \/ SyncErases(s)

Next ==
  \/ \E r \in Runs : RunStep(r)
  \/ \E s \in Syncs : SyncStep(s)
  \/ PersonOpens \/ PersonEnds \/ PersonReopens

Spec == Init /\ [][Next]_vars

(* The queue syncs every ticket at `pr_open` on every tick, and GitHub     *)
(* answers a queue that goes on asking.  What it answered is written: that *)
(* step is always possible, so the third conjunct is its weak fairness,    *)
(* said without ENABLED.                                                   *)
Fairness ==
  \A s \in Syncs :
    /\ WF_vars(ticket.state = "pr_open" /\ SyncRead(s))
    /\ SF_vars(Poll(s))
    /\ []<>(sync[s].at # "polled")

FairSpec == Spec /\ Fairness

-----------------------------------------------------------------------------
(* Types, and no pull request on record that the branch never had. *)
TypeOK ==
  /\ ticket.state \in States
  /\ \A i \in DOMAIN ticket.history :
       {ticket.history[i].from, ticket.history[i].to} \subseteq States
  /\ ticket.delivery.number \in 0 .. Len(pulls)
  /\ ticket.delivery.openedBy \in Openers
  /\ Len(pulls) <= MaxPulls
  /\ lockOwner \in Runs \union {None}
  /\ mishaps \subseteq Mishaps

(* Every row on record is one the lifecycle has, each starts where the one *)
(* before it ended, and the ticket is where the last one ended, whichever  *)
(* of the commands wrote it and whatever it had read (ticket.ts).          *)
HistoryIsALifecycle ==
  LET rows == ticket.history
      edges == {<<row.from, row.to>> : row \in Rows}
  IN  /\ \A i \in DOMAIN rows : <<rows[i].from, rows[i].to>> \in edges
      /\ \A i \in 1 .. Len(rows) - 1 : rows[i].to = rows[i + 1].from
      /\ rows # <<>> => Last(rows).to = ticket.state

(* A ticket is merged only where a pull request of its branch is, however  *)
(* late the sync that says so writes.                                      *)
MergedIsTrue ==
  ticket.state = "merged" => \E i \in DOMAIN pulls : pulls[i].state = "merged"

(* With one run of the ticket, and while no sync wrote a stale record, the *)
(* functions that ask for a pull request are the only paths from `failed`  *)
(* to `pr_open`: no walk, of a run or of a reconciliation, takes that row  *)
(* (ticket-transitions.ts:130).                                            *)
ResumedOnEvidence ==
  "stale_write" \notin mishaps =>
    \A row \in ToSet(ticket.history) :
      row.from = "failed" /\ row.to = "pr_open" =>
        row.note[1] \in {"handed_off", "resumed", "opener_not_recorded"}

(* A refusal that moves the ticket puts it back where the refused run      *)
(* found it.                                                               *)
ReturnsToItsStart ==
  \A r \in Runs :
    run[r].at = "owed" /\ run'[r].at = "ended" /\ ticket' # ticket =>
      ticket'.state = run[r].found

(* A run that a review's open questions stopped after it moved the ticket  *)
(* puts it back where that same run found it, or leaves it alone: while no *)
(* sync moved the ticket under a run, and no run was started over a ticket *)
(* that was settled while another had yet to be judged.                    *)
RefusalReturns ==
  [][mishaps \cap {"written_under_a_run", "restarted_under_a_run"} = {} =>
       ReturnsToItsStart]_vars

(* A run's result is refused only for a ticket another command moved while *)
(* it ran, or for the gate of a run that judged no round of its own: every *)
(* other result has a legal way from `provisioning` to its end.            *)
OnlyAMovedTicketRefusesAResult ==
  \A r \in Runs :
    /\ run[r].at = "returned"
    /\ ticket.state = "provisioning"
    /\ run[r].result.outcome = "gated" => run[r].result.judged
    => ReachesItsEnd(Delivered(r), Path(r))

(* Where no run adopted a person's pull request, left one of its own       *)
(* unrecorded or recorded one over a later one, and no sync wrote a stale  *)
(* record, wrote under a run or wrote an answer it could not read over a   *)
(* pull request, the opener on record is the true one: never a person who  *)
(* did not open it, nor, until a stranded ticket is reconciled, the loop.  *)
OpenerIsTrueWhereNothingWasLost ==
  LET d == ticket.delivery
      OpenedBy(who) == d.number # 0 /\ pulls[d.number].by = who
      reconciled == \E row \in ToSet(ticket.history) : row.note = Note("reconciled")
  IN  mishaps = {} =>
        /\ d.openedBy = "loop" /\ ~reconciled => OpenedBy("loop")
        /\ d.openedBy = "hand_off" => OpenedBy("person")

(* Once no run is left to move it, a ticket at `pr_open` whose pull        *)
(* request was merged does not stay there.                                 *)
MergeIsRecorded ==
  []<>~(/\ UnderWay = {}
        /\ ticket.state = "pr_open"
        /\ pulls # <<>>
        /\ Last(pulls).state = "merged")
=============================================================================
