---------------------------- MODULE TicketRecord ----------------------------
(***************************************************************************)
(* The ticket record and the functions that move it: the lifecycle table   *)
(* and `transition` (packages/contracts/src/ticket-transitions.ts,         *)
(* ticket.ts), the walks `perbo run` and `perbo sync` record, the reopening *)
(* of a ticket for a new attempt, and who is said to have opened its pull  *)
(* request.  Nothing here is a state machine: TicketFile is.               *)
(*                                                                         *)
(* A row's note is <<what it says, the state it names>>.  A pull request   *)
(* is its number on the ticket's branch, 0 for null.                       *)
(***************************************************************************)
EXTENDS Integers, Sequences, SequencesExt

States == {
  "plan_review", "ready", "blocked", "provisioning", "executing", "verifying",
  "independent_review", "pr_open", "merged", "closed", "changes_requested",
  "failed", "plan_invalid", "cancelled"}

(* A row of the lifecycle, taken by any record or only by one that ... *)
Row(from, to, guard) == [from |-> from, to |-> to, when |-> guard]

TICKET_TRANSITIONS == <<
  Row("plan_review", "ready", "always"),
  Row("plan_review", "cancelled", "always"),
  Row("ready", "provisioning", "always"),
  Row("ready", "cancelled", "always"),
  Row("ready", "blocked", "always"),
  Row("ready", "plan_invalid", "always"),
  Row("blocked", "ready", "always"),
  Row("blocked", "cancelled", "always"),
  Row("provisioning", "executing", "always"),
  Row("provisioning", "failed", "always"),
  Row("executing", "verifying", "always"),
  Row("executing", "failed", "always"),
  Row("executing", "cancelled", "always"),
  Row("executing", "pr_open", "direct_arm"),
  Row("verifying", "independent_review", "always"),
  Row("verifying", "failed", "always"),
  Row("independent_review", "pr_open", "always"),
  Row("provisioning", "pr_open", "decided_delivery"),
  Row("provisioning", "changes_requested", "answers_owed"),
  Row("independent_review", "changes_requested", "always"),
  Row("independent_review", "failed", "always"),
  Row("changes_requested", "ready", "always"),
  Row("changes_requested", "cancelled", "always"),
  Row("failed", "ready", "always"),
  Row("pr_open", "merged", "always"),
  Row("pr_open", "closed", "pull_request_closed"),
  Row("pr_open", "changes_requested", "pull_request_closed"),
  Row("closed", "ready", "always"),
  Row("failed", "pr_open", "always") >>

Rows == ToSet(TICKET_TRANSITIONS)

Admits(row, ticket, note) ==
  /\ row.when = "direct_arm" => ticket.delivery.arm = "direct"
  /\ row.when = "pull_request_closed" => ticket.delivery.state = "closed"
  /\ row.when \in {"decided_delivery", "answers_owed"} => note[1] = row.when

Legal(ticket, to, note) ==
  \E row \in Rows :
    /\ row.from = ticket.state
    /\ row.to = to
    /\ Admits(row, ticket, note)

(* Where it is legal: the state moves and its row is appended. *)
Transition(ticket, to, note) ==
  [ticket EXCEPT
    !.state = to,
    !.history = Append(@, [from |-> ticket.state, to |-> to, note |-> note])]

Note(says) == <<says, "none">>
NewAttemptNote(state) == <<"new_attempt_after", state>>
RunStartedNote == Note("run_started")
AnswersOwedNote == Note("answers_owed")

-----------------------------------------------------------------------------
(* Bringing a ticket back to `ready` (run/index.ts, reopen): the shortest  *)
(* route the table has, ties broken by its order.  No state needs a route  *)
(* of more than one state in between.                                      *)

ReopenNote(ticket, to) ==
  IF to = "ready" THEN NewAttemptNote(ticket.state) ELSE <<"reopened_through", to>>

Hop(ticket, to) == Transition(ticket, to, ReopenNote(ticket, to))

(* Mutant: the guards of the rows out of the ticket's state are not asked. *)
ViasUnguarded(ticket) ==
  {i \in DOMAIN TICKET_TRANSITIONS :
     LET row == TICKET_TRANSITIONS[i]
     IN  row.from = ticket.state /\ Legal(Hop(ticket, row.to), "ready", Note("any"))}

Vias(ticket) ==
  {i \in DOMAIN TICKET_TRANSITIONS :
     LET row == TICKET_TRANSITIONS[i]
     IN  /\ row.from = ticket.state
         /\ Admits(row, ticket, ReopenNote(ticket, row.to))
         /\ Legal(Hop(ticket, row.to), "ready", NewAttemptNote(ticket.state))}

ReopensAtOnce(ticket) == Legal(ticket, "ready", NewAttemptNote(ticket.state))
CanReopen(ticket) == ReopensAtOnce(ticket) \/ Vias(ticket) # {}

(* Mutant: every state has a row to `ready`. *)
ReopenAtOnce(ticket) == Hop(ticket, "ready")

Reopen(ticket) ==
  IF ReopensAtOnce(ticket)
  THEN Hop(ticket, "ready")
  ELSE LET via == CHOOSE i \in Vias(ticket) : \A j \in Vias(ticket) : i <= j
       IN  Transition(Hop(ticket, TICKET_TRANSITIONS[via].to), "ready",
                      NewAttemptNote(ticket.state))

-----------------------------------------------------------------------------
(* Walks: a path of <<state, note>> steps, of which those the table has no *)
(* row for are skipped; the last one is not optional.                      *)

WalkStep(ticket, step) ==
  IF Legal(ticket, step[1], step[2]) THEN Transition(ticket, step[1], step[2]) ELSE ticket

(* The ticket after each number of steps. *)
Walked(ticket, path) ==
  LET walked[i \in 0 .. Len(path)] ==
        IF i = 0 THEN ticket ELSE WalkStep(walked[i - 1], path[i])
  IN  walked

ApplyObservedPath(ticket, path) == Walked(ticket, path)[Len(path)]

ReachesItsEnd(ticket, path) ==
  path # <<>> => ApplyObservedPath(ticket, path).state = Last(path)[1]

If(condition, path) == IF condition THEN path ELSE <<>>

(* Mutant: a run with no check to run did not verify. *)
StatesObservedUnverified(result) ==
  <<<<"provisioning", Note("observed")>>>>
  \o If(result.rounds, <<<<"executing", Note("observed")>>>>)
  \o If(result.judged, <<<<"independent_review", Note("observed")>>>>)
  \o CASE result.outcome = "approved" -> <<<<"pr_open", Note("approved")>>>>
       [] result.outcome = "gated"    -> <<<<"changes_requested", Note("gate_closed")>>>>
       [] result.outcome = "failed"   -> <<<<"failed", Note("did_not_complete")>>>>

(* What a run's result proves: whether any round ran, whether one was      *)
(* reviewed or verified, and how it ended.                                 *)
StatesObserved(result) ==
  <<<<"provisioning", Note("observed")>>>>
  \o If(result.rounds, << <<"executing", Note("observed")>>, <<"verifying", Note("observed")>> >>)
  \o If(result.judged, <<<<"independent_review", Note("observed")>>>>)
  \o CASE result.outcome = "approved" -> <<<<"pr_open", Note("approved")>>>>
       [] result.outcome = "gated"    -> <<<<"changes_requested", Note("gate_closed")>>>>
       [] result.outcome = "failed"   -> <<<<"failed", Note("did_not_complete")>>>>

(* An approval with no round is one a person's decisions gave. *)
ObservedPath(result) ==
  IF result.outcome = "approved" /\ ~result.rounds
  THEN << <<"provisioning", Note("observed")>>, <<"pr_open", Note("decided_delivery")>> >>
  ELSE StatesObserved(result)

(* What survived a dead run supports: attempts on record, a completed one  *)
(* among them, and the pull request `gh` reports.                          *)
StatesReconciled(attempts, said) ==
  If(attempts # {}, << <<"executing", Note("reconciled")>>, <<"verifying", Note("reconciled")>> >>)
  \o If("completed" \in attempts, <<<<"independent_review", Note("reconciled")>>>>)
  \o CASE said = "open"   -> <<<<"pr_open", Note("reconciled")>>>>
       [] said = "merged" -> << <<"pr_open", Note("reconciled")>>, <<"merged", Note("reconciled")>> >>
       [] said = "closed" -> <<<<"changes_requested", Note("reconciled")>>>>

-----------------------------------------------------------------------------
(* The delivery record, and who opened the pull request it names. *)

Openers == {"loop", "hand_off", "unknown"}

NoDelivery ==
  [branch |-> FALSE, number |-> 0, state |-> "none", openedBy |-> "unknown", arm |-> "loop"]

(* The last row that reached `pr_open`, for a record that does not say. *)
AttributionFromHistory(history) ==
  LET last == SelectLastInSeq(history, LAMBDA row : row.to = "pr_open")
  IN  IF last = 0 THEN "unknown"
      ELSE LET row == history[last]
           IN  CASE row.note[1] = "handed_off" -> "hand_off"
                 [] row.from = "independent_review" -> "loop"
                 [] row.from = "failed" /\ row.note[1] = "resumed" -> "loop"
                 [] OTHER -> "unknown"

RecordedOpener(ticket) ==
  IF ticket.delivery.openedBy # "unknown"
  THEN ticket.delivery.openedBy
  ELSE AttributionFromHistory(ticket.history)

(* Who to credit for the move out of `failed` made now ... *)
AttributePullRequest(ticket, number) ==
  IF ticket.delivery.number = number THEN RecordedOpener(ticket) ELSE "hand_off"

(* Mutant: the record keeps its opener, whatever number it names. *)
AttributionKept(ticket, number, midRun) ==
  IF midRun THEN "unknown" ELSE RecordedOpener(ticket)

(* ... and what the record may claim to know once it names this number. *)
AttributionOnRecord(ticket, number, midRun) ==
  CASE number = 0 -> "unknown"
    [] number # 0 /\ ticket.delivery.number = number -> RecordedOpener(ticket)
    [] number # 0 /\ ticket.delivery.number # number /\ midRun -> "unknown"
    [] OTHER -> "hand_off"

(* What a finished run writes: a run that opened nothing leaves the record *)
(* of a pull request as it was.                                            *)
RecordDelivery(ticket, result) ==
  IF result.number = 0 /\ ticket.delivery.number # 0
  THEN [ticket EXCEPT !.delivery.branch = TRUE]
  ELSE [ticket EXCEPT !.delivery =
         [branch   |-> TRUE,
          number   |-> result.number,
          state    |-> IF result.number = 0 THEN "none" ELSE "open",
          openedBy |-> IF result.number = 0 THEN "unknown" ELSE "loop",
          arm      |-> "loop"]]

(* What a sync writes, whole, from what `gh` said. *)
WrittenDelivery(ticket, number, said, midRun) ==
  [ticket EXCEPT !.delivery =
    [branch   |-> TRUE,
     number   |-> number,
     state    |-> said,
     openedBy |-> AttributionOnRecord(ticket, number, midRun),
     arm      |-> ticket.delivery.arm]]

(* Out of `failed`, on the evidence of a pull request: the row says which  *)
(* of the three it was (handOff, resumeAtPullRequest,                      *)
(* resumeWithUnrecordedOpener).                                            *)
FromFailedToPullRequest(ticket, attribution) ==
  Transition(ticket, "pr_open",
    Note(CASE attribution = "hand_off" -> "handed_off"
           [] attribution = "loop"     -> "resumed"
           [] attribution = "unknown"  -> "opener_not_recorded"))
=============================================================================
