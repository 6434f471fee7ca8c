----------------------------- MODULE LoopMerge ------------------------------
(***************************************************************************)
(* The loop merging a pull request it opened                               *)
(* (packages/runner/src/merge.ts, packages/contracts/src/merge.ts), asked  *)
(* by `perbo sync --merge`, by the queue or by the run that published it,  *)
(* with other merges into the same base, pushes, reviews and people        *)
(* between any two of its calls.                                           *)
(*                                                                         *)
(* An action of a merger ends at an await: a reading of the pull request,  *)
(* or `gh pr merge`.  The lock is one step here; PidLock details it.       *)
(***************************************************************************)
EXTENDS Naturals, Sequences, FiniteSets

CONSTANTS
  Pulls,       \* pull requests into one base
  Mergers,     \* processes that may be asked to merge one
  MaxHeads,    \* bound: commits of a branch
  MaxEvents    \* bound: pushes, base moves, checks that fail and processes that die, together

ASSUME MergeAssumption ==
  /\ IsFiniteSet(Pulls) /\ IsFiniteSet(Mergers)
  /\ Mergers \intersect {"free", "dead"} = {} /\ "none" \notin Pulls
  /\ MaxHeads \in Nat \ {0} /\ MaxEvents \in Nat

VARIABLES
  pull,      \* each pull request at GitHub: its state, its checks, the heads a review approved
  branch,    \* each branch's commits, the last its head
  base,      \* the base's commits past the one every branch began at
  lock,      \* the base's merge lock: who holds it
  merger,    \* where each process is, and what it read
  events

worldVars == <<pull, branch, base, events>>
vars == <<pull, branch, base, lock, merger, events>>

Authors == {"loop", "unsigned", "person"}

(* A commit is the loop's by its attempt trailer, and signed or not; it    *)
(* leaves the branch's own diff as it was or changes it, and holds the     *)
(* base up to some tip.                                                    *)
Commits == [by: Authors, content: Nat, level: Nat]
BaseCommits == [by: {"loop", "person"}, touches: SUBSET Pulls]

Locked == {"decided", "agreed", "asked"}
Places == [at: {"idle", "read"} \union Locked, pull: Pulls \union {"none"}, head: Nat, tip: Nat]

TypeOK ==
  /\ pull \in [Pulls -> [state: {"open", "merged", "closed"}, green: BOOLEAN, approved: SUBSET Nat]]
  /\ branch \in [Pulls -> Seq(Commits)]
  /\ base \in Seq(BaseCommits)
  /\ lock \in Mergers \union {"free", "dead"}
  /\ merger \in [Mergers -> Places]
  /\ events \in 0..MaxEvents

-----------------------------------------------------------------------------
HeadOf(p) == Len(branch[p])
Tip == Len(base)

(* The base moved inside a ticket's scope between two tips. *)
Touched(p, from, to) == \E t \in (from + 1)..to : p \in base[t].touches

(* An approval of an earlier head carries to this one: the same content,   *)
(* and no base commit in the scope between the two (carriedApprovals).     *)
Carries(p, h, head) ==
  /\ h <= head
  /\ branch[p][h].content = branch[p][head].content
  /\ ~Touched(p, branch[p][h].level, branch[p][head].level)

(* One read of the pull request; a base that moved in its scope may have   *)
(* left it unmergeable.                                                    *)
Observe(p) ==
  {[open |-> pull[p].state = "open", head |-> HeadOf(p), mergeable |-> mergeable,
    green |-> pull[p].green, approved |-> pull[p].approved] :
     mergeable \in IF Touched(p, branch[p][HeadOf(p)].level, Tip) THEN BOOLEAN ELSE {TRUE}}

(* loopMergeDecision. *)
Decision(p, seen) ==
  /\ seen.open
  /\ seen.approved # {}
  /\ seen.green
  /\ seen.mergeable
  /\ \A i \in 1..seen.head : branch[p][i].by = "loop"
  /\ \E h \in seen.approved : Carries(p, h, seen.head)

(* Mutant: the second reading is of the same branch, so its head is too. *)
StillMergesAnyHead(head, now) == now.open /\ now.mergeable

(* reReadStillMerges: the checks and the verdicts are not asked again. *)
StillMerges(head, now) == now.open /\ now.head = head /\ now.mergeable

-----------------------------------------------------------------------------
(* The merger. *)

Idle == [at |-> "idle", pull |-> "none", head |-> 0, tip |-> 0]

(* The first reading.  What it decides it decides once the lock is held,   *)
(* from nothing read since; a reading that decides against the merge takes *)
(* the lock and lets it go in one breath, and leaves nothing.              *)
ReadFirst(m, p) ==
  /\ merger[m].at = "idle"
  /\ \E seen \in Observe(p) :
       /\ Decision(p, seen)
       /\ merger' = [merger EXCEPT ![m] = [at |-> "read", pull |-> p, head |-> seen.head, tip |-> 0]]
  /\ UNCHANGED <<worldVars, lock>>

(* Mutant: one merge of a pull request at a time, rather than into a base. *)
HeldForThePull(m) == lock \in Mergers /\ merger[lock].pull = merger[m].pull

(* A lock whose process is gone is taken over. *)
HeldByALiveMerge(m) == lock \in Mergers

TakeLock(m) ==
  /\ merger[m].at = "read"
  /\ IF HeldByALiveMerge(m)
     THEN merger' = [merger EXCEPT ![m] = Idle] /\ UNCHANGED lock
     ELSE merger' = [merger EXCEPT ![m].at = "decided"] /\ lock' = m
  /\ UNCHANGED worldVars

(* Mutant: a stop after the lock was taken leaves it. *)
KeptUnlessMerged(m, stopped) == IF stopped THEN lock ELSE "free"

(* `finally`: only this merge's own lock is removed. *)
Released(m, stopped) == IF lock = m THEN "free" ELSE lock

(* The second reading, immediately before the merge. *)
ReadAgain(m) ==
  /\ merger[m].at = "decided"
  /\ \E now \in Observe(merger[m].pull) :
       IF StillMerges(merger[m].head, now)
       THEN merger' = [merger EXCEPT ![m].at = "agreed", ![m].head = now.head, ![m].tip = Tip] /\ UNCHANGED lock
       ELSE merger' = [merger EXCEPT ![m] = Idle] /\ lock' = Released(m, TRUE)
  /\ UNCHANGED worldVars

Landed(p, by, touches) ==
  /\ pull' = [pull EXCEPT ![p].state = "merged"]
  /\ base' = Append(base, [by |-> by, touches |-> touches])

(* `gh pr merge`, which names no head: GitHub merges what is there, or     *)
(* refuses: what is no longer open, what has come to conflict, or any      *)
(* other for a reason of its own.                                          *)
Merge(m) ==
  LET p == merger[m].pull
  IN  /\ merger[m].at = "agreed"
      /\ merger' = [merger EXCEPT ![m].at = "asked"]
      /\ \/ /\ pull[p].state = "open"
            /\ \E touches \in SUBSET (Pulls \ {p}) : Landed(p, "loop", touches)
         \/ UNCHANGED <<pull, base>>
      /\ UNCHANGED <<branch, lock, events>>

Return(m) ==
  /\ merger[m].at = "asked"
  /\ lock' = Released(m, FALSE)
  /\ merger' = [merger EXCEPT ![m] = Idle]
  /\ UNCHANGED worldVars

-----------------------------------------------------------------------------
(* What happens meanwhile. *)

Happens == events < MaxEvents /\ events' = events + 1

(* A process dies, and its lock names a pid that is gone. *)
Dies(m) ==
  /\ Happens
  /\ merger[m].at # "idle"
  /\ merger' = [merger EXCEPT ![m] = Idle]
  /\ lock' = IF lock = m THEN "dead" ELSE lock
  /\ UNCHANGED <<pull, branch, base>>

(* The branch gets a commit: a round's or a person's, or the base merged   *)
(* in, with or without anything to resolve.  The checks start over.        *)
Push(p, by) ==
  /\ Happens
  /\ pull[p].state = "open" /\ HeadOf(p) < MaxHeads
  /\ LET last == branch[p][HeadOf(p)]
     IN  \E content \in {last.content, HeadOf(p) + 1}, level \in {last.level, Tip} :
           /\ content # last.content \/ level # last.level
           /\ branch' = [branch EXCEPT ![p] = Append(@, [by |-> by, content |-> content, level |-> level])]
  /\ pull' = [pull EXCEPT ![p].green = FALSE]
  /\ UNCHANGED <<base, lock, merger>>

(* A separate review approves the head it read. *)
Approve(p) ==
  /\ pull[p].state = "open" /\ HeadOf(p) \notin pull[p].approved
  /\ pull' = [pull EXCEPT ![p].approved = @ \union {HeadOf(p)}]
  /\ UNCHANGED <<branch, base, lock, merger, events>>

Checks(p) ==
  /\ pull[p].state = "open"
  /\ pull' = [pull EXCEPT ![p].green = ~@]
  /\ IF pull[p].green THEN Happens ELSE UNCHANGED events
  /\ UNCHANGED <<branch, base, lock, merger>>

BasePushed ==
  /\ Happens
  /\ \E touches \in SUBSET Pulls : base' = Append(base, [by |-> "person", touches |-> touches])
  /\ UNCHANGED <<pull, branch, lock, merger>>

PersonEnds(p) ==
  /\ Happens
  /\ pull[p].state = "open"
  /\ \/ \E touches \in SUBSET (Pulls \ {p}) : Landed(p, "person", touches)
     \/ pull' = [pull EXCEPT ![p].state = "closed"] /\ UNCHANGED base
  /\ UNCHANGED <<branch, lock, merger>>

-----------------------------------------------------------------------------
Init ==
  /\ pull = [p \in Pulls |-> [state |-> "open", green |-> FALSE, approved |-> {}]]
  /\ branch = [p \in Pulls |-> <<[by |-> "loop", content |-> 1, level |-> 0]>>]
  /\ base = <<>>
  /\ lock = "free"
  /\ merger = [m \in Mergers |-> Idle]
  /\ events = 0

MergerStep(m) == (\E p \in Pulls : ReadFirst(m, p)) \/ TakeLock(m) \/ ReadAgain(m) \/ Merge(m) \/ Return(m) \/ Dies(m)

PullStep(p) == (\E by \in Authors : Push(p, by)) \/ Approve(p) \/ Checks(p) \/ PersonEnds(p)

Next == (\E m \in Mergers : MergerStep(m)) \/ (\E p \in Pulls : PullStep(p)) \/ BasePushed

Spec == Init /\ [][Next]_vars

-----------------------------------------------------------------------------
(* Properties. *)

(* The lock follows the merge: it names a live process exactly while that  *)
(* process has decided and not returned, whichever way it stopped and      *)
(* whoever died, so no merge of the base is refused for nobody's.          *)
LockFollowsTheMerge == \A m \in Mergers : lock = m <=> merger[m].at \in Locked

(* The second reading still describes the base when it is acted on: no     *)
(* other merge of the loop landed after it.                                *)
MergesOntoWhatItRead ==
  \A m \in Mergers :
    merger[m].at = "agreed" => \A t \in (merger[m].tip + 1)..Tip : base[t].by = "person"

(* A loop merges what a review approved: the head it lands holds, signed   *)
(* commits of the loop alone, the content of a head a review approved, and *)
(* the base moved nowhere in its scope between the two; but for a push     *)
(* that came after the second reading, which `gh pr merge` does not ask    *)
(* about.                                                                  *)
MergesWhatWasApproved ==
  [][\A m \in Mergers :
       LET p == merger[m].pull
       IN  Merge(m) /\ pull'[p] # pull[p] /\ HeadOf(p) = merger[m].head =>
             /\ \A i \in DOMAIN branch[p] : branch[p][i].by = "loop"
             /\ \E h \in pull[p].approved : Carries(p, h, HeadOf(p))]_vars
=============================================================================
