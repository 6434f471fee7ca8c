----------------------------- MODULE JobRunner -----------------------------
(***************************************************************************)
(* apps/desktop/src/host/jobs/runner.ts: the commands the desktop host     *)
(* runs for the person, each a job in the profile's journal.               *)
(*                                                                         *)
(* The host is one process with one thread: an action is what runs between *)
(* two awaits.  Saving writes the whole profile, so every save records     *)
(* every job as memory has it.  The journal's bound of forty records is    *)
(* never reached here.                                                     *)
(***************************************************************************)
EXTENDS Integers

CONSTANTS
  Commands,     \* what may be asked for, of which ...
  Admissions,   \* ... some draft or admit, giving a ticket its key,
  Exclusive,    \* and some are in the exclusive lane; the rest only plan
  RepoOf,       \* the repository a command is over
  KeyOf,        \* the ticket it is over, or None
  Repos,
  MaxJobs,      \* bound: how many jobs are started
  MaxLaunches,  \* bound: how often Perbo is opened
  MaxFailures,  \* bound: how often saving or telling throws
  None

ASSUME JobsAssumption ==
  /\ Admissions \subseteq Commands
  /\ Exclusive \subseteq Commands
  /\ RepoOf \in [Commands -> Repos]
  /\ None \notin Commands
  /\ MaxJobs \in Nat
  /\ MaxLaunches \in Nat
  /\ MaxFailures \in Nat

(* Jobs are numbered in the order they were started in; 0 is no job. *)
Jobs == 1 .. MaxJobs

VARIABLES
  app,          \* Perbo: "open", "closing", "closed" or "crashed"
  launches,     \* how often it was opened
  failures,     \* how often saving or telling threw
  state,        \* each job's state in memory
  disk,         \* each job's state in the saved profile
  at,           \* where each job is
  aborted,      \* jobs whose signal is aborted
  what,         \* the command each job runs
  ahead,        \* the admission each one waits for, or 0
  tail,         \* the last admission of each repository, or 0
  awaited       \* the jobs the shutdown waits for

vars == <<app, launches, failures, state, disk, at, aborted, what, ahead, tail, awaited>>

LiveStates == {"running", "stopping"}
Outcomes == {"completed", "failed", "cancelled", "interrupted"}
JobStates == {"none"} \union LiveStates \union Outcomes
Served == {"operating", "telling"}
Tracked == {"waiting"} \union Served

TypeOK ==
  /\ app \in {"open", "closing", "closed", "crashed"}
  /\ launches \in Nat
  /\ failures \in Nat
  /\ state \in [Jobs -> JobStates]
  /\ disk \in [Jobs -> JobStates]
  /\ at \in [Jobs -> {"unasked", "done", "gone"} \union Tracked]
  /\ aborted \in SUBSET Jobs
  /\ what \in [Jobs -> Commands \union {None}]
  /\ ahead \in [Jobs -> Jobs \union {0}]
  /\ tail \in [Repos -> Jobs \union {0}]
  /\ awaited \in SUBSET Jobs

Init ==
  /\ app = "open"
  /\ launches = 1
  /\ failures = 0
  /\ state = [j \in Jobs |-> "none"]
  /\ disk = [j \in Jobs |-> "none"]
  /\ at = [j \in Jobs |-> "unasked"]
  /\ aborted = {}
  /\ what = [j \in Jobs |-> None]
  /\ ahead = [j \in Jobs |-> 0]
  /\ tail = [p \in Repos |-> 0]
  /\ awaited = {}

Up == app \in {"open", "closing"}
Active == {j \in Jobs : at[j] \in Tracked}
Admits(j) == what[j] \in Admissions

(* Mutant: a job that is stopping is over. *)
IsRunning(j) == state[j] = "running"

IsLive(j) == state[j] \in LiveStates

(* The exclusive lane: one at a time for each ticket, and for the whole    *)
(* repository where either names none.                                     *)
InTheWay(b, c) ==
  /\ b \in Exclusive
  /\ c \in Exclusive
  /\ RepoOf[b] = RepoOf[c]
  /\ KeyOf[b] = None \/ KeyOf[c] = None \/ KeyOf[b] = KeyOf[c]

Busy(c) == \E i \in Active : IsLive(i) /\ InTheWay(what[i], c)

(* Mutant: closing leaves every job interrupted. *)
StoppedByClosing(j) == IF app = "closing" THEN "interrupted" ELSE "cancelled"

(* How an aborted job ends: the person's stop, or Perbo closing. *)
StoppedState(j) ==
  IF app # "closing" \/ state[j] = "stopping" THEN "cancelled" ELSE "interrupted"

(* Whatever is saved is the whole journal. *)
Saved == disk' = state' /\ UNCHANGED failures

(* Saving throws, or what follows it: it may be saved or not. *)
Throws ==
  /\ failures < MaxFailures
  /\ failures' = failures + 1
  /\ disk' \in {disk, state'}

Moves(j, here, there) ==
  /\ at[j] = here
  /\ at' = [at EXCEPT ![j] = there]

-----------------------------------------------------------------------------
(* start *)

(* The job is the next one, and its place is taken before anything else    *)
(* can be asked: an admission goes behind the last one of its repository.  *)
Reserve(j, c) ==
  /\ Up
  /\ ~Busy(c)
  /\ \A i \in Jobs : at[i] = "unasked" <=> i >= j
  /\ what' = [what EXCEPT ![j] = c]
  /\ state' = [state EXCEPT ![j] = "running"]
  /\ IF c \in Admissions
     THEN /\ ahead' = [ahead EXCEPT ![j] = tail[RepoOf[c]]]
          /\ tail' = [tail EXCEPT ![RepoOf[c]] = j]
     ELSE UNCHANGED <<ahead, tail>>

Start(j, c) ==
  /\ Reserve(j, c)
  /\ Moves(j, "unasked", IF ahead'[j] = 0 THEN "operating" ELSE "waiting")
  /\ Saved
  /\ UNCHANGED <<app, launches, aborted, awaited>>

(* The start could not be saved or told: the caller hears of it, and the   *)
(* job's operation never begins.                                       *)
StartThrows(j, c) ==
  /\ Reserve(j, c)
  /\ Moves(j, "unasked", "waiting")
  /\ aborted' = aborted \union {j}
  /\ Throws
  /\ UNCHANGED <<app, launches, awaited>>

-----------------------------------------------------------------------------
(* The job's own chain *)

(* How the operation of a job may end, and how one that never began does:  *)
(* with the signal aborted, whatever it did is the abort.                  *)
Endings(j) == IF j \in aborted THEN {StoppedState(j)} ELSE {"completed", "failed"}

(* Its end is recorded before anything else runs ...                       *)
Lands(j, here) ==
  /\ Moves(j, here, "telling")
  /\ \E ended \in Endings(j) : state' = [state EXCEPT ![j] = ended]
  /\ Saved
  /\ UNCHANGED <<app, launches, aborted, what, ahead, tail, awaited>>

(* The one ahead has ended, however it did. *)
Begin(j) ==
  /\ ahead[j] \notin Active
  /\ j \notin aborted
  /\ Moves(j, "waiting", "operating")
  /\ UNCHANGED <<app, launches, failures, state, disk, aborted, what, ahead, tail, awaited>>

(* Mutant: the person's stop of a job that waits settles nothing. *)
NeverBeginsIfRunning(j) ==
  /\ ahead[j] \notin Active
  /\ j \in aborted
  /\ state[j] = "running"
  /\ Lands(j, "waiting")

(* One stopped while it waited ends, in its turn, without beginning. *)
NeverBegins(j) ==
  /\ ahead[j] \notin Active
  /\ j \in aborted
  /\ Lands(j, "waiting")

Return(j) == Lands(j, "operating")

(* The CLI says something, and the profile is saved. *)
Progress(j) ==
  /\ at[j] = "operating"
  /\ disk # state
  /\ disk' = state
  /\ UNCHANGED <<app, launches, failures, state, at, aborted, what, ahead, tail, awaited>>

(* Mutant: an ended admission forgets whoever came last. *)
ForgetTail(j) ==
  /\ tail' = [p \in Repos |-> IF Admits(j) /\ RepoOf[what[j]] = p THEN 0 ELSE tail[p]]
  /\ ahead' = [ahead EXCEPT ![j] = 0]
  /\ aborted' = aborted \ {j}

(* ... and once it is told the job is no longer tracked; the last          *)
(* admission of its repository leaves no tail.                             *)
Forget(j) ==
  /\ tail' = [p \in Repos |-> IF tail[p] = j THEN 0 ELSE tail[p]]
  /\ ahead' = [ahead EXCEPT ![j] = 0]
  /\ aborted' = aborted \ {j}

Tell(j) ==
  /\ Moves(j, "telling", "done")
  /\ Forget(j)
  /\ UNCHANGED <<app, launches, failures, state, disk, what, awaited>>

(* Saving the end or telling it throws: the job failed, as far as memory   *)
(* knows.                                                                  *)
TellFails(j) ==
  /\ \/ Moves(j, "waiting", "done") /\ ahead[j] \notin Active /\ j \in aborted
     \/ Moves(j, "operating", "done")
     \/ Moves(j, "telling", "done")
  /\ state' = [state EXCEPT ![j] = "failed"]
  /\ Throws
  /\ Forget(j)
  /\ UNCHANGED <<app, launches, what, awaited>>

-----------------------------------------------------------------------------
(* Stopping, closing, crashing *)

(* Mutant: a stop reaches a job that has ended and is still tracked. *)
StopTracked(j) ==
  /\ Up
  /\ j \in Active
  /\ state' = [state EXCEPT ![j] = "stopping"]
  /\ aborted' = aborted \union {j}
  /\ Saved \/ Throws
  /\ UNCHANGED <<app, launches, at, what, ahead, tail, awaited>>

(* The person stops a live job; whether or not that can be saved. *)
Stop(j) ==
  /\ Up
  /\ j \in Active
  /\ IsLive(j)
  /\ state' = [state EXCEPT ![j] = "stopping"]
  /\ aborted' = aborted \union {j}
  /\ Saved \/ Throws
  /\ UNCHANGED <<app, launches, at, what, ahead, tail, awaited>>

Shutdown ==
  /\ app = "open"
  /\ Active # {}
  /\ app' = "closing"
  /\ aborted' = aborted \union Active
  /\ awaited' = Active
  /\ UNCHANGED <<launches, failures, state, disk, at, what, ahead, tail>>

(* The process is gone, and what it tracked with it. *)
Down(how) ==
  /\ app' = how
  /\ at' = [j \in Jobs |-> IF j \in Active THEN "gone" ELSE at[j]]
  /\ tail' = [p \in Repos |-> 0]
  /\ aborted' = {}
  /\ awaited' = {}
  /\ ahead' = [j \in Jobs |-> 0]
  /\ state' = [j \in Jobs |-> "none"]
  /\ UNCHANGED <<launches, failures, disk, what>>

(* With nothing to wait for, asking to close and closing are one step. *)
Quit ==
  /\ \/ app = "closing" /\ awaited \intersect Active = {}
     \/ app = "open" /\ Active = {}
  /\ Down("closed")

Crash ==
  /\ Up
  /\ Down("crashed")

(* Mutant: a job that was stopping is left as it was. *)
RecoveredIfRunning(was) == IF was = "running" THEN "interrupted" ELSE was

(* What a saved record of a job means to the next launch (Profile.open). *)
Recovered(was) == IF was \in LiveStates THEN "interrupted" ELSE was

Open ==
  /\ ~Up
  /\ launches < MaxLaunches
  /\ launches' = launches + 1
  /\ app' = "open"
  /\ state' = [j \in Jobs |-> Recovered(disk[j])]
  /\ UNCHANGED <<failures, disk, at, aborted, what, ahead, tail, awaited>>

-----------------------------------------------------------------------------
(* The job's own chain of promises. *)
Goes(j) == Begin(j) \/ NeverBegins(j) \/ Return(j) \/ Tell(j)

JobStep(j) ==
  \/ \E c \in Commands : Start(j, c) \/ StartThrows(j, c)
  \/ Goes(j) \/ Progress(j) \/ TellFails(j) \/ Stop(j)

Next == (\E j \in Jobs : JobStep(j)) \/ Shutdown \/ Quit \/ Crash \/ Open

Spec == Init /\ [][Next]_vars

(* Every command ends, by itself, by its abort or by the runner's limit on *)
(* it, and closing goes on once it is asked for; nobody need ask, or stop. *)
Fairness == (\A j \in Jobs : WF_vars(Goes(j))) /\ WF_vars(app = "closing" /\ Quit)

FairSpec == Spec /\ Fairness

-----------------------------------------------------------------------------
(* No two commands over one ticket are ever under way at once, a stopped   *)
(* one that has not ended included, nor any beside one over the whole      *)
(* repository (runner.ts:70).                                              *)
TicketsTakeTurns ==
  \A i, j \in Jobs :
    at[i] = "operating" /\ at[j] = "operating" /\ InTheWay(what[i], what[j]) => i = j

(* Admissions into one store take turns in the order they were asked for:  *)
(* none begins, and none is begun, before every earlier one has ended and  *)
(* its receipt was dealt with, whichever of them was stopped, failed or    *)
(* never began (runner.ts:83).                                             *)
AdmissionsTakeTurns ==
  \A i, j \in Jobs :
    /\ i < j
    /\ i \in Active
    /\ Admits(i) /\ Admits(j) /\ RepoOf[what[i]] = RepoOf[what[j]]
    => at[j] \notin Served

(* Commands take turns: those in one another's way, and admissions in the  *)
(* order they were asked for.                                              *)
CommandsTakeTurns == TicketsTakeTurns /\ AdmissionsTakeTurns

(* A stop the person took before the command ended is how it ends, Perbo   *)
(* closing meanwhile or not (runner.ts:149).                               *)
StopIsKept ==
  [][\A j \in Jobs :
       state[j] = "stopping" /\ Up' =>
         state'[j] \in {"stopping", "cancelled"} \/ failures' # failures]_vars

(* No job stays live for good: one whose record says so, with Perbo open,  *)
(* has a command ahead of it or under way that will end it (runner.ts:224).*)
LiveJobsAreUnderWay ==
  Up => \A j \in Jobs : IsLive(j) => at[j] \in {"waiting", "operating"}

(* An outcome once saved stands through every later save, crash and        *)
(* launch, but for a failure to tell it.                                   *)
OutcomesStand ==
  [][\A j \in Jobs : disk[j] \in Outcomes => disk'[j] \in {disk[j], "failed"}]_vars

(* Every command ends, however the ones it waited behind did, or goes with *)
(* Perbo: each being asked for once, the host comes to rest.               *)
EveryCommandEnds == <>[](Active = {})
=============================================================================
