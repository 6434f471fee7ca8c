----------------------------- MODULE RecordLock -----------------------------
(***************************************************************************)
(* packages/runner/src/record-lock.ts: the lock beside a record that       *)
(* several processes read, add to and write back whole (verdicts.json, a   *)
(* ticket's egress questions).                                             *)
(*                                                                         *)
(* A writer is one call of withRecordLock, in a process of its own.  Each  *)
(* action is one file-system call of it; between two of them any other     *)
(* writer may act, and a process may die.  A lock file is written whole    *)
(* before it is linked into place, so it is absent or names its writer;    *)
(* its token is that name, a call's own.  The temporaries and the file     *)
(* moved aside have unique names, so no other process sees them.           *)
(***************************************************************************)
EXTENDS FiniteSets

CONSTANTS
  Writers,      \* calls of withRecordLock
  Hosts,        \* the machines the store is reached from
  HostOf,       \* the machine each writer runs on
  None          \* no file

ASSUME WritersAssumption ==
  /\ None \notin Writers
  /\ HostOf \in [Writers -> Hosts]

VARIABLES
  lock,         \* the record's lock file: None, or the writer it names
  breaker,      \* the ".clearing" file: None, or the writer that created it
  record,       \* the changes the record holds
  pc,           \* where each writer is
  held,         \* the lock each waiter last read
  seen,         \* the record each writer read under the lock
  expired,      \* writers whose deadline has passed
  wrote,        \* history: the writers that wrote their change
  stolen        \* history: a live holder's lock was moved aside

vars == <<lock, breaker, record, pc, held, seen, expired, wrote, stolen>>

Holding == {"read", "write", "check", "remove"}
Clearing == {"reread", "rename", "unbreak"}
Waiting == {"create", "look", "judge", "break", "wait"} \union Clearing
Ended == {"left", "refused", "dead"}

TypeOK ==
  /\ lock \in Writers \union {None}
  /\ breaker \in Writers \union {None}
  /\ record \in SUBSET Writers
  /\ pc \in [Writers -> Waiting \union Holding \union Ended]
  /\ held \in [Writers -> Writers \union {None}]
  /\ seen \in [Writers -> SUBSET Writers]
  /\ expired \in SUBSET Writers
  /\ wrote \in SUBSET Writers
  /\ stolen \in BOOLEAN

Init ==
  /\ lock = None
  /\ breaker = None
  /\ record = {}
  /\ pc = [w \in Writers |-> "create"]
  /\ held = [w \in Writers |-> None]
  /\ seen = [w \in Writers |-> {}]
  /\ expired = {}
  /\ wrote = {}
  /\ stolen = FALSE

Goto(w, here, there) ==
  /\ pc[w] = here
  /\ pc' = [pc EXCEPT ![w] = there]

-----------------------------------------------------------------------------
(* acquire *)

(* Mutant: the lock is written over whatever stands there. *)
CreateOver(w) ==
  /\ Goto(w, "create", "read")
  /\ lock' = w
  /\ UNCHANGED <<breaker, record, held, seen, expired, wrote, stolen>>

(* Link the complete lock into place, or find one already there. *)
Create(w) ==
  /\ \/ /\ lock = None
        /\ Goto(w, "create", "read")
        /\ lock' = w
     \/ /\ lock # None
        /\ Goto(w, "create", "look")
        /\ UNCHANGED lock
  /\ UNCHANGED <<breaker, record, held, seen, expired, wrote, stolen>>

(* Read what stands there, which may be nothing by now. *)
Look(w) ==
  /\ Goto(w, "look", "judge")
  /\ held' = [held EXCEPT ![w] = lock]
  /\ UNCHANGED <<lock, breaker, record, seen, expired, wrote, stolen>>

(* Whether the process a lock names may be gone, and may be alive: a lock  *)
(* of another host names a process this one cannot ask about, and a call   *)
(* that ended may have ended its process or not.                           *)
MayBeGone(w, holder) == HostOf[holder] = HostOf[w] /\ pc[holder] \in Ended
MayBeAlive(w, holder) == HostOf[holder] # HostOf[w] \/ pc[holder] # "dead"

(* No lock at all, or one whose process is gone, is stale. *)
Judge(w) ==
  /\ \/ /\ held[w] # None => MayBeGone(w, held[w])
        /\ Goto(w, "judge", "break")
     \/ /\ held[w] # None
        /\ MayBeAlive(w, held[w])
        /\ Goto(w, "judge", "wait")
  /\ UNCHANGED <<lock, breaker, record, held, seen, expired, wrote, stolen>>

(* Mutant: the deadline is never looked at. *)
PauseAgain(w) ==
  /\ Goto(w, "wait", "create")
  /\ UNCHANGED <<lock, breaker, record, held, seen, expired, wrote, stolen>>

(* Not stale, or another waiter is clearing it: pause and try again ... *)
Pause(w) ==
  /\ w \notin expired
  /\ Goto(w, "wait", "create")
  /\ UNCHANGED <<lock, breaker, record, held, seen, expired, wrote, stolen>>

(* ... or refuse, once the deadline has passed. *)
Refuse(w) ==
  /\ w \in expired
  /\ Goto(w, "wait", "refused")
  /\ UNCHANGED <<lock, breaker, record, held, seen, expired, wrote, stolen>>

(* The clock passes this writer's deadline. *)
Expire(w) ==
  /\ pc[w] \in Waiting
  /\ w \notin expired
  /\ expired' = expired \union {w}
  /\ UNCHANGED <<lock, breaker, record, pc, held, seen, wrote, stolen>>

-----------------------------------------------------------------------------
(* clearStale *)

(* Clearing is itself exclusive, through a second file. *)
Break(w) ==
  /\ \/ /\ breaker = None
        /\ Goto(w, "break", "reread")
        /\ breaker' = w
     \/ /\ breaker # None
        /\ Goto(w, "break", "wait")
        /\ UNCHANGED breaker
  /\ UNCHANGED <<lock, record, held, seen, expired, wrote, stolen>>

(* Mutant: the lock is moved without being read again. *)
RereadNothing(w) ==
  /\ Goto(w, "reread", "rename")
  /\ UNCHANGED <<lock, breaker, record, held, seen, expired, wrote, stolen>>

(* Only the lock that was judged is moved: read it again. *)
Reread(w) ==
  /\ \/ lock = held[w] /\ Goto(w, "reread", "rename")
     \/ lock # held[w] /\ Goto(w, "reread", "unbreak")
  /\ UNCHANGED <<lock, breaker, record, held, seen, expired, wrote, stolen>>

(* Move aside whatever stands there; nothing there is no error. *)
Rename(w) ==
  /\ Goto(w, "rename", "unbreak")
  /\ lock' = None
  /\ stolen' = (stolen \/ (lock # None /\ pc[lock] # "dead"))
  /\ UNCHANGED <<breaker, record, held, seen, expired, wrote>>

Unbreak(w) ==
  /\ Goto(w, "unbreak", "create")
  /\ breaker' = None
  /\ UNCHANGED <<lock, record, held, seen, expired, wrote, stolen>>

-----------------------------------------------------------------------------
(* The change, and the release that follows it however it ended. *)

(* Mutant: the change keeps what it knew before it took the lock. *)
ReadRecordEarlier(w) ==
  /\ Goto(w, "read", "write")
  /\ UNCHANGED <<lock, breaker, record, held, seen, expired, wrote, stolen>>

ReadRecord(w) ==
  /\ Goto(w, "read", "write")
  /\ seen' = [seen EXCEPT ![w] = record]
  /\ UNCHANGED <<lock, breaker, record, held, expired, wrote, stolen>>

(* The record is replaced whole, from what was read. *)
WriteRecord(w) ==
  /\ Goto(w, "write", "check")
  /\ record' = seen[w] \union {w}
  /\ wrote' = wrote \union {w}
  /\ UNCHANGED <<lock, breaker, held, seen, expired, stolen>>

(* The change throws, or declines to write. *)
Decline(w) ==
  /\ Goto(w, "write", "check")
  /\ UNCHANGED <<lock, breaker, record, held, seen, expired, wrote, stolen>>

(* A lock that names another holder is theirs. *)
Check(w) ==
  /\ \/ lock = w /\ Goto(w, "check", "remove")
     \/ lock # w /\ Goto(w, "check", "left")
  /\ UNCHANGED <<lock, breaker, record, held, seen, expired, wrote, stolen>>

Remove(w) ==
  /\ Goto(w, "remove", "left")
  /\ lock' = None
  /\ UNCHANGED <<breaker, record, held, seen, expired, wrote, stolen>>

-----------------------------------------------------------------------------
(* A process dies wherever it is, and its files stay. *)
Crash(w) ==
  /\ pc[w] \notin Ended
  /\ pc' = [pc EXCEPT ![w] = "dead"]
  /\ UNCHANGED <<lock, breaker, record, held, seen, expired, wrote, stolen>>

(* What a refusal asks of a person: remove what a gone process left. *)
PersonClears ==
  /\ \E w \in Writers : pc[w] = "refused"
  /\ {lock, breaker} # {None}
  /\ \A file \in {lock, breaker} : file # None => pc[file] = "dead"
  /\ lock' = None
  /\ breaker' = None
  /\ UNCHANGED <<record, pc, held, seen, expired, wrote, stolen>>

Step(w) ==
  \/ Create(w) \/ Look(w) \/ Judge(w) \/ Pause(w) \/ Refuse(w)
  \/ Break(w) \/ Reread(w) \/ Rename(w) \/ Unbreak(w)
  \/ ReadRecord(w) \/ WriteRecord(w) \/ Decline(w) \/ Check(w) \/ Remove(w)

Next ==
  \/ \E w \in Writers : Step(w) \/ Expire(w) \/ Crash(w)
  \/ PersonClears

(* A process that runs goes on, and time passes; nobody need crash or help. *)
Fairness == \A w \in Writers : WF_vars(Step(w)) /\ WF_vars(Expire(w))

Spec == Init /\ [][Next]_vars
FairSpec == Spec /\ Fairness

-----------------------------------------------------------------------------
(* The writes are serialised and each starts from the last: every change   *)
(* written is in the record (record-lock.ts:28).                           *)
NoLostUpdate == wrote \subseteq record

(* Unless a live holder's lock was moved aside, one live writer at most is *)
(* between taking the lock and letting it go, the lock file names it, and  *)
(* no change that was written is lost.                                     *)
ExclusiveUnlessStolen ==
  ~stolen =>
    /\ \A v, w \in Writers : pc[v] \in Holding /\ pc[w] \in Holding => v = w
    /\ \A w \in Writers : pc[w] \in Holding => lock = w
    /\ NoLostUpdate

(* Reading the lock again under the breaker protects every waiter that     *)
(* judged a dead process's lock: the first live lock ever moved aside is   *)
(* moved by a waiter that had found no lock there at all.                  *)
FirstTheftOfAnAbsentLock ==
  [][stolen' /\ ~stolen =>
       \E w \in Writers : pc[w] = "rename" /\ held[w] = None /\ pc'[w] = "unbreak"]_vars

(* Every call ends: it makes its change, or refuses once its deadline has  *)
(* passed, whatever a dead process left behind.                            *)
EveryWriterEnds == \A w \in Writers : <>(pc[w] \in Ended)

(* While no live lock was moved aside, what the callers see is one whole   *)
(* change at a time.                                                       *)
Serial == INSTANCE SerialRecord WITH broken <- stolen
SerialSpec == Serial!Spec
=============================================================================
