------------------------------ MODULE PidLock ------------------------------
(***************************************************************************)
(* packages/runner/src/lock.ts: the lock files that name a process.  One   *)
(* run per ticket, one loop merge per base and one `perbo serve` per store *)
(* take theirs the same way; only a run rewrites its own while it holds it *)
(* (to say what it waits for), and the other two never take that step.     *)
(*                                                                         *)
(* A taker is one such call in a process of its own, and each action is    *)
(* one file-system call of it.  A lock is not written where it is made:    *)
(* opening leaves an empty file there, and the write that fills it comes   *)
(* after.  Whoever reads it in between reads nothing.                      *)
(***************************************************************************)
EXTENDS FiniteSets

CONSTANTS
  Takers,       \* calls of acquireRunLock, for one ticket
  Hosts,        \* the machines the store is reached from
  HostOf,       \* the machine each taker runs on
  None          \* nobody

ASSUME TakersAssumption ==
  /\ None \notin Takers
  /\ HostOf \in [Takers -> Hosts]

VARIABLES
  present,      \* there is a file at the lock's path
  names,        \* the taker it names: None where it is empty or unreadable
  linked,       \* takers whose open file is the one at the path
  pc,           \* where each taker is
  seen,         \* the taker each one read there
  overlap       \* history: the lock was taken over from a live claimant

vars == <<present, names, linked, pc, seen, overlap>>

Claiming == {"fill", "held", "remove"}
Ended == {"left", "refused", "dead"}

Claimants == {w \in Takers : pc[w] \in Claiming}

TypeOK ==
  /\ present \in BOOLEAN
  /\ names \in Takers \union {None}
  /\ linked \in SUBSET Takers
  /\ pc \in [Takers -> {"open", "read", "judge", "over"} \union Claiming \union Ended]
  /\ seen \in [Takers -> Takers \union {None}]
  /\ overlap \in BOOLEAN

Init ==
  /\ present = FALSE
  /\ names = None
  /\ linked = {}
  /\ pc = [w \in Takers |-> "open"]
  /\ seen = [w \in Takers |-> None]
  /\ overlap = FALSE

Goto(w, here, there) ==
  /\ pc[w] = here
  /\ pc' = [pc EXCEPT ![w] = there]

(* The file at the path is w's open one from here on, and empty. *)
EmptyFile(w) ==
  /\ present' = TRUE
  /\ names' = None
  /\ linked' = linked \union {w}

-----------------------------------------------------------------------------
(* acquireRunLock *)

(* Mutant: the file is opened whether or not there is one. *)
OpenAny(w) ==
  /\ Goto(w, "open", "fill")
  /\ EmptyFile(w)
  /\ UNCHANGED <<seen, overlap>>

(* The exclusive create, or the discovery that a file is there. *)
OpenExclusive(w) ==
  /\ \/ /\ ~present
        /\ Goto(w, "open", "fill")
        /\ EmptyFile(w)
     \/ /\ present
        /\ Goto(w, "open", "read")
        /\ UNCHANGED <<present, names, linked>>
  /\ UNCHANGED <<seen, overlap>>

(* A file that is gone by now, and one that is empty, read the same. *)
Read(w) ==
  /\ Goto(w, "read", "judge")
  /\ seen' = [seen EXCEPT ![w] = IF present THEN names ELSE None]
  /\ UNCHANGED <<present, names, linked, overlap>>

(* Whether the process a lock names may be gone: one of another host is    *)
(* taken for alive, and one whose call ended may still be running.  Any    *)
(* may look alive: a process number is given again.                        *)
MayBeGone(w, holder) == HostOf[holder] = HostOf[w] /\ pc[holder] \in Ended

(* Mutant: a lock is stale where its process is still running. *)
JudgeBackwards(w) ==
  /\ \/ /\ seen[w] # None
        /\ MayBeGone(w, seen[w])
        /\ Goto(w, "judge", "refused")
     \/ /\ seen[w] # None => ~MayBeGone(w, seen[w])
        /\ Goto(w, "judge", "over")
  /\ UNCHANGED <<present, names, linked, seen, overlap>>

Judge(w) ==
  /\ \/ /\ seen[w] # None
        /\ Goto(w, "judge", "refused")
     \/ /\ seen[w] # None => MayBeGone(w, seen[w])
        /\ Goto(w, "judge", "over")
  /\ UNCHANGED <<present, names, linked, seen, overlap>>

(* Taken over, without a second look at what stands there. *)
Over(w) ==
  /\ Goto(w, "over", "fill")
  /\ EmptyFile(w)
  /\ overlap' = (overlap \/ Claimants # {})
  /\ UNCHANGED seen

(* The write, into the open file: nothing at the path changes where that   *)
(* file is no longer there, and over another taker's longer text it leaves *)
(* something nobody can read.                                              *)
Fill(w) ==
  /\ Goto(w, "fill", "held")
  /\ \/ w \in linked /\ names' = w
     \/ w \in linked /\ names \notin {None, w} /\ names' = None
     \/ w \notin linked /\ UNCHANGED names
  /\ UNCHANGED <<present, linked, seen, overlap>>

-----------------------------------------------------------------------------
(* A lock that is held *)

(* parked: the lock is rewritten, which empties it first. *)
Park(w) ==
  /\ Goto(w, "held", "fill")
  /\ EmptyFile(w)
  /\ UNCHANGED <<seen, overlap>>

(* Mutant: a run that ends removes only a lock it can read as another's. *)
ReleaseUnreadOnly(w) ==
  /\ \/ /\ present /\ names # None
        /\ Goto(w, "held", "left")
     \/ /\ present => names = None
        /\ Goto(w, "held", "remove")
  /\ UNCHANGED <<present, names, linked, seen, overlap>>

(* release: a lock that names another is that one's, and stays ... *)
Release(w) ==
  /\ \/ /\ present /\ names \notin {None, w}
        /\ Goto(w, "held", "left")
     \/ /\ present => names \in {None, w}
        /\ Goto(w, "held", "remove")
  /\ UNCHANGED <<present, names, linked, seen, overlap>>

(* ... and any other is removed, whatever stands there by then. *)
Remove(w) ==
  /\ Goto(w, "remove", "left")
  /\ present' = FALSE
  /\ names' = None
  /\ linked' = {}
  /\ UNCHANGED <<seen, overlap>>

(* A process dies wherever it is, and its file stays. *)
Crash(w) ==
  /\ pc[w] \notin Ended
  /\ pc' = [pc EXCEPT ![w] = "dead"]
  /\ UNCHANGED <<present, names, linked, seen, overlap>>

-----------------------------------------------------------------------------
Step(w) ==
  \/ OpenExclusive(w) \/ Read(w) \/ Judge(w) \/ Over(w) \/ Fill(w)
  \/ Park(w) \/ Release(w) \/ Remove(w)

Next == \E w \in Takers : Step(w) \/ Crash(w)

Spec == Init /\ [][Next]_vars

-----------------------------------------------------------------------------
(* Unless the lock was taken over from a live claimant, there is one at    *)
(* most, the file at the path is its own, and once it is filled it names   *)
(* it: a run that waits and rewrites its lock, and one that ends while     *)
(* others start, keep it so.                                               *)
ExclusiveUnlessOverlapped ==
  ~overlap =>
    \A w \in Claimants :
      /\ Claimants = {w}
      /\ present /\ w \in linked
      /\ pc[w] # "fill" => names = w

(* A lock that names a live process is safe from every taker that reads    *)
(* it: the first lock ever taken over from a live claimant is taken over   *)
(* by one that read an empty file or none, or that read a dead process's   *)
(* lock which another had taken over since.                                *)
FirstOverlapIsUnread ==
  [][overlap' /\ ~overlap =>
       \E w \in Takers :
         /\ pc[w] = "over" /\ pc'[w] = "fill"
         /\ seen[w] = None \/ names # seen[w]]_vars

(* A run that ended leaves no lock (lock.ts:58): where no process died and *)
(* no lock was taken over from a live one, nobody's file outlives them.    *)
EndedRunsLeaveNoLock ==
  ~overlap /\ (\A w \in Takers : pc[w] # "dead") /\ Claimants = {} => ~present

(* The lock is its run's for as long as the run is there, and no longer.   *)
LockIsItsRuns == ExclusiveUnlessOverlapped /\ EndedRunsLeaveNoLock
=============================================================================
