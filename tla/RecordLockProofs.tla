-------------------------- MODULE RecordLockProofs --------------------------
(***************************************************************************)
(* Proofs about RecordLock for any set of writers on any machines.         *)
(***************************************************************************)
EXTENDS RecordLock, TLAPS

(* Only the process that created the breaker is clearing. *)
OneClearer == \A w \in Writers : pc[w] \in Clearing => breaker = w

(* A lock file is its writer's to remove, or a dead writer's. *)
LockNamesHolder == lock # None => pc[lock] \in Holding \union {"dead"}

(* What a waiter judged stale is over for good. *)
JudgedIsOver ==
  \A w \in Writers :
    pc[w] \in {"break", "reread", "rename"} /\ held[w] # None => pc[held[w]] \in Ended

(* A written change is one its writer is past writing. *)
PastWriting ==
  \A w \in Writers : w \in wrote => pc[w] \in {"check", "remove"} \union Ended

(* What anyone read, and the record itself, hold written changes only. *)
OnlyWritten ==
  /\ record \subseteq wrote
  /\ \A w \in Writers : pc[w] = "write" => seen[w] \subseteq wrote

(* The lock names every live writer that holds it. *)
HolderIsNamed == \A w \in Writers : pc[w] \in Holding => lock = w

(* A clearer about to move a judged lock aside still finds that lock. *)
RenamesTheJudged ==
  \A w \in Writers :
    pc[w] = "rename" /\ held[w] # None => lock = held[w] /\ pc[held[w]] = "dead"

(* A writer about to write starts from the record as it stands. *)
StartsFromTheLast == \A w \in Writers : pc[w] = "write" => seen[w] = record

WhileUnstolen ==
  ~stolen => HolderIsNamed /\ RenamesTheJudged /\ StartsFromTheLast /\ NoLostUpdate

IInv ==
  /\ TypeOK
  /\ OneClearer
  /\ LockNamesHolder
  /\ JudgedIsOver
  /\ PastWriting
  /\ OnlyWritten
  /\ WhileUnstolen

LEMMA InitIInv == Init => IInv
  BY WritersAssumption DEF Init, IInv, TypeOK, OneClearer, LockNamesHolder, JudgedIsOver,
     PastWriting, OnlyWritten, WhileUnstolen, HolderIsNamed, RenamesTheJudged,
     StartsFromTheLast, NoLostUpdate, Waiting, Holding, Clearing, Ended

(* Every step keeps the invariant.  A step moves one writer and touches one *)
(* file at most, so each part of it follows from that part and what the     *)
(* step's guard says, but for what holds only while nothing was stolen.     *)
LEMMA StepIInv == IInv /\ [Next]_vars => IInv'
<1> SUFFICES ASSUME IInv, [Next]_vars
             PROVE  IInv'
  OBVIOUS
<1> USE WritersAssumption DEF IInv, TypeOK, Waiting, Holding, Clearing, Ended
<1>1. ASSUME NEW w \in Writers, Create(w)
      PROVE  IInv'
  <2>1. TypeOK'
    BY <1>1 DEF Create, Goto
  <2>2. OneClearer' /\ LockNamesHolder'
    BY <1>1 DEF Create, Goto, OneClearer, LockNamesHolder
  <2>3. JudgedIsOver'
    BY <1>1 DEF Create, Goto, JudgedIsOver
  <2>4. PastWriting' /\ OnlyWritten'
    BY <1>1 DEF Create, Goto, PastWriting, OnlyWritten
  <2>5. WhileUnstolen'
    BY <1>1 DEF Create, Goto, WhileUnstolen, HolderIsNamed, RenamesTheJudged,
    StartsFromTheLast, NoLostUpdate, LockNamesHolder
  <2> QED
    BY <2>1, <2>2, <2>3, <2>4, <2>5
<1>2. ASSUME NEW w \in Writers, Look(w)
      PROVE  IInv'
  <2>1. TypeOK'
    BY <1>2 DEF Look, Goto
  <2>2. OneClearer' /\ LockNamesHolder'
    BY <1>2 DEF Look, Goto, OneClearer, LockNamesHolder
  <2>3. JudgedIsOver'
    BY <1>2 DEF Look, Goto, JudgedIsOver
  <2>4. PastWriting' /\ OnlyWritten'
    BY <1>2 DEF Look, Goto, PastWriting, OnlyWritten
  <2>5. WhileUnstolen'
    BY <1>2 DEF Look, Goto, WhileUnstolen, HolderIsNamed, RenamesTheJudged,
    StartsFromTheLast, NoLostUpdate
  <2> QED
    BY <2>1, <2>2, <2>3, <2>4, <2>5
<1>3. ASSUME NEW w \in Writers, Judge(w)
      PROVE  IInv'
  <2>1. TypeOK'
    BY <1>3 DEF Judge, Goto
  <2>2. OneClearer' /\ LockNamesHolder'
    BY <1>3 DEF Judge, Goto, OneClearer, LockNamesHolder
  <2>3. JudgedIsOver'
    BY <1>3 DEF Judge, Goto, JudgedIsOver, MayBeGone
  <2>4. PastWriting' /\ OnlyWritten'
    BY <1>3 DEF Judge, Goto, PastWriting, OnlyWritten
  <2>5. WhileUnstolen'
    BY <1>3 DEF Judge, Goto, WhileUnstolen, HolderIsNamed, RenamesTheJudged,
    StartsFromTheLast, NoLostUpdate
  <2> QED
    BY <2>1, <2>2, <2>3, <2>4, <2>5
<1>4. ASSUME NEW w \in Writers, Pause(w) \/ Refuse(w)
      PROVE  IInv'
  <2>1. TypeOK'
    BY <1>4 DEF Pause, Refuse, Goto
  <2>2. OneClearer' /\ LockNamesHolder'
    BY <1>4 DEF Pause, Refuse, Goto, OneClearer, LockNamesHolder
  <2>3. JudgedIsOver'
    BY <1>4 DEF Pause, Refuse, Goto, JudgedIsOver
  <2>4. PastWriting' /\ OnlyWritten'
    BY <1>4 DEF Pause, Refuse, Goto, PastWriting, OnlyWritten
  <2>5. WhileUnstolen'
    BY <1>4 DEF Pause, Refuse, Goto, WhileUnstolen, HolderIsNamed, RenamesTheJudged,
    StartsFromTheLast, NoLostUpdate
  <2> QED
    BY <2>1, <2>2, <2>3, <2>4, <2>5
<1>5. ASSUME NEW w \in Writers, Expire(w)
      PROVE  IInv'
  <2>1. TypeOK'
    BY <1>5 DEF Expire
  <2>2. OneClearer' /\ LockNamesHolder'
    BY <1>5 DEF Expire, OneClearer, LockNamesHolder
  <2>3. JudgedIsOver'
    BY <1>5 DEF Expire, JudgedIsOver
  <2>4. PastWriting' /\ OnlyWritten'
    BY <1>5 DEF Expire, PastWriting, OnlyWritten
  <2>5. WhileUnstolen'
    BY <1>5 DEF Expire, WhileUnstolen, HolderIsNamed, RenamesTheJudged,
    StartsFromTheLast, NoLostUpdate
  <2> QED
    BY <2>1, <2>2, <2>3, <2>4, <2>5
<1>6. ASSUME NEW w \in Writers, Break(w)
      PROVE  IInv'
  <2>1. TypeOK'
    BY <1>6 DEF Break, Goto
  <2>2. OneClearer' /\ LockNamesHolder'
    BY <1>6 DEF Break, Goto, OneClearer, LockNamesHolder
  <2>3. JudgedIsOver'
    BY <1>6 DEF Break, Goto, JudgedIsOver
  <2>4. PastWriting' /\ OnlyWritten'
    BY <1>6 DEF Break, Goto, PastWriting, OnlyWritten
  <2>5. WhileUnstolen'
    BY <1>6 DEF Break, Goto, WhileUnstolen, HolderIsNamed, RenamesTheJudged,
    StartsFromTheLast, NoLostUpdate
  <2> QED
    BY <2>1, <2>2, <2>3, <2>4, <2>5
<1>7. ASSUME NEW w \in Writers, Reread(w)
      PROVE  IInv'
  <2>1. TypeOK'
    BY <1>7 DEF Reread, Goto
  <2>2. OneClearer' /\ LockNamesHolder'
    BY <1>7 DEF Reread, Goto, OneClearer, LockNamesHolder
  <2>3. JudgedIsOver'
    BY <1>7 DEF Reread, Goto, JudgedIsOver
  <2>4. PastWriting' /\ OnlyWritten'
    BY <1>7 DEF Reread, Goto, PastWriting, OnlyWritten
  <2>5. WhileUnstolen'
    BY <1>7 DEF Reread, Goto, WhileUnstolen, HolderIsNamed, RenamesTheJudged,
    StartsFromTheLast, NoLostUpdate, JudgedIsOver, LockNamesHolder
  <2> QED
    BY <2>1, <2>2, <2>3, <2>4, <2>5
<1>8. ASSUME NEW w \in Writers, Rename(w)
      PROVE  IInv'
  <2>1. TypeOK'
    BY <1>8 DEF Rename, Goto
  <2>2. OneClearer' /\ LockNamesHolder'
    BY <1>8 DEF Rename, Goto, OneClearer, LockNamesHolder
  <2>3. JudgedIsOver'
    BY <1>8 DEF Rename, Goto, JudgedIsOver
  <2>4. PastWriting' /\ OnlyWritten'
    BY <1>8 DEF Rename, Goto, PastWriting, OnlyWritten
  <2>5. WhileUnstolen'
    BY <1>8 DEF Rename, Goto, WhileUnstolen, HolderIsNamed, RenamesTheJudged,
    StartsFromTheLast, NoLostUpdate, OneClearer
  <2> QED
    BY <2>1, <2>2, <2>3, <2>4, <2>5
<1>9. ASSUME NEW w \in Writers, Unbreak(w)
      PROVE  IInv'
  <2>1. TypeOK'
    BY <1>9 DEF Unbreak, Goto
  <2>2. OneClearer' /\ LockNamesHolder'
    BY <1>9 DEF Unbreak, Goto, OneClearer, LockNamesHolder
  <2>3. JudgedIsOver'
    BY <1>9 DEF Unbreak, Goto, JudgedIsOver
  <2>4. PastWriting' /\ OnlyWritten'
    BY <1>9 DEF Unbreak, Goto, PastWriting, OnlyWritten
  <2>5. WhileUnstolen'
    BY <1>9 DEF Unbreak, Goto, WhileUnstolen, HolderIsNamed, RenamesTheJudged,
    StartsFromTheLast, NoLostUpdate
  <2> QED
    BY <2>1, <2>2, <2>3, <2>4, <2>5
<1>10. ASSUME NEW w \in Writers, ReadRecord(w)
      PROVE  IInv'
  <2>1. TypeOK'
    BY <1>10 DEF ReadRecord, Goto
  <2>2. OneClearer' /\ LockNamesHolder'
    BY <1>10 DEF ReadRecord, Goto, OneClearer, LockNamesHolder
  <2>3. JudgedIsOver'
    BY <1>10 DEF ReadRecord, Goto, JudgedIsOver
  <2>4. PastWriting' /\ OnlyWritten'
    BY <1>10 DEF ReadRecord, Goto, PastWriting, OnlyWritten
  <2>5. WhileUnstolen'
    BY <1>10 DEF ReadRecord, Goto, WhileUnstolen, HolderIsNamed, RenamesTheJudged,
    StartsFromTheLast, NoLostUpdate
  <2> QED
    BY <2>1, <2>2, <2>3, <2>4, <2>5
<1>11. ASSUME NEW w \in Writers, WriteRecord(w)
      PROVE  IInv'
  <2>1. TypeOK'
    BY <1>11 DEF WriteRecord, Goto
  <2>2. OneClearer' /\ LockNamesHolder'
    BY <1>11 DEF WriteRecord, Goto, OneClearer, LockNamesHolder
  <2>3. JudgedIsOver'
    BY <1>11 DEF WriteRecord, Goto, JudgedIsOver
  <2>4. PastWriting' /\ OnlyWritten'
    BY <1>11 DEF WriteRecord, Goto, PastWriting, OnlyWritten
  <2>5. WhileUnstolen'
    BY <1>11 DEF WriteRecord, Goto, WhileUnstolen, HolderIsNamed, RenamesTheJudged,
    StartsFromTheLast, NoLostUpdate, OnlyWritten
  <2> QED
    BY <2>1, <2>2, <2>3, <2>4, <2>5
<1>12. ASSUME NEW w \in Writers, Decline(w) \/ Check(w)
      PROVE  IInv'
  <2>1. TypeOK'
    BY <1>12 DEF Decline, Check, Goto
  <2>2. OneClearer' /\ LockNamesHolder'
    BY <1>12 DEF Decline, Check, Goto, OneClearer, LockNamesHolder
  <2>3. JudgedIsOver'
    BY <1>12 DEF Decline, Check, Goto, JudgedIsOver
  <2>4. PastWriting' /\ OnlyWritten'
    BY <1>12 DEF Decline, Check, Goto, PastWriting, OnlyWritten
  <2>5. WhileUnstolen'
    BY <1>12 DEF Decline, Check, Goto, WhileUnstolen, HolderIsNamed,
    RenamesTheJudged, StartsFromTheLast, NoLostUpdate
  <2> QED
    BY <2>1, <2>2, <2>3, <2>4, <2>5
<1>13. ASSUME NEW w \in Writers, Remove(w)
      PROVE  IInv'
  <2>1. TypeOK'
    BY <1>13 DEF Remove, Goto
  <2>2. OneClearer' /\ LockNamesHolder'
    BY <1>13 DEF Remove, Goto, OneClearer, LockNamesHolder
  <2>3. JudgedIsOver'
    BY <1>13 DEF Remove, Goto, JudgedIsOver
  <2>4. PastWriting' /\ OnlyWritten'
    BY <1>13 DEF Remove, Goto, PastWriting, OnlyWritten
  <2>5. WhileUnstolen'
    BY <1>13 DEF Remove, Goto, WhileUnstolen, HolderIsNamed, RenamesTheJudged,
    StartsFromTheLast, NoLostUpdate
  <2> QED
    BY <2>1, <2>2, <2>3, <2>4, <2>5
<1>14. ASSUME NEW w \in Writers, Crash(w)
      PROVE  IInv'
  <2>1. TypeOK'
    BY <1>14 DEF Crash
  <2>2. OneClearer' /\ LockNamesHolder'
    BY <1>14 DEF Crash, OneClearer, LockNamesHolder
  <2>3. JudgedIsOver'
    BY <1>14 DEF Crash, JudgedIsOver
  <2>4. PastWriting' /\ OnlyWritten'
    BY <1>14 DEF Crash, PastWriting, OnlyWritten
  <2>5. WhileUnstolen'
    BY <1>14 DEF Crash, WhileUnstolen, HolderIsNamed, RenamesTheJudged,
    StartsFromTheLast, NoLostUpdate
  <2> QED
    BY <2>1, <2>2, <2>3, <2>4, <2>5
<1>15. CASE PersonClears
  <2>1. TypeOK'
    BY <1>15 DEF PersonClears
  <2>2. OneClearer' /\ LockNamesHolder'
    BY <1>15 DEF PersonClears, OneClearer, LockNamesHolder
  <2>3. JudgedIsOver' /\ PastWriting' /\ OnlyWritten'
    BY <1>15 DEF PersonClears, JudgedIsOver, PastWriting, OnlyWritten
  <2>4. WhileUnstolen'
    BY <1>15 DEF PersonClears, OneClearer, WhileUnstolen, HolderIsNamed, RenamesTheJudged,
    StartsFromTheLast, NoLostUpdate
  <2> QED
    BY <2>1, <2>2, <2>3, <2>4
<1>16. CASE UNCHANGED vars
  BY <1>16 DEF vars, OneClearer, LockNamesHolder, JudgedIsOver, PastWriting, OnlyWritten,
  WhileUnstolen, HolderIsNamed, RenamesTheJudged, StartsFromTheLast, NoLostUpdate
<1> QED
  BY <1>1, <1>2, <1>3, <1>4, <1>5, <1>6, <1>7, <1>8, <1>9, <1>10, <1>11, <1>12, <1>13,
  <1>14, <1>15, <1>16 DEF Next, Step

THEOREM Invariance == Spec => []IInv
  BY InitIInv, StepIInv, PTL DEF Spec

(* Every variable keeps its type. *)
THEOREM TypeCorrect == Spec => []TypeOK
  BY Invariance, PTL DEF IInv

(* Until a live holder's lock is moved aside, one live writer at most      *)
(* holds it, the file names that writer, and no written change is lost.    *)
THEOREM Exclusion == Spec => []ExclusiveUnlessStolen
  <1>1. IInv => ExclusiveUnlessStolen
    BY DEF IInv, WhileUnstolen, HolderIsNamed, ExclusiveUnlessStolen
  <1> QED
    BY <1>1, Invariance, PTL

(* The first live lock ever moved aside is moved by a waiter that had      *)
(* found no lock: judging a dead process's lock is safe.                   *)
THEOREM FirstTheft == Spec => FirstTheftOfAnAbsentLock
  <1> DEFINE Theft == stolen' /\ ~stolen
             ByOneThatSawNone ==
               \E w \in Writers : pc[w] = "rename" /\ held[w] = None /\ pc'[w] = "unbreak"
  <1>1. ASSUME IInv, Next, Theft
        PROVE  ByOneThatSawNone
    <2>1. PICK w \in Writers : Rename(w)
      BY <1>1 DEF Next, Step, Create, Look, Judge, Pause, Refuse, Expire, Break, Reread,
         Unbreak, ReadRecord, WriteRecord, Decline, Check, Remove, Crash, PersonClears
    <2>2. lock # None /\ pc[lock] # "dead"
      BY <1>1, <2>1 DEF Rename, IInv, TypeOK
    <2>3. pc[w] = "rename" /\ pc'[w] = "unbreak"
      BY <1>1, <2>1 DEF Rename, Goto, IInv, TypeOK
    <2>4. held[w] = None
      BY <1>1, <2>2, <2>3 DEF IInv, WhileUnstolen, RenamesTheJudged
    <2> QED
      BY <2>3, <2>4
  <1>2. IInv /\ [Next]_vars => [Theft => ByOneThatSawNone]_vars
    BY <1>1
  <1> QED
    BY <1>2, Invariance, PTL DEF Spec, FirstTheftOfAnAbsentLock

(* What the callers see is one whole change at a time, each added to the   *)
(* last, until a live holder's lock is moved aside.                        *)
THEOREM Refinement == Spec => SerialSpec
  <1>1. Init => Serial!Init
    BY DEF Init, Serial!Init
  <1>2. IInv /\ [Next]_vars => [Serial!Next]_(Serial!vars)
    <2> SUFFICES ASSUME IInv, [Next]_vars
                 PROVE  Serial!Next \/ UNCHANGED Serial!vars
      OBVIOUS
    <2> USE DEF Serial!vars
    <2>1. ASSUME NEW w \in Writers, WriteRecord(w)
          PROVE  Serial!Next
      <3>1. pc[w] = "write" /\ w \notin wrote
        BY <2>1 DEF WriteRecord, Goto, IInv, PastWriting, Ended
      <3>2. record' = seen[w] \union {w} /\ wrote' = wrote \union {w} /\ stolen' = stolen
        BY <2>1 DEF WriteRecord
      <3>3. CASE stolen
        BY <3>1, <3>2, <3>3 DEF IInv, OnlyWritten, Serial!AddToStale, Serial!Next
      <3>4. CASE ~stolen
        BY <3>1, <3>2, <3>4 DEF IInv, WhileUnstolen, StartsFromTheLast, Serial!Add, Serial!Next
      <3> QED
        BY <3>3, <3>4 DEF IInv, TypeOK
    <2>2. ASSUME NEW w \in Writers, Rename(w)
          PROVE  Serial!Next \/ UNCHANGED Serial!vars
      BY <2>2 DEF Rename, IInv, TypeOK, Serial!Break, Serial!Next
    <2>3. ASSUME NEW w \in Writers,
                 \/ Create(w) \/ Look(w) \/ Judge(w) \/ Pause(w) \/ Refuse(w)
                 \/ Break(w) \/ Reread(w) \/ Unbreak(w) \/ ReadRecord(w)
                 \/ Decline(w) \/ Check(w) \/ Remove(w) \/ Expire(w) \/ Crash(w)
          PROVE  UNCHANGED Serial!vars
      BY <2>3 DEF Create, Look, Judge, Pause, Refuse, Expire, Break, Reread, Unbreak,
         ReadRecord, Decline, Check, Remove, Crash
    <2>4. CASE PersonClears \/ UNCHANGED vars
      BY <2>4 DEF PersonClears, vars
    <2> QED
      BY <2>1, <2>2, <2>3, <2>4 DEF Next, Step
  <1> QED
    BY <1>1, <1>2, Invariance, PTL DEF Spec, SerialSpec, Serial!Spec
=============================================================================
