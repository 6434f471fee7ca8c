--------------------------- MODULE PidLockProofs ---------------------------
(***************************************************************************)
(* What PidLock keeps for every set of takers on every set of machines.    *)
(***************************************************************************)
EXTENDS PidLock, TLAPS

(* While no live claimant was overrun: one claimant, whose file it is,     *)
(* empty until it is filled ...                                            *)
OneClaimant ==
  ~overlap =>
    \A w \in Takers : pc[w] \in Claiming =>
      /\ present
      /\ w \in linked
      /\ \A v \in Takers : pc[v] \in Claiming => v = w
      /\ names = IF pc[w] = "fill" THEN None ELSE w

(* ... and no file without a claimant or a dead process to account for it. *)
FileIsAccountedFor ==
  ~overlap /\ present => \E w \in Takers : pc[w] \in Claiming \union {"dead"}

(* A lock is taken over for a process that is gone, if it named one. *)
OverTheGone ==
  \A w \in Takers : pc[w] = "over" /\ seen[w] # None => pc[seen[w]] \in Ended

IInv == TypeOK /\ OneClaimant /\ FileIsAccountedFor /\ OverTheGone

-----------------------------------------------------------------------------
LEMMA InitIInv == Init => IInv
  BY TakersAssumption
  DEF Init, IInv, TypeOK, OneClaimant, FileIsAccountedFor, OverTheGone, Claiming, Ended

(* Every step keeps the invariant. *)
LEMMA StepIInv == IInv /\ [Next]_vars => IInv'
<1> SUFFICES ASSUME IInv, [Next]_vars
             PROVE  IInv'
  OBVIOUS
<1> USE TakersAssumption DEF IInv, TypeOK, Claiming, Ended
<1>1. ASSUME NEW w \in Takers, OpenExclusive(w)
      PROVE  IInv'
  <2>1. TypeOK'
    BY <1>1 DEF OpenExclusive, Goto, EmptyFile
  <2>2. OneClaimant'
    BY <1>1 DEF OpenExclusive, Goto, EmptyFile, OneClaimant
  <2>3. FileIsAccountedFor'
    BY <1>1 DEF OpenExclusive, Goto, EmptyFile, FileIsAccountedFor
  <2>4. OverTheGone'
    BY <1>1 DEF OpenExclusive, Goto, EmptyFile, OverTheGone
  <2> QED
    BY <2>1, <2>2, <2>3, <2>4
<1>2. ASSUME NEW w \in Takers, Read(w)
      PROVE  IInv'
  <2>1. TypeOK' /\ OverTheGone'
    BY <1>2 DEF Read, Goto, OverTheGone
  <2>2. OneClaimant' /\ FileIsAccountedFor'
    BY <1>2 DEF Read, Goto, OneClaimant, FileIsAccountedFor
  <2> QED
    BY <2>1, <2>2
<1>3. ASSUME NEW w \in Takers, Judge(w)
      PROVE  IInv'
  <2>1. TypeOK'
    BY <1>3 DEF Judge, Goto
  <2>2. OverTheGone'
    BY <1>3 DEF Judge, Goto, MayBeGone, OverTheGone
  <2>3. OneClaimant'
    BY <1>3 DEF Judge, Goto, OneClaimant
  <2>4. FileIsAccountedFor'
    BY <1>3 DEF Judge, Goto, FileIsAccountedFor
  <2> QED
    BY <2>1, <2>2, <2>3, <2>4
<1>4. ASSUME NEW w \in Takers, Over(w)
      PROVE  IInv'
  <2>1. TypeOK'
    BY <1>4 DEF Over, Goto, EmptyFile
  <2>2. OneClaimant'
    BY <1>4 DEF Over, Goto, EmptyFile, OneClaimant, Claimants
  <2>3. FileIsAccountedFor'
    BY <1>4 DEF Over, Goto, EmptyFile, FileIsAccountedFor
  <2>4. OverTheGone'
    BY <1>4 DEF Over, Goto, EmptyFile, OverTheGone
  <2> QED
    BY <2>1, <2>2, <2>3, <2>4
<1>5. ASSUME NEW w \in Takers, Fill(w)
      PROVE  IInv'
  <2>1. TypeOK'
    BY <1>5 DEF Fill, Goto
  <2>2. OneClaimant'
    BY <1>5 DEF Fill, Goto, OneClaimant
  <2>3. FileIsAccountedFor'
    BY <1>5 DEF Fill, Goto, FileIsAccountedFor
  <2>4. OverTheGone'
    BY <1>5 DEF Fill, Goto, OverTheGone
  <2> QED
    BY <2>1, <2>2, <2>3, <2>4
<1>6. ASSUME NEW w \in Takers, Park(w)
      PROVE  IInv'
  <2>1. TypeOK'
    BY <1>6 DEF Park, Goto, EmptyFile
  <2>2. OneClaimant'
    BY <1>6 DEF Park, Goto, EmptyFile, OneClaimant
  <2>3. FileIsAccountedFor'
    BY <1>6 DEF Park, Goto, EmptyFile, FileIsAccountedFor
  <2>4. OverTheGone'
    BY <1>6 DEF Park, Goto, EmptyFile, OverTheGone
  <2> QED
    BY <2>1, <2>2, <2>3, <2>4
<1>7. ASSUME NEW w \in Takers, Release(w)
      PROVE  IInv'
  <2>1. TypeOK'
    BY <1>7 DEF Release, Goto
  <2>2. OneClaimant'
    BY <1>7 DEF Release, Goto, OneClaimant
  <2>3. FileIsAccountedFor'
    BY <1>7 DEF Release, Goto, FileIsAccountedFor, OneClaimant
  <2>4. OverTheGone'
    BY <1>7 DEF Release, Goto, OverTheGone
  <2> QED
    BY <2>1, <2>2, <2>3, <2>4
<1>8. ASSUME NEW w \in Takers, Remove(w)
      PROVE  IInv'
  <2>1. TypeOK'
    BY <1>8 DEF Remove, Goto
  <2>2. OneClaimant'
    BY <1>8 DEF Remove, Goto, OneClaimant
  <2>3. FileIsAccountedFor' /\ OverTheGone'
    BY <1>8 DEF Remove, Goto, FileIsAccountedFor, OverTheGone
  <2> QED
    BY <2>1, <2>2, <2>3
<1>9. ASSUME NEW w \in Takers, Crash(w)
      PROVE  IInv'
  <2>1. TypeOK'
    BY <1>9 DEF Crash
  <2>2. OneClaimant'
    BY <1>9 DEF Crash, OneClaimant
  <2>3. FileIsAccountedFor'
    BY <1>9 DEF Crash, FileIsAccountedFor
  <2>4. OverTheGone'
    BY <1>9 DEF Crash, OverTheGone
  <2> QED
    BY <2>1, <2>2, <2>3, <2>4
<1>10. CASE UNCHANGED vars
  BY <1>10 DEF vars, OneClaimant, FileIsAccountedFor, OverTheGone
<1> QED
  BY <1>1, <1>2, <1>3, <1>4, <1>5, <1>6, <1>7, <1>8, <1>9, <1>10 DEF Next, Step

LEMMA Invariance == Spec => []IInv
  BY InitIInv, StepIInv, PTL DEF Spec

-----------------------------------------------------------------------------
(* Every variable keeps its type. *)
THEOREM TypeCorrect == Spec => []TypeOK
<1>1. IInv => TypeOK
  BY DEF IInv
<1> QED
  BY <1>1, Invariance, PTL

(* Unless a live claimant was overrun, there is one claimant at most and   *)
(* the lock at the path is its own.                                        *)
THEOREM Exclusion == Spec => []ExclusiveUnlessOverlapped
<1>1. ASSUME IInv
      PROVE  ExclusiveUnlessOverlapped
  BY <1>1 DEF IInv, OneClaimant, ExclusiveUnlessOverlapped, Claimants
<1> QED
  BY <1>1, Invariance, PTL

(* Where nobody died and nobody was overrun, the lock goes with the last   *)
(* claimant.                                                               *)
THEOREM NoLockLeft == Spec => []EndedRunsLeaveNoLock
<1>1. ASSUME IInv
      PROVE  EndedRunsLeaveNoLock
  BY <1>1 DEF IInv, FileIsAccountedFor, EndedRunsLeaveNoLock, Claimants
<1> QED
  BY <1>1, Invariance, PTL

(* The lock is its run's for as long as the run is there, and no longer    *)
(* (lock.ts, acquireRunLock and its release).                              *)
THEOREM LockOfItsRun == Spec => []LockIsItsRuns
<1>1. ExclusiveUnlessOverlapped /\ EndedRunsLeaveNoLock => LockIsItsRuns
  BY DEF LockIsItsRuns
<1> QED
  BY <1>1, Exclusion, NoLockLeft, PTL

(* Whoever first overruns a live claimant had not read its lock: it read   *)
(* nothing, or the lock of a process that was gone.                        *)
THEOREM FirstOverlap == Spec => FirstOverlapIsUnread
<1> DEFINE Unread == overlap' /\ ~overlap =>
                       \E w \in Takers :
                         /\ pc[w] = "over" /\ pc'[w] = "fill"
                         /\ seen[w] = None \/ names # seen[w]
<1>1. ASSUME IInv, [Next]_vars
      PROVE  [Unread]_vars
  <2> SUFFICES ASSUME overlap', ~overlap
               PROVE  Unread
    OBVIOUS
  <2>1. PICK w \in Takers : Over(w)
    BY <1>1 DEF Next, Step, vars, OpenExclusive, Read, Judge, Over, Fill, Park, Release,
                Remove, Crash
  <2>2. pc[w] = "over" /\ pc'[w] = "fill"
    BY <1>1, <2>1 DEF IInv, TypeOK, Over, Goto
  <2>3. PICK v \in Takers : pc[v] \in Claiming
    BY <2>1 DEF Over, Claimants
  <2>4. names = IF pc[v] = "fill" THEN None ELSE v
    BY <1>1, <2>3 DEF IInv, OneClaimant
  <2>5. ASSUME seen[w] # None
        PROVE  names # seen[w]
    <3>1. pc[seen[w]] \in Ended
      BY <1>1, <2>2, <2>5 DEF IInv, OverTheGone
    <3>2. seen[w] # v
      BY <2>3, <3>1 DEF Claiming, Ended
    <3> QED
      BY <2>4, <2>5, <3>2
  <2> QED
    BY <2>2, <2>5
<1> QED
  BY <1>1, Invariance, PTL DEF Spec, FirstOverlapIsUnread
=============================================================================
