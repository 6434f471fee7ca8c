-------------------------- MODULE JobRunnerProofs --------------------------
(***************************************************************************)
(* What JobRunner keeps for every set of commands and repositories, and    *)
(* however many jobs there are.                                            *)
(***************************************************************************)
EXTENDS JobRunner, TLAPS

UnderWay == {"waiting", "operating"}

(* A live job is one that waits or operates, and a job that is stopping is *)
(* one whose signal is aborted.                                            *)
LiveIsUnderWay ==
  \A j \in Jobs :
    /\ at[j] \in UnderWay <=> IsLive(j)
    /\ at[j] \in Tracked => Up /\ what[j] \in Commands
    /\ state[j] = "stopping" => j \in aborted

OwnTicket ==
  \A i, j \in Jobs :
    at[i] \in UnderWay /\ at[j] \in UnderWay /\ InTheWay(what[i], what[j]) => i = j

AdmissionsIn(p) == {i \in Active : Admits(i) /\ RepoOf[what[i]] = p}

IsLast(last, S) ==
  /\ last # 0 => last \in S
  /\ \A i \in S : last # 0 /\ i <= last

(* The tail of a repository is the last of its admissions that is tracked. *)
TailIsLast == \A p \in Repos : IsLast(tail[p], AdmissionsIn(p))

(* An admission with an earlier one before it waits, for the last of them  *)
(* or for one that is later still.                                         *)
WaitsForTheLast ==
  \A p \in Repos : \A i, j \in AdmissionsIn(p) :
    i < j =>
      /\ at[j] = "waiting"
      /\ ahead[j] \in AdmissionsIn(p)
      /\ i <= ahead[j]
      /\ ahead[j] < j

(* What is saved of a job is what is known of it, or older. *)
SavedIsKnown ==
  \A j \in Jobs :
    /\ at[j] = "unasked" => disk[j] = "none" /\ state[j] = "none"
    /\ Up /\ disk[j] \in Outcomes => state[j] \in {disk[j], "failed"}

IInv ==
  /\ TypeOK
  /\ LiveIsUnderWay
  /\ OwnTicket
  /\ TailIsLast
  /\ WaitsForTheLast
  /\ SavedIsKnown

-----------------------------------------------------------------------------
(* Of some jobs, one later than all is the last when it joins them, and    *)
(* the last stays the last when the first of them leaves.                  *)
LEMMA LastJoins ==
  ASSUME NEW S \in SUBSET Jobs, NEW j \in Jobs, \A i \in S : i < j
  PROVE  IsLast(j, S \union {j})
  BY JobsAssumption DEF IsLast, Jobs

LEMMA FirstLeaves ==
  ASSUME NEW S \in SUBSET Jobs, NEW j \in Jobs, NEW last, IsLast(last, S),
         j \in S => \A i \in S : j <= i
  PROVE  IsLast(IF last = j THEN 0 ELSE last, S \ {j})
<1> USE JobsAssumption DEF IsLast, Jobs
<1>1. CASE last = j
  <2>1. j \in S
    BY <1>1
  <2>2. ASSUME NEW i \in S \ {j}
        PROVE  FALSE
    <3>1. i <= j /\ j <= i
      BY <1>1, <2>1, <2>2
    <3> QED
      BY <2>2, <3>1
  <2> QED
    BY <1>1, <2>2
<1>2. CASE last # j
  BY <1>2
<1> QED
  BY <1>1, <1>2

LEMMA InitIInv == Init => IInv
  BY JobsAssumption
  DEF Init, IInv, TypeOK, Jobs, JobStates, LiveIsUnderWay, OwnTicket, TailIsLast, WaitsForTheLast,
      SavedIsKnown, IsLast, AdmissionsIn, Active, UnderWay, Tracked, Served, IsLive, LiveStates, Outcomes

(* Every step keeps the invariant. *)
LEMMA StepIInv == IInv /\ [Next]_vars => IInv'
<1> SUFFICES ASSUME IInv, [Next]_vars
             PROVE  IInv'
  OBVIOUS
<1> USE JobsAssumption
    DEF IInv, TypeOK, Jobs, JobStates, Active, UnderWay, Tracked, Served, IsLive, LiveStates,
        Outcomes, Up
<1>1. ASSUME NEW j \in Jobs, NEW c \in Commands, Start(j, c)
      PROVE  IInv'
  <2>1. TypeOK'
    <3>1. state' \in [Jobs -> JobStates] /\ disk' \in [Jobs -> JobStates]
      BY <1>1 DEF Start, Reserve, Moves, Saved, Busy
    <3>2. at' \in [Jobs -> {"unasked", "done", "gone"} \union Tracked]
      BY <1>1 DEF Start, Reserve, Moves, Saved, Busy
    <3>3. tail' \in [Repos -> Jobs \union {0}]
      <4>1. CASE c \in Admissions
        BY <1>1, <4>1 DEF Start, Reserve, Moves, Saved, Busy
      <4>2. CASE c \notin Admissions
        BY <1>1, <4>2 DEF Start, Reserve, Moves, Saved, Busy
      <4> QED
        BY <4>1, <4>2
    <3>4. ahead' \in [Jobs -> Jobs \union {0}]
      BY <1>1 DEF Start, Reserve, Moves, Saved, Busy
    <3> QED
      BY <1>1, <3>1, <3>2, <3>3, <3>4 DEF Start, Reserve, Moves, Saved, Busy
  <2>2. LiveIsUnderWay'
    BY <1>1 DEF Start, Reserve, Moves, Saved, Busy, LiveIsUnderWay
  <2>3. OwnTicket'
    BY <1>1 DEF Start, Reserve, Moves, Saved, Busy, OwnTicket, LiveIsUnderWay, InTheWay
  <2>4. TailIsLast'
    <3> SUFFICES ASSUME NEW p \in Repos
                 PROVE  IsLast(tail'[p], AdmissionsIn(p)')
      BY DEF TailIsLast, IsLast
    <3>1. IsLast(tail[p], AdmissionsIn(p)) /\ AdmissionsIn(p) \in SUBSET Jobs
      BY DEF TailIsLast, AdmissionsIn
    <3>2. CASE c \in Admissions /\ RepoOf[c] = p
      <4>1. AdmissionsIn(p)' = AdmissionsIn(p) \union {j} /\ tail'[p] = j
        BY <1>1, <3>2 DEF Start, Reserve, Moves, Saved, Busy, AdmissionsIn, Admits
      <4>2. \A i \in AdmissionsIn(p) : i < j
        BY <1>1 DEF Start, Reserve, Moves, Saved, Busy, AdmissionsIn
      <4>3. IsLast(j, AdmissionsIn(p) \union {j})
        BY <3>1, <4>2, LastJoins
      <4> QED
        BY <4>1, <4>3
    <3>3. CASE ~(c \in Admissions /\ RepoOf[c] = p)
      <4>1. AdmissionsIn(p)' = AdmissionsIn(p) /\ tail'[p] = tail[p]
        BY <1>1, <3>3 DEF Start, Reserve, Moves, Saved, Busy, AdmissionsIn, Admits
      <4> QED
        BY <3>1, <4>1
    <3> QED
      BY <3>2, <3>3
  <2>5. WaitsForTheLast'
    BY <1>1 DEF Start, Reserve, Moves, Saved, Busy, WaitsForTheLast, TailIsLast, IsLast, AdmissionsIn, Admits
  <2>6. SavedIsKnown'
    BY <1>1 DEF Start, Reserve, Moves, Saved, Busy, SavedIsKnown, LiveIsUnderWay
  <2> QED
    BY <2>1, <2>2, <2>3, <2>4, <2>5, <2>6
<1>2. ASSUME NEW j \in Jobs, NEW c \in Commands, StartThrows(j, c)
      PROVE  IInv'
  <2>1. TypeOK'
    <3>1. state' \in [Jobs -> JobStates] /\ disk' \in [Jobs -> JobStates]
      BY <1>2 DEF StartThrows, Reserve, Moves, Throws, Busy
    <3>2. at' \in [Jobs -> {"unasked", "done", "gone"} \union Tracked]
      BY <1>2 DEF StartThrows, Reserve, Moves, Throws, Busy
    <3>3. tail' \in [Repos -> Jobs \union {0}]
      <4>1. CASE c \in Admissions
        BY <1>2, <4>1 DEF StartThrows, Reserve, Moves, Throws, Busy
      <4>2. CASE c \notin Admissions
        BY <1>2, <4>2 DEF StartThrows, Reserve, Moves, Throws, Busy
      <4> QED
        BY <4>1, <4>2
    <3>4. ahead' \in [Jobs -> Jobs \union {0}]
      BY <1>2 DEF StartThrows, Reserve, Moves, Throws, Busy
    <3> QED
      BY <1>2, <3>1, <3>2, <3>3, <3>4 DEF StartThrows, Reserve, Moves, Throws, Busy
  <2>2. LiveIsUnderWay'
    BY <1>2 DEF StartThrows, Reserve, Moves, Throws, Busy, LiveIsUnderWay
  <2>3. OwnTicket'
    BY <1>2 DEF StartThrows, Reserve, Moves, Throws, Busy, OwnTicket, LiveIsUnderWay, InTheWay
  <2>4. TailIsLast'
    <3> SUFFICES ASSUME NEW p \in Repos
                 PROVE  IsLast(tail'[p], AdmissionsIn(p)')
      BY DEF TailIsLast, IsLast
    <3>1. IsLast(tail[p], AdmissionsIn(p)) /\ AdmissionsIn(p) \in SUBSET Jobs
      BY DEF TailIsLast, AdmissionsIn
    <3>2. CASE c \in Admissions /\ RepoOf[c] = p
      <4>1. AdmissionsIn(p)' = AdmissionsIn(p) \union {j} /\ tail'[p] = j
        BY <1>2, <3>2 DEF StartThrows, Reserve, Moves, Throws, Busy, AdmissionsIn, Admits
      <4>2. \A i \in AdmissionsIn(p) : i < j
        BY <1>2 DEF StartThrows, Reserve, Moves, Throws, Busy, AdmissionsIn
      <4>3. IsLast(j, AdmissionsIn(p) \union {j})
        BY <3>1, <4>2, LastJoins
      <4> QED
        BY <4>1, <4>3
    <3>3. CASE ~(c \in Admissions /\ RepoOf[c] = p)
      <4>1. AdmissionsIn(p)' = AdmissionsIn(p) /\ tail'[p] = tail[p]
        BY <1>2, <3>3 DEF StartThrows, Reserve, Moves, Throws, Busy, AdmissionsIn, Admits
      <4> QED
        BY <3>1, <4>1
    <3> QED
      BY <3>2, <3>3
  <2>5. WaitsForTheLast'
    BY <1>2 DEF StartThrows, Reserve, Moves, Throws, Busy, WaitsForTheLast, TailIsLast, IsLast, AdmissionsIn, Admits
  <2>6. SavedIsKnown'
    BY <1>2 DEF StartThrows, Reserve, Moves, Throws, Busy, SavedIsKnown, LiveIsUnderWay
  <2> QED
    BY <2>1, <2>2, <2>3, <2>4, <2>5, <2>6
<1>3. ASSUME NEW j \in Jobs, Begin(j)
      PROVE  IInv'
  <2>1. TypeOK'
    BY <1>3 DEF Begin, Moves
  <2>2. LiveIsUnderWay'
    BY <1>3 DEF Begin, Moves, LiveIsUnderWay
  <2>3. OwnTicket'
    BY <1>3 DEF Begin, Moves, OwnTicket, LiveIsUnderWay, InTheWay
  <2>4. TailIsLast'
    BY <1>3 DEF Begin, Moves, TailIsLast, IsLast, AdmissionsIn, Admits
  <2>5. WaitsForTheLast'
    BY <1>3 DEF Begin, Moves, WaitsForTheLast, TailIsLast, IsLast, AdmissionsIn, Admits
  <2>6. SavedIsKnown'
    BY <1>3 DEF Begin, Moves, SavedIsKnown, LiveIsUnderWay
  <2> QED
    BY <2>1, <2>2, <2>3, <2>4, <2>5, <2>6
<1>4. ASSUME NEW j \in Jobs, NeverBegins(j)
      PROVE  IInv'
  <2>1. TypeOK'
    BY <1>4 DEF NeverBegins, Lands, Moves, Saved, Endings, StoppedState
  <2>2. LiveIsUnderWay'
    BY <1>4 DEF NeverBegins, Lands, Moves, Saved, Endings, StoppedState, LiveIsUnderWay
  <2>3. OwnTicket'
    BY <1>4 DEF NeverBegins, Lands, Moves, Saved, Endings, StoppedState, OwnTicket, LiveIsUnderWay, InTheWay
  <2>4. TailIsLast'
    BY <1>4 DEF NeverBegins, Lands, Moves, Saved, Endings, StoppedState, TailIsLast, IsLast, AdmissionsIn, Admits
  <2>5. WaitsForTheLast'
    BY <1>4 DEF NeverBegins, Lands, Moves, Saved, Endings, StoppedState, WaitsForTheLast, TailIsLast, IsLast, AdmissionsIn, Admits
  <2>6. SavedIsKnown'
    BY <1>4 DEF NeverBegins, Lands, Moves, Saved, Endings, StoppedState, SavedIsKnown, LiveIsUnderWay
  <2> QED
    BY <2>1, <2>2, <2>3, <2>4, <2>5, <2>6
<1>5. ASSUME NEW j \in Jobs, Return(j)
      PROVE  IInv'
  <2>1. TypeOK'
    BY <1>5 DEF Return, Lands, Moves, Saved, Endings, StoppedState
  <2>2. LiveIsUnderWay'
    BY <1>5 DEF Return, Lands, Moves, Saved, Endings, StoppedState, LiveIsUnderWay
  <2>3. OwnTicket'
    BY <1>5 DEF Return, Lands, Moves, Saved, Endings, StoppedState, OwnTicket, LiveIsUnderWay, InTheWay
  <2>4. TailIsLast'
    BY <1>5 DEF Return, Lands, Moves, Saved, Endings, StoppedState, TailIsLast, IsLast, AdmissionsIn, Admits
  <2>5. WaitsForTheLast'
    BY <1>5 DEF Return, Lands, Moves, Saved, Endings, StoppedState, WaitsForTheLast, TailIsLast, IsLast, AdmissionsIn, Admits
  <2>6. SavedIsKnown'
    BY <1>5 DEF Return, Lands, Moves, Saved, Endings, StoppedState, SavedIsKnown, LiveIsUnderWay
  <2> QED
    BY <2>1, <2>2, <2>3, <2>4, <2>5, <2>6
<1>6. ASSUME NEW j \in Jobs, Progress(j)
      PROVE  IInv'
  <2>1. TypeOK'
    BY <1>6 DEF Progress
  <2>2. LiveIsUnderWay'
    BY <1>6 DEF Progress, LiveIsUnderWay
  <2>3. OwnTicket'
    BY <1>6 DEF Progress, OwnTicket, LiveIsUnderWay, InTheWay
  <2>4. TailIsLast'
    BY <1>6 DEF Progress, TailIsLast, IsLast, AdmissionsIn, Admits
  <2>5. WaitsForTheLast'
    BY <1>6 DEF Progress, WaitsForTheLast, TailIsLast, IsLast, AdmissionsIn, Admits
  <2>6. SavedIsKnown'
    BY <1>6 DEF Progress, SavedIsKnown, LiveIsUnderWay
  <2> QED
    BY <2>1, <2>2, <2>3, <2>4, <2>5, <2>6
<1>7. ASSUME NEW j \in Jobs, Tell(j)
      PROVE  IInv'
  <2>1. TypeOK'
    BY <1>7 DEF Tell, Moves, Forget
  <2>2. LiveIsUnderWay'
    BY <1>7 DEF Tell, Moves, Forget, LiveIsUnderWay
  <2>3. OwnTicket'
    BY <1>7 DEF Tell, Moves, Forget, OwnTicket, LiveIsUnderWay, InTheWay
  <2>4. TailIsLast'
    <3> SUFFICES ASSUME NEW p \in Repos
                 PROVE  IsLast(tail'[p], AdmissionsIn(p)')
      BY DEF TailIsLast, IsLast
    <3>1. IsLast(tail[p], AdmissionsIn(p)) /\ AdmissionsIn(p) \in SUBSET Jobs
      BY DEF TailIsLast, AdmissionsIn
    <3>2. AdmissionsIn(p)' = AdmissionsIn(p) \ {j}
      BY <1>7 DEF Tell, Moves, Forget, AdmissionsIn, Admits
    <3>3. j \in AdmissionsIn(p) => \A i \in AdmissionsIn(p) : j <= i
      BY <1>7 DEF Tell, Moves, Forget, WaitsForTheLast, AdmissionsIn
    <3>4. tail'[p] = IF tail[p] = j THEN 0 ELSE tail[p]
      BY <1>7 DEF Tell, Moves, Forget
    <3>5. IsLast(IF tail[p] = j THEN 0 ELSE tail[p], AdmissionsIn(p) \ {j})
      BY <3>1, <3>3, FirstLeaves
    <3> QED
      BY <3>2, <3>4, <3>5
  <2>5. WaitsForTheLast'
    BY <1>7 DEF Tell, Moves, Forget, WaitsForTheLast, TailIsLast, IsLast, AdmissionsIn, Admits
  <2>6. SavedIsKnown'
    BY <1>7 DEF Tell, Moves, Forget, SavedIsKnown, LiveIsUnderWay
  <2> QED
    BY <2>1, <2>2, <2>3, <2>4, <2>5, <2>6
<1>8. ASSUME NEW j \in Jobs, TellFails(j)
      PROVE  IInv'
  <2>1. TypeOK'
    <3>1. state' \in [Jobs -> JobStates] /\ disk' \in [Jobs -> JobStates]
      BY <1>8 DEF TellFails, Moves, Throws, Forget
    <3>2. at' \in [Jobs -> {"unasked", "done", "gone"} \union Tracked]
      BY <1>8 DEF TellFails, Moves, Throws, Forget
    <3>3. tail' \in [Repos -> Jobs \union {0}]
      BY <1>8 DEF TellFails, Moves, Throws, Forget
    <3>4. ahead' \in [Jobs -> Jobs \union {0}]
      BY <1>8 DEF TellFails, Moves, Throws, Forget
    <3> QED
      BY <1>8, <3>1, <3>2, <3>3, <3>4 DEF TellFails, Moves, Throws, Forget
  <2>2. LiveIsUnderWay'
    BY <1>8 DEF TellFails, Moves, Throws, Forget, LiveIsUnderWay
  <2>3. OwnTicket'
    BY <1>8 DEF TellFails, Moves, Throws, Forget, OwnTicket, LiveIsUnderWay, InTheWay
  <2>4. TailIsLast'
    <3> SUFFICES ASSUME NEW p \in Repos
                 PROVE  IsLast(tail'[p], AdmissionsIn(p)')
      BY DEF TailIsLast, IsLast
    <3>1. IsLast(tail[p], AdmissionsIn(p)) /\ AdmissionsIn(p) \in SUBSET Jobs
      BY DEF TailIsLast, AdmissionsIn
    <3>2. AdmissionsIn(p)' = AdmissionsIn(p) \ {j}
      BY <1>8 DEF TellFails, Moves, Throws, Forget, AdmissionsIn, Admits
    <3>3. j \in AdmissionsIn(p) => \A i \in AdmissionsIn(p) : j <= i
      BY <1>8 DEF TellFails, Moves, Throws, Forget, WaitsForTheLast, AdmissionsIn
    <3>4. tail'[p] = IF tail[p] = j THEN 0 ELSE tail[p]
      BY <1>8 DEF TellFails, Moves, Throws, Forget
    <3>5. IsLast(IF tail[p] = j THEN 0 ELSE tail[p], AdmissionsIn(p) \ {j})
      BY <3>1, <3>3, FirstLeaves
    <3> QED
      BY <3>2, <3>4, <3>5
  <2>5. WaitsForTheLast'
    <3> SUFFICES ASSUME NEW p \in Repos, NEW h \in AdmissionsIn(p)', NEW i \in AdmissionsIn(p)',
                        h < i
                 PROVE  (/\ at[i] = "waiting"
                         /\ ahead[i] \in AdmissionsIn(p)
                         /\ h <= ahead[i]
                         /\ ahead[i] < i)'
      BY DEF WaitsForTheLast
    <3>1. AdmissionsIn(p)' = AdmissionsIn(p) \ {j}
      BY <1>8 DEF TellFails, Moves, Throws, Forget, AdmissionsIn, Admits
    <3>2. j \in AdmissionsIn(p) => \A k \in AdmissionsIn(p) : j <= k
      BY <1>8 DEF TellFails, Moves, Throws, Forget, WaitsForTheLast, AdmissionsIn
    <3>3. /\ at[i] = "waiting"
          /\ ahead[i] \in AdmissionsIn(p)
          /\ h <= ahead[i]
          /\ ahead[i] < i
      BY <3>1 DEF WaitsForTheLast
    <3>4. ahead[i] # j
      BY <3>1, <3>2, <3>3 DEF AdmissionsIn
    <3>5. i \in Jobs /\ i # j /\ at'[i] = at[i] /\ ahead'[i] = ahead[i]
      BY <1>8, <3>1 DEF TellFails, Moves, Throws, Forget, AdmissionsIn
    <3> QED
      BY <3>1, <3>3, <3>4, <3>5
  <2>6. SavedIsKnown'
    BY <1>8 DEF TellFails, Moves, Throws, Forget, SavedIsKnown, LiveIsUnderWay
  <2> QED
    BY <2>1, <2>2, <2>3, <2>4, <2>5, <2>6
<1>9. ASSUME NEW j \in Jobs, Stop(j)
      PROVE  IInv'
  <2>1. TypeOK'
    BY <1>9 DEF Stop, Saved, Throws
  <2>2. LiveIsUnderWay'
    BY <1>9 DEF Stop, Saved, Throws, LiveIsUnderWay
  <2>3. OwnTicket'
    BY <1>9 DEF Stop, Saved, Throws, OwnTicket, LiveIsUnderWay, InTheWay
  <2>4. TailIsLast'
    BY <1>9 DEF Stop, Saved, Throws, TailIsLast, IsLast, AdmissionsIn, Admits
  <2>5. WaitsForTheLast'
    BY <1>9 DEF Stop, Saved, Throws, WaitsForTheLast, TailIsLast, IsLast, AdmissionsIn, Admits
  <2>6. SavedIsKnown'
    BY <1>9 DEF Stop, Saved, Throws, SavedIsKnown, LiveIsUnderWay
  <2> QED
    BY <2>1, <2>2, <2>3, <2>4, <2>5, <2>6
<1>10. ASSUME Shutdown
      PROVE  IInv'
  <2>1. TypeOK'
    BY <1>10 DEF Shutdown
  <2>2. LiveIsUnderWay'
    BY <1>10 DEF Shutdown, LiveIsUnderWay
  <2>3. OwnTicket'
    BY <1>10 DEF Shutdown, OwnTicket, LiveIsUnderWay, InTheWay
  <2>4. TailIsLast'
    BY <1>10 DEF Shutdown, TailIsLast, IsLast, AdmissionsIn, Admits
  <2>5. WaitsForTheLast'
    BY <1>10 DEF Shutdown, WaitsForTheLast, TailIsLast, IsLast, AdmissionsIn, Admits
  <2>6. SavedIsKnown'
    BY <1>10 DEF Shutdown, SavedIsKnown, LiveIsUnderWay
  <2> QED
    BY <2>1, <2>2, <2>3, <2>4, <2>5, <2>6
<1>11. ASSUME Quit
      PROVE  IInv'
  <2>1. TypeOK'
    BY <1>11 DEF Quit, Down
  <2>2. LiveIsUnderWay'
    BY <1>11 DEF Quit, Down, LiveIsUnderWay
  <2>3. OwnTicket'
    BY <1>11 DEF Quit, Down, OwnTicket, LiveIsUnderWay, InTheWay
  <2>4. TailIsLast'
    BY <1>11 DEF Quit, Down, TailIsLast, IsLast, AdmissionsIn, Admits
  <2>5. WaitsForTheLast'
    BY <1>11 DEF Quit, Down, WaitsForTheLast, TailIsLast, IsLast, AdmissionsIn, Admits
  <2>6. SavedIsKnown'
    BY <1>11 DEF Quit, Down, SavedIsKnown, LiveIsUnderWay
  <2> QED
    BY <2>1, <2>2, <2>3, <2>4, <2>5, <2>6
<1>12. ASSUME Crash
      PROVE  IInv'
  <2>1. TypeOK'
    BY <1>12 DEF Crash, Down
  <2>2. LiveIsUnderWay'
    BY <1>12 DEF Crash, Down, LiveIsUnderWay
  <2>3. OwnTicket'
    BY <1>12 DEF Crash, Down, OwnTicket, LiveIsUnderWay, InTheWay
  <2>4. TailIsLast'
    BY <1>12 DEF Crash, Down, TailIsLast, IsLast, AdmissionsIn, Admits
  <2>5. WaitsForTheLast'
    BY <1>12 DEF Crash, Down, WaitsForTheLast, TailIsLast, IsLast, AdmissionsIn, Admits
  <2>6. SavedIsKnown'
    BY <1>12 DEF Crash, Down, SavedIsKnown, LiveIsUnderWay
  <2> QED
    BY <2>1, <2>2, <2>3, <2>4, <2>5, <2>6
<1>13. ASSUME Open
      PROVE  IInv'
  <2>1. TypeOK'
    BY <1>13 DEF Open, Recovered
  <2>2. LiveIsUnderWay'
    BY <1>13 DEF Open, Recovered, LiveIsUnderWay
  <2>3. OwnTicket'
    BY <1>13 DEF Open, Recovered, OwnTicket, LiveIsUnderWay, InTheWay
  <2>4. TailIsLast'
    BY <1>13 DEF Open, Recovered, TailIsLast, IsLast, AdmissionsIn, Admits
  <2>5. WaitsForTheLast'
    BY <1>13 DEF Open, Recovered, WaitsForTheLast, TailIsLast, IsLast, AdmissionsIn, Admits
  <2>6. SavedIsKnown'
    BY <1>13 DEF Open, Recovered, SavedIsKnown, LiveIsUnderWay
  <2> QED
    BY <2>1, <2>2, <2>3, <2>4, <2>5, <2>6
<1>14. ASSUME UNCHANGED vars
      PROVE  IInv'
  <2>1. TypeOK'
    BY <1>14 DEF vars
  <2>2. LiveIsUnderWay'
    BY <1>14 DEF vars, LiveIsUnderWay
  <2>3. OwnTicket'
    BY <1>14 DEF vars, OwnTicket, LiveIsUnderWay, InTheWay
  <2>4. TailIsLast'
    BY <1>14 DEF vars, TailIsLast, IsLast, AdmissionsIn, Admits
  <2>5. WaitsForTheLast'
    BY <1>14 DEF vars, WaitsForTheLast, TailIsLast, IsLast, AdmissionsIn, Admits
  <2>6. SavedIsKnown'
    BY <1>14 DEF vars, SavedIsKnown, LiveIsUnderWay
  <2> QED
    BY <2>1, <2>2, <2>3, <2>4, <2>5, <2>6
<1> QED
  BY <1>1, <1>2, <1>3, <1>4, <1>5, <1>6, <1>7, <1>8, <1>9, <1>10, <1>11, <1>12, <1>13, <1>14 DEF Next, JobStep, Goes

LEMMA Invariance == Spec => []IInv
<1>1. Init => IInv
  BY InitIInv
<1>2. IInv /\ [Next]_vars => IInv'
  BY StepIInv
<1> QED
  BY <1>1, <1>2, PTL DEF Spec

-----------------------------------------------------------------------------
(* The runner's maps always hold what they are meant to hold.              *)
THEOREM TypeCorrect == Spec => []TypeOK
  BY Invariance, PTL DEF IInv

(* Two commands over one ticket never run at once (runner.ts:70).          *)
THEOREM TicketsTurns == Spec => []TicketsTakeTurns
<1>1. IInv => TicketsTakeTurns
  BY DEF IInv, OwnTicket, UnderWay, TicketsTakeTurns
<1> QED
  BY <1>1, Invariance, PTL

(* An admission begins only once every earlier one into its store is over, *)
(* however each of them ended (runner.ts:83).                              *)
THEOREM AdmissionsTurns == Spec => []AdmissionsTakeTurns
<1>1. IInv => AdmissionsTakeTurns
  <2> SUFFICES ASSUME IInv, NEW i \in Jobs, NEW j \in Jobs, i < j, i \in Active,
                      Admits(i), Admits(j), RepoOf[what[i]] = RepoOf[what[j]],
                      at[j] \in Served
               PROVE  FALSE
    BY DEF AdmissionsTakeTurns
  <2>1. what[i] \in Commands /\ RepoOf[what[i]] \in Repos
    BY JobsAssumption DEF IInv, LiveIsUnderWay, Active
  <2>2. i \in AdmissionsIn(RepoOf[what[i]]) /\ j \in AdmissionsIn(RepoOf[what[i]])
    BY DEF AdmissionsIn, Active, Tracked
  <2>3. at[j] = "waiting"
    BY <2>1, <2>2 DEF IInv, WaitsForTheLast
  <2> QED
    BY <2>3 DEF Served
<1> QED
  BY <1>1, Invariance, PTL

(* Commands in one another's way are never both under way, and admissions  *)
(* begin in the order they were asked for (runner.ts:70, 83).              *)
THEOREM Turns == Spec => []CommandsTakeTurns
<1>1. TicketsTakeTurns /\ AdmissionsTakeTurns => CommandsTakeTurns
  BY DEF CommandsTakeTurns
<1> QED
  BY <1>1, TicketsTurns, AdmissionsTurns, PTL

(* A record that says a job is live is of one that will be ended: it waits *)
(* or operates (runner.ts:224).                                            *)
THEOREM NoJobIsLeftLive == Spec => []LiveJobsAreUnderWay
<1>1. IInv => LiveJobsAreUnderWay
  BY DEF IInv, LiveIsUnderWay, UnderWay, LiveJobsAreUnderWay
<1> QED
  BY <1>1, Invariance, PTL

(* A saved outcome stands through every save, crash and launch, or becomes *)
(* the failure to tell it.                                                 *)
THEOREM SavedOutcomes == Spec => OutcomesStand
<1>1. IInv /\ [Next]_vars => [\A j \in Jobs : disk[j] \in Outcomes => disk'[j] \in {disk[j], "failed"}]_vars
  <2> SUFFICES ASSUME IInv, [Next]_vars, NEW k \in Jobs, disk[k] \in Outcomes
               PROVE  disk'[k] \in {disk[k], "failed"}
    OBVIOUS
  <2> USE JobsAssumption
      DEF IInv, TypeOK, Jobs, JobStates, Active, UnderWay, Tracked, Served, IsLive, LiveStates,
          Outcomes, Up, LiveIsUnderWay, SavedIsKnown, Moves, Saved, Throws
  <2>1. ASSUME NEW j \in Jobs, NEW c \in Commands, Start(j, c) \/ StartThrows(j, c)
        PROVE  disk'[k] \in {disk[k], "failed"}
    BY <2>1 DEF Start, StartThrows, Reserve
  <2>2. ASSUME NEW j \in Jobs, NeverBegins(j) \/ Return(j)
        PROVE  disk'[k] \in {disk[k], "failed"}
    BY <2>2 DEF NeverBegins, Return, Lands
  <2>3. ASSUME NEW j \in Jobs, Begin(j) \/ Tell(j) \/ Progress(j)
        PROVE  disk'[k] \in {disk[k], "failed"}
    BY <2>3 DEF Begin, Tell, Progress
  <2>4. ASSUME NEW j \in Jobs, TellFails(j) \/ Stop(j)
        PROVE  disk'[k] \in {disk[k], "failed"}
    BY <2>4 DEF TellFails, Stop
  <2>5. CASE Shutdown \/ Quit \/ Crash \/ Open \/ UNCHANGED vars
    BY <2>5 DEF Shutdown, Quit, Crash, Down, Open, vars
  <2> QED
    BY <2>1, <2>2, <2>3, <2>4, <2>5 DEF Next, JobStep, Goes
<1> QED
  BY <1>1, Invariance, PTL DEF Spec, OutcomesStand

(* A stop is how the command it reached ends, Perbo closing or not         *)
(* (runner.ts:149).                                                        *)
THEOREM StopsAreKept == Spec => StopIsKept
<1>1. IInv /\ [Next]_vars =>
        [\A j \in Jobs :
           state[j] = "stopping" /\ Up' =>
             state'[j] \in {"stopping", "cancelled"} \/ failures' # failures]_vars
  <2> SUFFICES ASSUME IInv, [Next]_vars, NEW k \in Jobs, state[k] = "stopping", Up',
                      failures' = failures
               PROVE  state'[k] \in {"stopping", "cancelled"}
    OBVIOUS
  <2> USE JobsAssumption
      DEF IInv, TypeOK, Jobs, JobStates, Active, UnderWay, Tracked, Served, IsLive, LiveStates,
          Up, LiveIsUnderWay, Moves, Saved, Throws
  <2>1. ASSUME NEW j \in Jobs, NEW c \in Commands, Start(j, c) \/ StartThrows(j, c)
        PROVE  state'[k] \in {"stopping", "cancelled"}
    BY <2>1 DEF Start, StartThrows, Reserve
  <2>2. ASSUME NEW j \in Jobs, NeverBegins(j) \/ Return(j)
        PROVE  state'[k] \in {"stopping", "cancelled"}
    BY <2>2 DEF NeverBegins, Return, Lands, Endings, StoppedState
  <2>3. ASSUME NEW j \in Jobs, Begin(j) \/ Tell(j) \/ Progress(j)
        PROVE  state'[k] \in {"stopping", "cancelled"}
    BY <2>3 DEF Begin, Tell, Progress
  <2>4. ASSUME NEW j \in Jobs, TellFails(j) \/ Stop(j)
        PROVE  state'[k] \in {"stopping", "cancelled"}
    BY <2>4 DEF TellFails, Stop
  <2>5. CASE Shutdown \/ Quit \/ Crash \/ Open \/ UNCHANGED vars
    BY <2>5 DEF Shutdown, Quit, Crash, Down, Open, vars
  <2> QED
    BY <2>1, <2>2, <2>3, <2>4, <2>5 DEF Next, JobStep, Goes
<1> QED
  BY <1>1, Invariance, PTL DEF Spec, StopIsKept
=============================================================================
