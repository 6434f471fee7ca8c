-------------------------- MODULE LoopMergeProofs --------------------------
(***************************************************************************)
(* What LoopMerge keeps for every set of pull requests and mergers.        *)
(***************************************************************************)
EXTENDS LoopMerge, SequenceTheorems, TLAPS

(* Every branch has a commit, none holds more of the base than there is,   *)
(* and a review approved a head the branch had.                            *)
BranchesAreOfTheBase ==
  \A p \in Pulls :
    /\ HeadOf(p) >= 1
    /\ \A i \in 1..HeadOf(p) : branch[p][i].level <= Tip
    /\ pull[p].approved \subseteq 1..HeadOf(p)

(* What a decision was made on: commits of the loop alone, and an approval *)
(* that carries to the head.                                               *)
Backed(p, head) ==
  /\ head \in 1..HeadOf(p)
  /\ \A i \in 1..head : branch[p][i].by = "loop"
  /\ \E h \in pull[p].approved : Carries(p, h, head)

(* It still stands while the merger goes on from it. *)
DecisionsStand ==
  \A m \in Mergers :
    merger[m].at \in {"read", "decided", "agreed"} =>
      /\ merger[m].pull \in Pulls
      /\ \A p \in Pulls, head \in Nat : merger[m].pull = p /\ merger[m].head = head => Backed(p, head)

TipsWereRead == \A m \in Mergers : merger[m].tip <= Tip

IInv ==
  /\ TypeOK /\ BranchesAreOfTheBase /\ TipsWereRead
  /\ LockFollowsTheMerge /\ MergesOntoWhatItRead /\ DecisionsStand

-----------------------------------------------------------------------------
(* Nothing that a decision rests on is taken back: branches and the base   *)
(* are appended to, and an approval stays.                                 *)
Grows(p) ==
  /\ Len(branch'[p]) >= Len(branch[p])
  /\ \A i \in 1..Len(branch[p]) : branch'[p][i] = branch[p][i]
  /\ pull[p].approved \subseteq pull'[p].approved

BaseGrows ==
  /\ Len(base') >= Len(base)
  /\ \A t \in 1..Len(base) : base'[t] = base[t]

LEMMA LandedGrows ==
  ASSUME TypeOK, NEW p \in Pulls, NEW by \in {"loop", "person"}, NEW touches \in SUBSET Pulls,
         Landed(p, by, touches)
  PROVE  /\ base' \in Seq(BaseCommits) /\ Len(base') = Len(base) + 1 /\ BaseGrows
         /\ base'[Len(base) + 1].by = by
         /\ pull' = [pull EXCEPT ![p].state = "merged"]
<1> DEFINE c == [by |-> by, touches |-> touches]
<1>1. c \in BaseCommits /\ base \in Seq(BaseCommits) /\ base' = Append(base, c)
  BY DEF Landed, BaseCommits, TypeOK
<1> HIDE DEF c
<1>2. /\ base' \in Seq(BaseCommits) /\ Len(base') = Len(base) + 1
      /\ \A i \in 1..Len(base) : base'[i] = base[i]
      /\ base'[Len(base) + 1] = c
  BY <1>1, AppendProperties
<1>3. Len(base) \in Nat
  BY <1>1, LenProperties
<1> QED
  BY <1>2, <1>3 DEF BaseGrows, c, Landed

LEMMA PlacesHold ==
  ASSUME TypeOK, NEW m \in Mergers
  PROVE  /\ \A x \in Locked : [merger EXCEPT ![m].at = x] \in [Mergers -> Places]
         /\ \A r \in Places : [merger EXCEPT ![m] = r] \in [Mergers -> Places]
         /\ Idle \in Places
<1>1. merger[m] \in Places
  BY DEF TypeOK
<1>2. ASSUME NEW x \in Locked
      PROVE  [merger[m] EXCEPT !.at = x] \in Places
  BY <1>1, <1>2 DEF Places
<1> QED
  BY <1>2 DEF TypeOK, Places, Idle

PullRecords == [state: {"open", "merged", "closed"}, green: BOOLEAN, approved: SUBSET Nat]

LEMMA PullsHold ==
  ASSUME TypeOK, NEW p
  PROVE  /\ \A x \in {"open", "merged", "closed"} : [pull EXCEPT ![p].state = x] \in [Pulls -> PullRecords]
         /\ \A x \in BOOLEAN : [pull EXCEPT ![p].green = x] \in [Pulls -> PullRecords]
         /\ \A x \in SUBSET Nat : [pull EXCEPT ![p].approved = x] \in [Pulls -> PullRecords]
<1>1. pull \in [Pulls -> PullRecords]
  BY DEF TypeOK, PullRecords
<1>2. CASE p \in Pulls
  <2>1. pull[p] \in PullRecords
    BY <1>1, <1>2
  <2>2. ASSUME NEW x \in {"open", "merged", "closed"}
        PROVE  [pull[p] EXCEPT !.state = x] \in PullRecords
    BY <2>1 DEF PullRecords
  <2>3. ASSUME NEW x \in BOOLEAN
        PROVE  [pull[p] EXCEPT !.green = x] \in PullRecords
    BY <2>1 DEF PullRecords
  <2>4. ASSUME NEW x \in SUBSET Nat
        PROVE  [pull[p] EXCEPT !.approved = x] \in PullRecords
    BY <2>1 DEF PullRecords
  <2> QED
    BY <1>1, <1>2, <2>2, <2>3, <2>4
<1>3. CASE p \notin Pulls
  BY <1>1, <1>3
<1> QED
  BY <1>2, <1>3

LEMMA ObservedAsItIs ==
  ASSUME NEW p, NEW seen \in Observe(p)
  PROVE  /\ seen.open = (pull[p].state = "open")
         /\ seen.head = HeadOf(p)
         /\ seen.approved = pull[p].approved
<1>1. PICK mergeable :
        seen = [open |-> pull[p].state = "open", head |-> HeadOf(p), mergeable |-> mergeable,
                green |-> pull[p].green, approved |-> pull[p].approved]
  BY Zenon DEF Observe
<1> QED
  BY <1>1

LEMMA TypeStep == TypeOK /\ BranchesAreOfTheBase /\ [Next]_vars => TypeOK'
<1> SUFFICES ASSUME TypeOK, BranchesAreOfTheBase, [Next]_vars
             PROVE  TypeOK'
  OBVIOUS
<1> USE MergeAssumption
<1>len. /\ \A p \in Pulls : HeadOf(p) \in Nat /\ branch[p] \in Seq(Commits)
        /\ Tip \in Nat
  BY LenProperties DEF TypeOK, HeadOf, Tip
<1>1. ASSUME NEW m \in Mergers, MergerStep(m)
      PROVE  TypeOK'
  <2>1. ASSUME NEW p \in Pulls, ReadFirst(m, p)
        PROVE  TypeOK'
    <3>1. PICK seen \in Observe(p) :
            merger' = [merger EXCEPT ![m] = [at |-> "read", pull |-> p, head |-> seen.head, tip |-> 0]]
      BY <2>1 DEF ReadFirst
    <3>2. seen.head = HeadOf(p)
      BY ObservedAsItIs
    <3>3. merger' \in [Mergers -> Places]
      BY <3>1, <3>2, <1>len, PlacesHold DEF Places
    <3> QED
      BY <2>1, <3>3 DEF ReadFirst, worldVars, TypeOK
  <2>2. CASE TakeLock(m)
    <3>1. \/ merger' = [merger EXCEPT ![m] = Idle] /\ UNCHANGED lock
          \/ merger' = [merger EXCEPT ![m].at = "decided"] /\ lock' = m
      BY <2>2 DEF TakeLock
    <3>2. merger' \in [Mergers -> Places] /\ lock' \in Mergers \union {"free", "dead"}
      <4>1. CASE merger' = [merger EXCEPT ![m] = Idle] /\ UNCHANGED lock
        BY <4>1, PlacesHold DEF TypeOK
      <4>2. CASE merger' = [merger EXCEPT ![m].at = "decided"] /\ lock' = m
        BY <4>2, PlacesHold DEF Locked
      <4> QED
        BY <3>1, <4>1, <4>2
    <3> QED
      BY <2>2, <3>2 DEF TakeLock, worldVars, TypeOK
  <2>3. CASE ReadAgain(m)
    <3>1. PICK now \in Observe(merger[m].pull) :
            IF StillMerges(merger[m].head, now)
            THEN merger' = [merger EXCEPT ![m].at = "agreed", ![m].head = now.head, ![m].tip = Tip] /\ UNCHANGED lock
            ELSE merger' = [merger EXCEPT ![m] = Idle] /\ lock' = Released(m, TRUE)
      BY <2>3 DEF ReadAgain
    <3>2. CASE StillMerges(merger[m].head, now)
      <4>1. merger' = [merger EXCEPT ![m] = [at |-> "agreed", pull |-> merger[m].pull, head |-> merger[m].head, tip |-> Tip]]
        BY <3>1, <3>2 DEF StillMerges, TypeOK, Places
      <4>2. merger' \in [Mergers -> Places]
        BY <4>1, <1>len, PlacesHold DEF TypeOK, Places, Locked
      <4> QED
        BY <2>3, <3>1, <3>2, <4>2 DEF ReadAgain, worldVars, TypeOK
    <3>3. CASE ~StillMerges(merger[m].head, now)
      <4>1. merger' \in [Mergers -> Places] /\ lock' \in Mergers \union {"free", "dead"}
        BY <3>1, <3>3, PlacesHold DEF Released, TypeOK
      <4> QED
        BY <2>3, <4>1 DEF ReadAgain, worldVars, TypeOK
    <3> QED
      BY <3>2, <3>3
  <2>4. CASE Merge(m)
    <3> DEFINE p == merger[m].pull
    <3>1. merger' \in [Mergers -> Places]
      BY <2>4, PlacesHold DEF Merge, Locked
    <3>2. ASSUME pull[p].state = "open", NEW touches \in SUBSET (Pulls \ {p}), Landed(p, "loop", touches)
          PROVE  pull' \in [Pulls -> PullRecords] /\ base' \in Seq(BaseCommits)
      <4>1. [by |-> "loop", touches |-> touches] \in BaseCommits
        BY DEF BaseCommits
      <4> QED
        BY <3>2, <4>1, PullsHold, AppendProperties DEF Landed, TypeOK
    <3>3. pull' \in [Pulls -> PullRecords] /\ base' \in Seq(BaseCommits)
      BY <2>4, <3>2 DEF Merge, TypeOK, PullRecords
    <3> QED
      BY <2>4, <3>1, <3>3 DEF Merge, TypeOK, PullRecords
  <2>5. CASE Return(m)
    <3>1. merger' \in [Mergers -> Places] /\ lock' \in Mergers \union {"free", "dead"}
      BY <2>5, PlacesHold DEF Return, Released, TypeOK
    <3> QED
      BY <2>5, <3>1 DEF Return, worldVars, TypeOK
  <2>6. CASE Dies(m)
    <3>1. merger' \in [Mergers -> Places] /\ lock' \in Mergers \union {"free", "dead"}
      BY <2>6, PlacesHold DEF Dies, TypeOK
    <3> QED
      BY <2>6, <3>1 DEF Dies, Happens, TypeOK
  <2> QED
    BY <1>1, <2>1, <2>2, <2>3, <2>4, <2>5, <2>6 DEF MergerStep
<1>2. ASSUME NEW p \in Pulls, PullStep(p)
      PROVE  TypeOK'
  <2>1. ASSUME NEW by \in Authors, Push(p, by)
        PROVE  TypeOK'
    <3>1. PICK content \in {branch[p][HeadOf(p)].content, HeadOf(p) + 1}, level \in {branch[p][HeadOf(p)].level, Tip} :
            branch' = [branch EXCEPT ![p] = Append(@, [by |-> by, content |-> content, level |-> level])]
      BY <2>1 DEF Push
    <3>2. [by |-> by, content |-> content, level |-> level] \in Commits
      <4>1. HeadOf(p) \in 1..Len(branch[p])
        BY <1>len DEF BranchesAreOfTheBase, HeadOf
      <4>2. branch[p][HeadOf(p)] \in Commits
        BY <1>len, <4>1, ElementOfSeq
      <4> QED
        BY <4>2, <1>len DEF Commits, Authors
    <3>3. branch' \in [Pulls -> Seq(Commits)]
      BY <3>1, <3>2, <1>len, AppendProperties DEF TypeOK
    <3>4. pull' \in [Pulls -> PullRecords]
      BY <2>1, PullsHold DEF Push
    <3>5. events' \in 0..MaxEvents /\ UNCHANGED <<base, lock, merger>>
      BY <2>1 DEF Push, Happens, TypeOK
    <3> QED
      BY <3>3, <3>4, <3>5 DEF TypeOK, PullRecords
  <2>2. CASE Approve(p)
    <3>1. pull[p].approved \union {HeadOf(p)} \in SUBSET Nat
      BY <1>len DEF TypeOK
    <3>2. pull' \in [Pulls -> PullRecords]
      BY <2>2, <3>1, PullsHold DEF Approve
    <3> QED
      BY <2>2, <3>2 DEF Approve, TypeOK, PullRecords
  <2>3. CASE Checks(p)
    <3>1. pull' \in [Pulls -> PullRecords]
      BY <2>3, PullsHold DEF Checks, TypeOK
    <3>2. events' \in 0..MaxEvents /\ UNCHANGED <<branch, base, lock, merger>>
      BY <2>3 DEF Checks, Happens, TypeOK
    <3> QED
      BY <3>1, <3>2 DEF TypeOK, PullRecords
  <2>4. CASE PersonEnds(p)
    <3>1. ASSUME NEW touches \in SUBSET (Pulls \ {p}), Landed(p, "person", touches)
          PROVE  pull' \in [Pulls -> PullRecords] /\ base' \in Seq(BaseCommits)
      <4>1. [by |-> "person", touches |-> touches] \in BaseCommits
        BY DEF BaseCommits
      <4> QED
        BY <3>1, <4>1, PullsHold, AppendProperties DEF Landed, TypeOK
    <3>2. ASSUME pull' = [pull EXCEPT ![p].state = "closed"], UNCHANGED base
          PROVE  pull' \in [Pulls -> PullRecords] /\ base' \in Seq(BaseCommits)
      BY <3>2, PullsHold DEF TypeOK
    <3>3. pull' \in [Pulls -> PullRecords] /\ base' \in Seq(BaseCommits)
      BY <2>4, <3>1, <3>2 DEF PersonEnds
    <3> QED
      BY <2>4, <3>3 DEF PersonEnds, Happens, TypeOK, PullRecords
  <2> QED
    BY <1>2, <2>1, <2>2, <2>3, <2>4 DEF PullStep
<1>3. CASE BasePushed
  <2>1. PICK touches \in SUBSET Pulls : base' = Append(base, [by |-> "person", touches |-> touches])
    BY <1>3 DEF BasePushed
  <2>2. [by |-> "person", touches |-> touches] \in BaseCommits
    BY DEF BaseCommits
  <2>3. base' \in Seq(BaseCommits)
    BY <2>1, <2>2, AppendProperties DEF TypeOK
  <2> QED
    BY <1>3, <2>3 DEF BasePushed, Happens, TypeOK
<1>4. CASE UNCHANGED vars
  BY <1>4 DEF vars, TypeOK
<1> QED
  BY <1>1, <1>2, <1>3, <1>4 DEF Next

-----------------------------------------------------------------------------
(* A step appends to the branches and to the base, or leaves them. *)
LEMMA StepGrows ==
  ASSUME TypeOK, BranchesAreOfTheBase, [Next]_vars
  PROVE  BaseGrows /\ (\A p \in Pulls : Grows(p)) /\ BranchesAreOfTheBase'
<1>len. /\ \A p \in Pulls : HeadOf(p) \in Nat /\ branch[p] \in Seq(Commits) /\ HeadOf(p) = Len(branch[p])
        /\ Tip \in Nat /\ Tip = Len(base) /\ base \in Seq(BaseCommits)
  BY LenProperties DEF TypeOK, HeadOf, Tip
<1>lev. ASSUME NEW q \in Pulls, NEW i \in 1..HeadOf(q)
        PROVE  branch[q][i].level \in Nat
  <2>1. branch[q][i] \in Commits
    BY <1>len, ElementOfSeq
  <2> QED
    BY <2>1 DEF Commits
<1>same. ASSUME UNCHANGED <<branch, base>>, \A p \in Pulls : pull'[p].approved = pull[p].approved
         PROVE  BaseGrows /\ (\A p \in Pulls : Grows(p)) /\ BranchesAreOfTheBase'
  BY <1>same, <1>len DEF BaseGrows, Grows, BranchesAreOfTheBase, HeadOf, Tip
<1>lands. ASSUME NEW p \in Pulls, NEW by \in {"loop", "person"}, NEW touches \in SUBSET Pulls,
                 Landed(p, by, touches), UNCHANGED branch
          PROVE  BaseGrows /\ (\A q \in Pulls : Grows(q)) /\ BranchesAreOfTheBase'
  <2>1. BaseGrows /\ Len(base') = Len(base) + 1 /\ pull' = [pull EXCEPT ![p].state = "merged"]
    BY <1>lands, LandedGrows
  <2>2. \A q \in Pulls : pull'[q].approved = pull[q].approved
    BY <2>1 DEF TypeOK
  <2>3. \A q \in Pulls : Grows(q)
    BY <1>lands, <1>len, <2>2 DEF Grows
  <2>5. BranchesAreOfTheBase'
    BY <1>lands, <1>len, <2>1, <2>2, <1>lev DEF BranchesAreOfTheBase, HeadOf, Tip
  <2> QED
    BY <2>1, <2>3, <2>5
<1>1. ASSUME NEW m \in Mergers, MergerStep(m)
      PROVE  BaseGrows /\ (\A p \in Pulls : Grows(p)) /\ BranchesAreOfTheBase'
  <2>1. CASE Merge(m)
    <3>1. CASE UNCHANGED <<pull, base>>
      BY <2>1, <3>1, <1>same DEF Merge
    <3>2. CASE pull[merger[m].pull].state = "open" /\ ~UNCHANGED <<pull, base>>
      <4>1. PICK touches \in SUBSET (Pulls \ {merger[m].pull}) : Landed(merger[m].pull, "loop", touches)
        BY <2>1, <3>2 DEF Merge
      <4>2. CASE merger[m].pull \in Pulls
        BY <2>1, <4>1, <4>2, <1>lands DEF Merge
      <4>3. CASE merger[m].pull \notin Pulls
        <5>1. [by |-> "loop", touches |-> touches] \in BaseCommits
          BY DEF BaseCommits
        <5>2. pull' = pull
          BY <4>1, <4>3 DEF Landed, TypeOK
        <5>3. BaseGrows /\ Len(base') = Len(base) + 1
          BY <4>1, <5>1, <1>len, AppendProperties DEF Landed, BaseGrows
        <5> QED
          BY <2>1, <5>2, <5>3, <1>lev, <1>len DEF Merge, Grows, BranchesAreOfTheBase, HeadOf, Tip
      <4> QED
        BY <4>2, <4>3
    <3> QED
      BY <2>1, <3>1, <3>2 DEF Merge
  <2>2. CASE ~Merge(m)
    BY <1>1, <2>2, <1>same DEF MergerStep, ReadFirst, TakeLock, ReadAgain, Return, Dies, worldVars
  <2> QED
    BY <2>1, <2>2
<1>2. ASSUME NEW p \in Pulls, PullStep(p)
      PROVE  BaseGrows /\ (\A q \in Pulls : Grows(q)) /\ BranchesAreOfTheBase'
  <2>1. ASSUME NEW by \in Authors, Push(p, by)
        PROVE  BaseGrows /\ (\A q \in Pulls : Grows(q)) /\ BranchesAreOfTheBase'
    <3> DEFINE last == branch[p][HeadOf(p)]
    <3>1. PICK content \in {last.content, HeadOf(p) + 1}, level \in {last.level, Tip} :
            branch' = [branch EXCEPT ![p] = Append(@, [by |-> by, content |-> content, level |-> level])]
      BY <2>1 DEF Push
    <3>2. UNCHANGED base /\ pull' = [pull EXCEPT ![p].green = FALSE]
      BY <2>1 DEF Push
    <3>3. last \in Commits /\ last.level <= Tip
      BY <1>len, ElementOfSeq DEF BranchesAreOfTheBase
    <3> DEFINE c == [by |-> by, content |-> content, level |-> level]
    <3>4. c \in Commits /\ c.level <= Tip
      BY <3>3, <1>len DEF Commits, Authors
    <3>5. branch'[p] = Append(branch[p], c) /\ (\A q \in Pulls \ {p} : branch'[q] = branch[q])
      BY <3>1 DEF TypeOK
    <3> HIDE DEF c, last
    <3>6. /\ Len(branch'[p]) = Len(branch[p]) + 1
          /\ \A i \in 1..Len(branch[p]) : branch'[p][i] = branch[p][i]
          /\ branch'[p][Len(branch[p]) + 1] = c
      BY <3>4, <3>5, <1>len, AppendProperties
    <3>7. \A q \in Pulls : pull'[q].approved = pull[q].approved
      BY <3>2 DEF TypeOK
    <3>8. BaseGrows
      BY <3>2, <1>len DEF BaseGrows
    <3>9. ASSUME NEW q \in Pulls
          PROVE  Grows(q)
      <4>1. CASE q = p
        BY <4>1, <3>6, <3>7, <1>len DEF Grows
      <4>2. CASE q # p
        BY <4>2, <3>5, <3>7, <1>len DEF Grows
      <4> QED
        BY <4>1, <4>2
    <3>10. ASSUME NEW q \in Pulls
           PROVE  /\ HeadOf(q)' >= 1
                  /\ \A i \in 1..HeadOf(q)' : branch'[q][i].level <= Tip'
                  /\ pull'[q].approved \subseteq 1..HeadOf(q)'
      <4>1. CASE q = p
        <5>1. HeadOf(p)' = HeadOf(p) + 1 /\ Tip' = Tip
          BY <3>2, <3>6, <1>len DEF HeadOf, Tip
        <5>2. ASSUME NEW i \in 1..HeadOf(p) + 1
              PROVE  branch'[p][i].level <= Tip
          <6>1. CASE i \in 1..HeadOf(p)
            BY <6>1, <3>6, <1>len DEF BranchesAreOfTheBase
          <6>2. CASE i = HeadOf(p) + 1
            BY <6>2, <3>4, <3>6, <1>len
          <6> QED
            BY <6>1, <6>2, <1>len
        <5> QED
          BY <4>1, <5>1, <5>2, <3>7, <1>len DEF BranchesAreOfTheBase
      <4>2. CASE q # p
        BY <4>2, <3>2, <3>5, <3>7, <1>len DEF BranchesAreOfTheBase, HeadOf, Tip
      <4> QED
        BY <4>1, <4>2
    <3> QED
      BY <3>8, <3>9, <3>10 DEF BranchesAreOfTheBase
  <2>2. CASE Approve(p)
    <3>1. /\ UNCHANGED <<branch, base>>
          /\ \A q \in Pulls : pull'[q].approved = IF q = p THEN pull[q].approved \union {HeadOf(p)} ELSE pull[q].approved
      BY <2>2 DEF Approve, TypeOK
    <3>2. BaseGrows /\ (\A q \in Pulls : Grows(q))
      <4>1. \A q \in Pulls : pull[q].approved \subseteq pull'[q].approved
        BY <3>1
      <4> QED
        BY <3>1, <4>1, <1>len DEF BaseGrows, Grows
    <3>3. HeadOf(p) \in 1..HeadOf(p)
      BY <1>len DEF BranchesAreOfTheBase
    <3>4. Tip' = Tip /\ (\A q \in Pulls : HeadOf(q)' = HeadOf(q))
      BY <3>1 DEF HeadOf, Tip
    <3> QED
      BY <3>1, <3>2, <3>3, <3>4 DEF BranchesAreOfTheBase
  <2>3. CASE Checks(p)
    <3>1. \A q \in Pulls : pull'[q].approved = pull[q].approved
      BY <2>3 DEF Checks, TypeOK
    <3> QED
      BY <2>3, <3>1, <1>same DEF Checks
  <2>4. CASE PersonEnds(p)
    <3>1. CASE pull' = [pull EXCEPT ![p].state = "closed"] /\ UNCHANGED base
      <4>1. \A q \in Pulls : pull'[q].approved = pull[q].approved
        BY <3>1 DEF TypeOK
      <4> QED
        BY <2>4, <3>1, <4>1, <1>same DEF PersonEnds
    <3>2. ASSUME NEW touches \in SUBSET (Pulls \ {p}), Landed(p, "person", touches)
          PROVE  BaseGrows /\ (\A q \in Pulls : Grows(q)) /\ BranchesAreOfTheBase'
      BY <2>4, <3>2, <1>lands DEF PersonEnds
    <3> QED
      BY <2>4, <3>1, <3>2 DEF PersonEnds
  <2> QED
    BY <1>2, <2>1, <2>2, <2>3, <2>4 DEF PullStep
<1>3. CASE BasePushed
  <2>1. PICK touches \in SUBSET Pulls : base' = Append(base, [by |-> "person", touches |-> touches])
    BY <1>3 DEF BasePushed
  <2>2. [by |-> "person", touches |-> touches] \in BaseCommits
    BY DEF BaseCommits
  <2>3. BaseGrows /\ Len(base') = Len(base) + 1
    BY <2>1, <2>2, <1>len, AppendProperties DEF BaseGrows
  <2> QED
    BY <1>3, <2>3, <1>lev, <1>len DEF BasePushed, Grows, BranchesAreOfTheBase, HeadOf, Tip
<1>4. CASE UNCHANGED vars
  BY <1>4, <1>same DEF vars
<1> QED
  BY <1>1, <1>2, <1>3, <1>4 DEF Next

(* What backed a decision goes on backing it. *)
LEMMA BackedStays ==
  ASSUME TypeOK, BranchesAreOfTheBase, BaseGrows, NEW p \in Pulls, Grows(p), NEW head, Backed(p, head)
  PROVE  Backed(p, head)'
<1>1. /\ Len(branch[p]) \in Nat /\ HeadOf(p) = Len(branch[p]) /\ Tip = Len(base) /\ Tip \in Nat
      /\ HeadOf(p)' = Len(branch'[p]) /\ Len(branch'[p]) >= Len(branch[p])
      /\ base \in Seq(BaseCommits) /\ branch[p] \in Seq(Commits)
  BY LenProperties DEF TypeOK, HeadOf, Tip, Grows
<1>2. head \in 1..Len(branch[p]) /\ (\A i \in 1..head : branch'[p][i] = branch[p][i])
  BY <1>1 DEF Backed, Grows
<1>3. PICK h \in pull[p].approved : Carries(p, h, head)
  BY DEF Backed
<1>4. h \in 1..Len(branch[p]) /\ h <= head /\ h \in 1..head
  BY <1>1, <1>2, <1>3 DEF BranchesAreOfTheBase, Carries
<1>5. branch'[p][h] = branch[p][h] /\ branch'[p][head] = branch[p][head]
  BY <1>2, <1>4
<1>6. /\ branch[p][h] \in Commits /\ branch[p][head] \in Commits
      /\ branch[p][head].level <= Len(base)
  BY <1>1, <1>2, <1>4, ElementOfSeq DEF BranchesAreOfTheBase
<1>7. ASSUME NEW t \in (branch[p][h].level + 1)..branch[p][head].level
      PROVE  base'[t] = base[t]
  <2>1. branch[p][h].level \in Nat /\ branch[p][head].level \in Nat
    BY <1>6 DEF Commits
  <2>2. t \in 1..Len(base)
    BY <2>1, <1>1, <1>6
  <2> QED
    BY <2>2 DEF BaseGrows
<1>8. Carries(p, h, head)'
  BY <1>3, <1>5, <1>7 DEF Carries, Touched
<1>9. h \in pull'[p].approved
  BY <1>3 DEF Grows
<1>10. head \in 1..HeadOf(p)'
  BY <1>1, <1>2
<1> QED
  BY <1>2, <1>8, <1>9, <1>10 DEF Backed

LEMMA InitIInv == Init => IInv
<1> SUFFICES ASSUME Init
             PROVE  IInv
  OBVIOUS
<1> USE MergeAssumption DEF Init
<1> DEFINE first == [by |-> "loop", content |-> 1, level |-> 0]
<1>1. first \in Commits
  BY DEF Commits, Authors
<1>2. <<first>> \in Seq(Commits) /\ Len(<<first>>) = 1 /\ <<first>>[1] = first /\ <<>> \in Seq(BaseCommits) /\ Len(base) = 0
  BY <1>1
<1>3. TypeOK
  BY <1>2 DEF TypeOK, Places, Idle
<1>4. BranchesAreOfTheBase /\ TipsWereRead
  BY <1>2 DEF BranchesAreOfTheBase, TipsWereRead, HeadOf, Tip, Idle
<1>5. LockFollowsTheMerge /\ MergesOntoWhatItRead /\ DecisionsStand
  BY DEF LockFollowsTheMerge, MergesOntoWhatItRead, DecisionsStand, Idle, Locked
<1> QED
  BY <1>3, <1>4, <1>5 DEF IInv

(* The lock goes with the merge of the process it names. *)
LEMMA LockStep == TypeOK /\ LockFollowsTheMerge /\ [Next]_vars => LockFollowsTheMerge'
<1> SUFFICES ASSUME TypeOK, LockFollowsTheMerge, [Next]_vars
             PROVE  LockFollowsTheMerge'
  OBVIOUS
<1> USE MergeAssumption DEF Locked, LockFollowsTheMerge
<1>m. merger \in [Mergers -> Places]
  BY DEF TypeOK
<1>1. ASSUME NEW m \in Mergers, MergerStep(m)
      PROVE  LockFollowsTheMerge'
  <2>1. ASSUME NEW p \in Pulls, ReadFirst(m, p)
        PROVE  LockFollowsTheMerge'
    <3>1. merger[m].at = "idle" /\ UNCHANGED lock
      BY <2>1 DEF ReadFirst
    <3>2. merger'[m].at = "read" /\ \A n \in Mergers \ {m} : merger'[n] = merger[n]
      BY <2>1, <1>m DEF ReadFirst
    <3> QED
      BY <3>1, <3>2
  <2>2. CASE TakeLock(m)
    <3>1. CASE lock \in Mergers
      <4>1. merger' = [merger EXCEPT ![m] = Idle] /\ UNCHANGED lock /\ merger[m].at = "read"
        BY <2>2, <3>1 DEF TakeLock, HeldByALiveMerge
      <4> QED
        BY <4>1, <1>m DEF Idle
    <3>2. CASE lock \notin Mergers
      <4>1. merger' = [merger EXCEPT ![m].at = "decided"] /\ lock' = m
        BY <2>2, <3>2 DEF TakeLock, HeldByALiveMerge
      <4>2. merger'[m].at = "decided" /\ \A n \in Mergers \ {m} : merger'[n] = merger[n]
        BY <4>1, <1>m DEF Places
      <4> QED
        BY <3>2, <4>1, <4>2
    <3> QED
      BY <3>1, <3>2
  <2>3. CASE ReadAgain(m)
    <3>1. merger[m].at = "decided" /\ lock = m
      BY <2>3 DEF ReadAgain
    <3>2. /\ \A n \in Mergers \ {m} : merger'[n] = merger[n]
          /\ \/ merger'[m].at = "agreed" /\ lock' = lock
             \/ merger'[m].at = "idle" /\ lock' = "free"
      BY <2>3, <3>1, <1>m DEF ReadAgain, Released, Idle, Places
    <3> QED
      BY <3>1, <3>2
  <2>4. CASE Merge(m)
    <3>1. merger[m].at = "agreed" /\ lock = m /\ lock' = lock
      BY <2>4 DEF Merge
    <3>2. merger'[m].at = "asked" /\ \A n \in Mergers \ {m} : merger'[n] = merger[n]
      BY <2>4, <1>m DEF Merge, Places
    <3> QED
      BY <3>1, <3>2
  <2>5. CASE Return(m)
    <3>1. lock = m /\ lock' = "free"
      BY <2>5 DEF Return, Released
    <3>2. merger'[m].at = "idle" /\ \A n \in Mergers \ {m} : merger'[n] = merger[n]
      BY <2>5, <1>m DEF Return, Idle
    <3> QED
      BY <3>1, <3>2
  <2>6. CASE Dies(m)
    <3>1. lock' = IF lock = m THEN "dead" ELSE lock
      BY <2>6 DEF Dies
    <3>2. merger'[m].at = "idle" /\ \A n \in Mergers \ {m} : merger'[n] = merger[n]
      BY <2>6, <1>m DEF Dies, Idle
    <3> QED
      BY <3>1, <3>2
  <2> QED
    BY <1>1, <2>1, <2>2, <2>3, <2>4, <2>5, <2>6 DEF MergerStep
<1>2. ASSUME NEW p \in Pulls, PullStep(p)
      PROVE  LockFollowsTheMerge'
  BY <1>2 DEF PullStep, Push, Approve, Checks, PersonEnds
<1>3. CASE BasePushed
  BY <1>3 DEF BasePushed
<1>4. CASE UNCHANGED vars
  BY <1>4 DEF vars
<1> QED
  BY <1>1, <1>2, <1>3, <1>4 DEF Next

(* The base gets a commit of the loop from a merge alone. *)
LEMMA BaseIsPushedByPeople ==
  ASSUME TypeOK, [Next]_vars, \A m \in Mergers : ~Merge(m)
  PROVE  \A t \in (Len(base) + 1)..Len(base') : base'[t].by = "person"
<1>len. Len(base) \in Nat /\ base \in Seq(BaseCommits)
  BY LenProperties DEF TypeOK
<1>same. ASSUME UNCHANGED base
         PROVE  \A t \in (Len(base) + 1)..Len(base') : base'[t].by = "person"
  BY <1>same, <1>len
<1>lands. ASSUME NEW p \in Pulls, NEW touches \in SUBSET Pulls, Landed(p, "person", touches)
          PROVE  \A t \in (Len(base) + 1)..Len(base') : base'[t].by = "person"
  <2>1. Len(base') = Len(base) + 1 /\ base'[Len(base) + 1].by = "person"
    BY <1>lands, LandedGrows
  <2> QED
    BY <2>1, <1>len
<1>1. ASSUME NEW m \in Mergers, MergerStep(m)
      PROVE  UNCHANGED base
  BY <1>1 DEF MergerStep, ReadFirst, TakeLock, ReadAgain, Return, Dies, worldVars
<1>2. ASSUME NEW p \in Pulls, PullStep(p)
      PROVE  \A t \in (Len(base) + 1)..Len(base') : base'[t].by = "person"
  <2>1. CASE PersonEnds(p)
    <3>1. ASSUME NEW touches \in SUBSET (Pulls \ {p}), Landed(p, "person", touches)
          PROVE  \A t \in (Len(base) + 1)..Len(base') : base'[t].by = "person"
      BY <3>1, <1>lands
    <3> QED
      BY <2>1, <3>1, <1>same DEF PersonEnds
  <2>2. CASE ~PersonEnds(p)
    BY <1>2, <2>2, <1>same DEF PullStep, Push, Approve, Checks
  <2> QED
    BY <2>1, <2>2
<1>3. CASE BasePushed
  <2>1. PICK touches \in SUBSET Pulls : base' = Append(base, [by |-> "person", touches |-> touches])
    BY <1>3 DEF BasePushed
  <2> DEFINE c == [by |-> "person", touches |-> touches]
  <2>2. c \in BaseCommits /\ c.by = "person"
    BY DEF BaseCommits
  <2> HIDE DEF c
  <2>3. Len(base') = Len(base) + 1 /\ base'[Len(base) + 1] = c
    BY <2>1, <2>2, <1>len, AppendProperties DEF c
  <2> QED
    BY <2>2, <2>3, <1>len
<1>4. CASE UNCHANGED vars
  BY <1>4, <1>same DEF vars
<1> QED
  BY <1>1, <1>2, <1>3, <1>4, <1>same DEF Next

(* Of a merger's step, what the readings and the decisions turn on: it is  *)
(* left as it was, it takes its reading further or it lets it go.          *)
Further(m, n) ==
  \/ merger'[n] = merger[n]
  \/ merger'[n].at \notin {"read", "decided", "agreed"} /\ merger'[n].tip <= Tip'
  \/ n = m /\ merger[n].at = "read" /\ merger'[n].at = "decided"
       /\ merger'[n].pull = merger[n].pull /\ merger'[n].head = merger[n].head /\ merger'[n].tip = merger[n].tip
  \/ n = m /\ merger[n].at = "decided" /\ merger'[n].at = "agreed"
       /\ merger'[n].pull = merger[n].pull /\ merger'[n].head = merger[n].head /\ merger'[n].tip = Tip'

LEMMA EachFurther ==
  ASSUME IInv, [Next]_vars, \A m \in Mergers, p \in Pulls : ~ReadFirst(m, p), Tip' \in Nat, Tip' >= Tip
  PROVE  \A n \in Mergers : \E m \in Mergers : Further(m, n)
<1>m. merger \in [Mergers -> Places] /\ (\A n \in Mergers : merger[n] \in Places)
  BY DEF IInv, TypeOK
<1>same. ASSUME UNCHANGED merger
         PROVE  \A n \in Mergers : Further(n, n)
  BY <1>same DEF Further
<1>1. ASSUME NEW m \in Mergers, MergerStep(m), NEW n \in Mergers
      PROVE  Further(m, n)
  <2>0. merger[m].tip \in Nat /\ merger[m].tip <= Tip'
    BY <1>m DEF IInv, TipsWereRead, Places, TypeOK, Tip
  <2>1. CASE n # m
    <3>1. merger'[n] = merger[n]
      BY <1>1, <2>1, <1>m DEF MergerStep, ReadFirst, TakeLock, ReadAgain, Merge, Return, Dies
    <3> QED
      BY <3>1 DEF Further
  <2>2. CASE n = m /\ TakeLock(m)
    <3>1. \/ merger'[m] = Idle
          \/ merger[m].at = "read" /\ merger'[m] = [merger[m] EXCEPT !.at = "decided"]
      BY <2>2, <1>m DEF TakeLock
    <3> QED
      BY <2>2, <3>1, <1>m, <2>0 DEF Further, Idle, Places
  <2>3. CASE n = m /\ ReadAgain(m)
    <3>1. PICK now \in Observe(merger[m].pull) :
            \/ StillMerges(merger[m].head, now)
                /\ merger' = [merger EXCEPT ![m].at = "agreed", ![m].head = now.head, ![m].tip = Tip]
            \/ merger' = [merger EXCEPT ![m] = Idle]
      BY <2>3 DEF ReadAgain
    <3>2. merger[m].at = "decided" /\ Tip' = Tip
      BY <2>3 DEF ReadAgain, worldVars, Tip
    <3>3. \/ /\ merger'[m].at = "agreed" /\ merger'[m].pull = merger[m].pull
             /\ merger'[m].head = merger[m].head /\ merger'[m].tip = Tip
          \/ merger'[m] = Idle
      BY <3>1, <1>m DEF StillMerges, Places
    <3> QED
      BY <2>3, <3>2, <3>3 DEF Further, Idle
  <2>4. CASE n = m /\ Merge(m)
    <3>1. merger'[m].at = "asked" /\ merger'[m].tip = merger[m].tip
      BY <2>4, <1>m DEF Merge, Places
    <3> QED
      BY <2>4, <3>1, <2>0 DEF Further
  <2>5. CASE n = m /\ (Return(m) \/ Dies(m))
    <3>1. merger'[m] = Idle
      BY <2>5, <1>m DEF Return, Dies
    <3> QED
      BY <2>5, <3>1 DEF Further, Idle
  <2> QED
    BY <1>1, <2>1, <2>2, <2>3, <2>4, <2>5 DEF MergerStep
<1>2. ASSUME NEW p \in Pulls, PullStep(p)
      PROVE  UNCHANGED merger
  BY <1>2 DEF PullStep, Push, Approve, Checks, PersonEnds
<1>3. CASE BasePushed \/ UNCHANGED vars
  BY <1>3, <1>same DEF BasePushed, vars
<1> QED
  BY <1>1, <1>2, <1>3, <1>same DEF Next

(* A first reading that decides for the merge rests on what it read. *)
LEMMA ReadIsBacked ==
  ASSUME TypeOK, BranchesAreOfTheBase, NEW p \in Pulls, NEW seen \in Observe(p), Decision(p, seen)
  PROVE  seen.head = HeadOf(p) /\ Backed(p, HeadOf(p))
<1>1. seen.head = HeadOf(p) /\ seen.approved = pull[p].approved
  BY ObservedAsItIs
<1>2. HeadOf(p) \in 1..HeadOf(p)
  BY LenProperties DEF BranchesAreOfTheBase, TypeOK, HeadOf
<1> QED
  BY <1>1, <1>2 DEF Decision, Backed

LEMMA ReadingStep ==
  ASSUME IInv, [Next]_vars, TypeOK', BaseGrows, \A p \in Pulls : Grows(p)
  PROVE  TipsWereRead' /\ MergesOntoWhatItRead' /\ DecisionsStand'
<1> USE DEF Locked
<1>m. /\ merger \in [Mergers -> Places] /\ (\A n \in Mergers : merger[n] \in Places)
      /\ merger' \in [Mergers -> Places]
  BY DEF IInv, TypeOK
<1>tip. Tip \in Nat /\ Tip' \in Nat /\ Tip' >= Tip /\ Tip = Len(base) /\ Tip' = Len(base')
  BY LenProperties DEF IInv, TypeOK, Tip, BaseGrows
<1>tips. ASSUME NEW n \in Mergers
         PROVE  merger[n].tip \in Nat /\ merger[n].tip <= Tip'
  <2>1. merger[n].tip \in Nat /\ merger[n].tip <= Tip
    BY <1>m DEF IInv, TipsWereRead, Places
  <2> QED
    BY <2>1, <1>tip
(* What a decision rested on it rests on still, for whoever made it. *)
<1>held. ASSUME NEW n \in Mergers, merger[n].at \in {"read", "decided", "agreed"},
                merger'[n].pull = merger[n].pull, merger'[n].head = merger[n].head
         PROVE  /\ merger'[n].pull \in Pulls
                /\ \A p \in Pulls, head \in Nat :
                     merger'[n].pull = p /\ merger'[n].head = head => Backed(p, head)'
  <2>1. ASSUME NEW p \in Pulls, NEW head \in Nat, merger[n].pull = p, merger[n].head = head
        PROVE  Backed(p, head)'
    BY <1>held, <2>1, BackedStays DEF IInv, DecisionsStand
  <2> QED
    BY <1>held, <2>1 DEF IInv, DecisionsStand
(* A merger that agreed and stays where it is saw no merge of the loop. *)
<1>onto. ASSUME NEW n \in Mergers, merger[n].at = "agreed", merger'[n] = merger[n]
         PROVE  \A t \in (merger'[n].tip + 1)..Tip' : base'[t].by = "person"
  <2>1. ASSUME NEW m \in Mergers, Merge(m)
        PROVE  FALSE
    <3>1. merger[m].at = "agreed" /\ merger'[m].at = "asked"
      BY <2>1, <1>m DEF Merge, Places
    <3>2. m = n
      BY <3>1, <1>onto DEF IInv, LockFollowsTheMerge
    <3> QED
      BY <3>1, <3>2, <1>onto
  <2>2. \A t \in (Tip + 1)..Tip' : base'[t].by = "person"
    BY <2>1, <1>tip, BaseIsPushedByPeople DEF IInv
  <2>3. \A t \in (merger[n].tip + 1)..Tip : base[t].by = "person"
    BY <1>onto DEF IInv, MergesOntoWhatItRead
  <2>4. merger[n].tip \in Nat
    BY <1>m DEF Places
  <2> QED
    BY <1>onto, <1>tip, <2>2, <2>3, <2>4 DEF BaseGrows
<1>1. ASSUME NEW m \in Mergers, NEW p \in Pulls, ReadFirst(m, p)
      PROVE  TipsWereRead' /\ MergesOntoWhatItRead' /\ DecisionsStand'
  <2>1. PICK seen \in Observe(p) :
          /\ Decision(p, seen)
          /\ merger' = [merger EXCEPT ![m] = [at |-> "read", pull |-> p, head |-> seen.head, tip |-> 0]]
    BY <1>1 DEF ReadFirst
  <2>2. seen.head = HeadOf(p) /\ Backed(p, HeadOf(p))
    BY <2>1, ReadIsBacked DEF IInv
  <2>3. PICK head : head = HeadOf(p)
    OBVIOUS
  <2>4. Backed(p, head)'
    BY <2>2, <2>3, BackedStays DEF IInv
  <2>5. /\ merger'[m] = [at |-> "read", pull |-> p, head |-> head, tip |-> 0]
        /\ \A n \in Mergers \ {m} : merger'[n] = merger[n]
    BY <2>1, <2>2, <2>3, <1>m
  <2>6. TipsWereRead'
    BY <2>5, <1>tip, <1>tips DEF TipsWereRead
  <2>7. MergesOntoWhatItRead'
    BY <2>5, <1>onto DEF MergesOntoWhatItRead
  <2>8. DecisionsStand'
    BY <2>4, <2>5, <1>held DEF DecisionsStand
  <2> QED
    BY <2>6, <2>7, <2>8
<1>2. ASSUME \A m \in Mergers, p \in Pulls : ~ReadFirst(m, p)
      PROVE  TipsWereRead' /\ MergesOntoWhatItRead' /\ DecisionsStand'
  <2>0. \A n \in Mergers : \E m \in Mergers : Further(m, n)
    BY <1>2, <1>tip, EachFurther
  <2>1. ASSUME NEW n \in Mergers
        PROVE  merger'[n].tip <= Tip'
    BY <2>0, <1>tip, <1>tips DEF Further
  <2>2. ASSUME NEW n \in Mergers, merger'[n].at = "agreed"
        PROVE  \A t \in (merger'[n].tip + 1)..Tip' : base'[t].by = "person"
    <3>1. CASE merger'[n] = merger[n]
      BY <2>2, <3>1, <1>onto
    <3>2. CASE merger'[n] # merger[n]
      BY <2>0, <2>2, <3>2, <1>tip DEF Further
    <3> QED
      BY <3>1, <3>2
  <2>3. ASSUME NEW n \in Mergers, merger'[n].at \in {"read", "decided", "agreed"}
        PROVE  /\ merger[n].at \in {"read", "decided", "agreed"}
               /\ merger'[n].pull = merger[n].pull /\ merger'[n].head = merger[n].head
    BY <2>0, <2>3 DEF Further
  <2> QED
    BY <2>1, <2>2, <2>3, <1>held DEF TipsWereRead, MergesOntoWhatItRead, DecisionsStand
<1> QED
  BY <1>1, <1>2

LEMMA StepIInv == IInv /\ [Next]_vars => IInv'
<1> SUFFICES ASSUME IInv, [Next]_vars
             PROVE  IInv'
  OBVIOUS
<1>1. TypeOK' /\ LockFollowsTheMerge'
  BY TypeStep, LockStep DEF IInv
<1>2. BaseGrows /\ (\A p \in Pulls : Grows(p)) /\ BranchesAreOfTheBase'
  BY StepGrows DEF IInv
<1>3. TipsWereRead' /\ MergesOntoWhatItRead' /\ DecisionsStand'
  BY <1>1, <1>2, ReadingStep
<1> QED
  BY <1>1, <1>2, <1>3 DEF IInv

LEMMA Invariant == Spec => []IInv
  BY InitIInv, StepIInv, PTL DEF Spec

(* What a merge lands, at the head its process read, was approved. *)
LEMMA MergeStep ==
  IInv /\ [Next]_vars =>
    \A m \in Mergers :
      LET p == merger[m].pull
      IN  Merge(m) /\ pull'[p] # pull[p] /\ HeadOf(p) = merger[m].head =>
            /\ \A i \in DOMAIN branch[p] : branch[p][i].by = "loop"
            /\ \E h \in pull[p].approved : Carries(p, h, HeadOf(p))
<1> SUFFICES ASSUME IInv, NEW m \in Mergers, Merge(m), HeadOf(merger[m].pull) = merger[m].head
             PROVE  /\ \A i \in DOMAIN branch[merger[m].pull] : branch[merger[m].pull][i].by = "loop"
                    /\ \E h \in pull[merger[m].pull].approved : Carries(merger[m].pull, h, HeadOf(merger[m].pull))
  OBVIOUS
<1>1. merger[m].at = "agreed" /\ merger[m] \in Places
  BY DEF Merge, IInv, TypeOK
<1>2. /\ merger[m].pull \in Pulls /\ merger[m].head \in Nat
      /\ Backed(merger[m].pull, merger[m].head)
  BY <1>1 DEF IInv, DecisionsStand, Places
<1>3. DOMAIN branch[merger[m].pull] = 1..HeadOf(merger[m].pull)
  BY <1>2, LenProperties DEF IInv, TypeOK, HeadOf
<1> QED
  BY <1>2, <1>3 DEF Backed

-----------------------------------------------------------------------------
(* For every set of pull requests and mergers what is read, decided and    *)
(* held is what it is meant to be.                                         *)
THEOREM TypeCorrect == Spec => []TypeOK
  BY Invariant, PTL DEF IInv

(* The lock of a base names a live process while that process merges, and  *)
(* nobody or a dead one otherwise, through every stop and death.           *)
THEOREM LockFollows == Spec => []LockFollowsTheMerge
  BY Invariant, PTL DEF IInv

(* However many processes merge into a base, none has another's merge land *)
(* between its second reading and its own.                                 *)
THEOREM NoMergeBetween == Spec => []MergesOntoWhatItRead
  BY Invariant, PTL DEF IInv

(* What the loop merges at the head it read is the loop's own work, under  *)
(* an approval that carries to it, whatever was pushed to the base since.  *)
THEOREM ApprovedIsMerged == Spec => MergesWhatWasApproved
<1>1. IInv /\ [Next]_vars =>
        [\A m \in Mergers :
           LET p == merger[m].pull
           IN  Merge(m) /\ pull'[p] # pull[p] /\ HeadOf(p) = merger[m].head =>
                 /\ \A i \in DOMAIN branch[p] : branch[p][i].by = "loop"
                 /\ \E h \in pull[p].approved : Carries(p, h, HeadOf(p))]_vars
  BY MergeStep
<1> QED
  BY <1>1, Invariant, PTL DEF Spec, MergesWhatWasApproved
=============================================================================
