----------------------- MODULE EgressQuestionsProofs -----------------------
(***************************************************************************)
(* What EgressQuestions keeps for every set of runs, calls and persons.    *)
(***************************************************************************)
EXTENDS EgressQuestions, TLAPS

(* A ticket has one live run: its run lock. *)
OneLive ==
  \A r, s \in Runs :
    state[r] = "live" /\ state[s] = "live" /\ TicketOf[r] = TicketOf[s] => r = s

(* What a call's place says of its question, and its question of its run. *)
Places ==
  \A c \in Calls :
    LET r == RunOf[c] IN
    /\ state[r] = "idle" => at[c] = "idle"
    /\ at[c] # "idle" => host[c] \in Hosts
    /\ at[c] # "done" => verdict[c] = None
    /\ at[c] \in InFlight => question[c].asked
    /\ question[c].asked => asked[r] /\ at[c] \notin {"idle", "waiting"}
    /\ question[c].answer # None => question[c].asked
    /\ question[c].closed => question[c].asked /\ question[c].answer = None /\ at[c] = "done"
    /\ at[c] = "listing" => question[c].answer = "allow" /\ host[c] \in allowed[r]

(* A run's allowed hosts are the ones a person allowed it. *)
AllowedByAPerson ==
  \A r \in Runs : \A h \in allowed[r] :
    \E d \in CallsOf(r) : question[d].answer = "allow" /\ host[d] = h

(* Every copy of the list holds what the list may hold. *)
Listable == byHand \union {host[c] : c \in {d \in Calls : question[d].answer = "allow"}}
CopiesWereAllowed ==
  /\ list \subseteq Listable
  /\ \A c \in Calls : read[c] \subseteq Listable

(* Until it has asked, a live run knows every refusal a run waited on: one *)
(* given since it started would have been given to a run of its own.       *)
KnowsRefusals ==
  \A r \in Runs : \A d \in CallsOn(TicketOf[r]) \ orphaned :
    state[r] = "live" /\ ~asked[r] /\ question[d].answer = "refuse" => host[d] \in refused[r]

IInv ==
  /\ TypeOK
  /\ OneLive
  /\ Places
  /\ OneQuestionARun
  /\ OpenForAWait
  /\ AnswersAreActedOn
  /\ AllowedByAPerson
  /\ LetThroughWasAllowed
  /\ CopiesWereAllowed
  /\ KnowsRefusals

-----------------------------------------------------------------------------
(* It holds at first. *)
LEMMA InitIInv == Init => IInv
<1> SUFFICES ASSUME Init PROVE IInv
  OBVIOUS
<1> USE EgressAssumption DEF Init
<1>1. TypeOK
  BY DEF TypeOK, Question, Command, NoCommand, InFlight, Reading, Choices
<1>2. OneLive /\ Places /\ OneQuestionARun /\ OpenForAWait
  BY DEF OneLive, Places, OneQuestionARun, OpenForAWait, Open, InFlight, Reading
<1>3. AnswersAreActedOn /\ AllowedByAPerson /\ LetThroughWasAllowed
  BY DEF AnswersAreActedOn, AllowedByAPerson, LetThroughWasAllowed, CallsOf
<1>4. CopiesWereAllowed /\ KnowsRefusals
  BY DEF CopiesWereAllowed, Listable, KnowsRefusals, CallsOn
<1> QED
  BY <1>1, <1>2, <1>3, <1>4 DEF IInv

(* A refusal on a record is of a host. *)
LEMMA RefusedAreHosts ==
  ASSUME TypeOK, Places, NEW t PROVE RefusedHosts(t) \in SUBSET Hosts
<1>1. ASSUME NEW c \in Calls, question[c].answer = "refuse" PROVE host[c] \in Hosts
  BY <1>1, EgressAssumption DEF Places, TypeOK, Question, Choices, InFlight, Reading
<1> QED
  BY <1>1 DEF RefusedHosts, CallsOn

(* A question keeps its shape as it is asked, answered or closed. *)
LEMMA QuestionKeepsShape ==
  ASSUME question \in [Calls -> Question], NEW c \in Calls, NEW choice \in Choices
  PROVE  /\ [question EXCEPT ![c].asked = TRUE] \in [Calls -> Question]
         /\ [question EXCEPT ![c].answer = choice] \in [Calls -> Question]
         /\ [question EXCEPT ![c].closed = TRUE] \in [Calls -> Question]
  BY DEF Question

(* The rules leave a call waiting on its question, or settled. *)
LEMMA RulesTypes ==
  ASSUME TypeOK, NEW c \in Calls, NEW h \in Hosts, Rules(c, h)
  PROVE  /\ at' \in [Calls -> {"idle", "waiting", "done"} \union InFlight]
         /\ verdict' \in [Calls -> Choices \union {None, "stopped"}]
         /\ asked' \in [Runs -> BOOLEAN]
         /\ question' \in [Calls -> Question]
         /\ events' \in 0..MaxEvents
<1> USE DEF TypeOK, InFlight, Reading, Choices
<1>1. ASSUME NEW v \in Choices, Settled(c, v)
      PROVE  /\ at' \in [Calls -> {"idle", "waiting", "done"} \union InFlight]
             /\ verdict' \in [Calls -> Choices \union {None, "stopped"}]
  BY <1>1 DEF Settled
<1>2. CASE Settled(c, "allow") /\ UNCHANGED <<asked, question, events>>
  BY <1>1, <1>2
<1>3. CASE Settled(c, "refuse") /\ UNCHANGED <<asked, question, events>>
  BY <1>1, <1>3
<1>4. CASE Put(c)
  <2>1. asked' \in [Runs -> BOOLEAN]
    BY <1>4, EgressAssumption DEF Put
  <2>2. CASE Happens /\ Settled(c, "refuse") /\ UNCHANGED question
    BY <1>1, <2>1, <2>2, EgressAssumption DEF Happens
  <2>3. CASE /\ at' = [at EXCEPT ![c] = "held"]
             /\ question' = [question EXCEPT ![c].asked = TRUE]
             /\ UNCHANGED <<verdict, events>>
    BY <2>1, <2>3, QuestionKeepsShape
  <2> QED
    BY <1>4, <2>2, <2>3 DEF Put
<1> QED
  BY <1>2, <1>3, <1>4 DEF Rules

(* An answer is of a host, and the run's sets grow by it. *)
LEMMA SettleTypes ==
  ASSUME TypeOK, Places, NEW c \in Calls, at[c] \in Reading, Settle(c)
  PROVE  /\ allowed' \in [Runs -> SUBSET Hosts]
         /\ refused' \in [Runs -> SUBSET Hosts]
         /\ at' \in [Calls -> {"idle", "waiting", "done"} \union InFlight]
         /\ verdict' \in [Calls -> Choices \union {None, "stopped"}]
         /\ read' \in [Calls -> SUBSET Hosts]
<1> USE DEF TypeOK, InFlight, Reading, Choices
<1>1. host[c] \in Hosts /\ RunOf[c] \in Runs
  BY EgressAssumption DEF Places
<1>2. CASE question[c].answer = "refuse"
  BY <1>1, <1>2 DEF Settle, Settled
<1>3. CASE question[c].answer = "allow"
  BY <1>1, <1>3 DEF Settle
<1> QED
  BY <1>2, <1>3 DEF Settle

(* Every step keeps the types, as every call that was made names a host. *)
LEMMA TypeStep == TypeOK /\ Places /\ [Next]_vars => TypeOK'
<1> SUFFICES ASSUME TypeOK, Places, [Next]_vars PROVE TypeOK'
  OBVIOUS
<1> USE EgressAssumption DEF TypeOK, runVars, callVars, InFlight, Reading, Choices
<1>1. ASSUME NEW r \in Runs, Start(r) PROVE TypeOK'
  BY <1>1, RefusedAreHosts DEF Start
<1>2. ASSUME NEW r \in Runs, Abort(r) \/ NextAttempt(r) PROVE TypeOK'
  BY <1>2 DEF Abort, NextAttempt
<1>3. ASSUME NEW r \in Runs, End(r) \/ Die(r) PROVE TypeOK'
  BY <1>3 DEF End, Die, Stops, Happens
<1>4. ASSUME NEW c \in Calls, NEW h \in Hosts, Ask(c, h) PROVE TypeOK'
  <2>1. CASE Rules(c, h)
    BY <1>4, <2>1, RulesTypes DEF Ask, Elsewhere
  <2>2. CASE at' = [at EXCEPT ![c] = "waiting"] /\ UNCHANGED <<verdict, asked, question, events>>
    BY <1>4, <2>2 DEF Ask, Elsewhere
  <2> QED
    BY <1>4, <2>1, <2>2 DEF Ask
<1>5. ASSUME NEW c \in Calls, Wake(c) PROVE TypeOK'
  <2>1. host[c] \in Hosts /\ Rules(c, host[c])
    BY <1>5 DEF Wake, Places
  <2> QED
    BY <1>5, <2>1, RulesTypes DEF Wake, Elsewhere
<1>6. ASSUME NEW c \in Calls, Poll(c) \/ PollFails(c) PROVE TypeOK'
  <2>1. CASE Poll(c) /\ Settle(c)
    <3>1. at[c] \in Reading
      BY <2>1 DEF Poll
    <3> QED
      BY <2>1, <3>1, SettleTypes DEF Poll
  <2>2. CASE Poll(c) /\ ~Settle(c)
    BY <2>2 DEF Poll
  <2>3. CASE PollFails(c)
    BY <2>3 DEF PollFails, Settled, Happens
  <2> QED
    BY <1>6, <2>1, <2>2, <2>3
<1>7. ASSUME NEW c \in Calls, Close(c) \/ CloseFails(c) PROVE TypeOK'
  <2>1. CASE Close(c) /\ Settle(c)
    <3>1. at[c] \in Reading
      BY <2>1 DEF Close, WaitIsOver
    <3>2. UNCHANGED <<state, earlier, aborted, asked, profile, host, question>>
      BY <2>1, EgressAssumption DEF Close, Settle
    <3> QED
      BY <2>1, <3>1, <3>2, SettleTypes DEF Close
  <2>2. CASE Close(c) /\ ~Settle(c)
    <3>1. /\ question' = [question EXCEPT ![c].closed = TRUE]
          /\ Unanswered(c)
          /\ UNCHANGED <<passed, person, list, byHand, orphaned, unclosed, events>>
      BY <2>2 DEF Close
    <3>2. question' \in [Calls -> Question]
      BY <3>1, QuestionKeepsShape
    <3> QED
      BY <3>1, <3>2 DEF Unanswered
  <2>3. CASE CloseFails(c)
    BY <2>3 DEF CloseFails, Unanswered, Happens
  <2> QED
    BY <1>7, <2>1, <2>2, <2>3
<1>8. ASSUME NEW c \in Calls, WriteList(c) PROVE TypeOK'
  BY <1>8 DEF WriteList, NewList, Settled, Happens, Places
<1>9. ASSUME NEW p \in Persons, NEW t \in Tickets, Begin(p, t) PROVE TypeOK'
  BY <1>9 DEF Begin, Live, Command
<1>10. ASSUME NEW p \in Persons, NEW c \in Calls, NEW choice \in Choices, Answer(p, c, choice) PROVE TypeOK'
  <2>1. question' \in [Calls -> Question]
    BY <1>10, QuestionKeepsShape DEF Answer
  <2>2. person' \in [Persons -> Command]
    BY <1>10 DEF Answer, Command, NoCommand
  <2> QED
    BY <1>10, <2>1, <2>2 DEF Answer
<1>11. ASSUME NEW p \in Persons, Leave(p) PROVE TypeOK'
  BY <1>11 DEF Leave, Command, NoCommand
<1>12. ASSUME NEW c \in Calls, Passes(c) PROVE TypeOK'
  BY <1>12 DEF Passes
<1>13. ASSUME NEW h \in Plain, EditList(h) PROVE TypeOK'
  BY <1>13 DEF EditList, Happens
<1>14. CASE UNCHANGED vars
  BY <1>14 DEF vars
<1>15. ASSUME NEW r \in Runs, RunStep(r) PROVE TypeOK'
  BY <1>1, <1>2, <1>3, <1>15 DEF RunStep
<1>16. ASSUME NEW c \in Calls, CallStep(c) PROVE TypeOK'
  BY <1>4, <1>5, <1>6, <1>7, <1>8, <1>16 DEF CallStep
<1>17. ASSUME NEW p \in Persons, PersonStep(p) PROVE TypeOK'
  <2> HIDE DEF TypeOK
  <2> QED
    BY <1>9, <1>10, <1>11, <1>17 DEF PersonStep
<1> HIDE DEF TypeOK
<1> QED
  BY <1>12, <1>13, <1>14, <1>15, <1>16, <1>17 DEF Next

-----------------------------------------------------------------------------
(* What the rules do to a call keeps the invariant. *)
LEMMA RulesKeep ==
  ASSUME IInv, TypeOK', NEW c \in Calls, NEW h \in Hosts,
         state[RunOf[c]] = "live", at[c] \in {"idle", "waiting"},
         Asking(RunOf[c]) = {}, Rules(c, h),
         host' = [host EXCEPT ![c] = h], UNCHANGED Elsewhere
  PROVE  IInv'
<1> DEFINE r == RunOf[c]
<1> USE EgressAssumption DEF Elsewhere, InFlight, Reading
<1>1. r \in Runs /\ ~question[c].asked /\ question[c].answer = None
  BY DEF IInv, Places
<1>2. \A d \in Calls : question'[d].answer = question[d].answer
  BY DEF IInv, TypeOK, Question, Rules, Put
<1>3. \A d \in Calls \ {c} : host'[d] = host[d] /\ verdict'[d] = verdict[d] /\ at'[d] = at[d] /\ question'[d] = question[d]
  BY DEF IInv, TypeOK, Question, Rules, Put, Settled
<1>4. host'[c] = h
  BY DEF IInv, TypeOK
<1>5. \/ at'[c] = "held" /\ verdict'[c] = verdict[c]
      \/ /\ at'[c] = "done" /\ ~question'[c].asked
         /\ verdict'[c] = "allow" => h \in allowed[r]
  BY <1>1 DEF IInv, TypeOK, Question, Rules, Put, Settled
<1>6. OneLive' /\ Places' /\ OneQuestionARun'
  <2>1. OneLive'
    BY DEF IInv, OneLive
  <2>2. /\ question'[c].closed = question[c].closed
        /\ question'[c].asked => asked'[r] /\ ~asked[r] /\ at'[c] = "held"
        /\ \A s \in Runs : asked[s] => asked'[s]
    BY <1>1, <1>5 DEF IInv, TypeOK, Question, Rules, Put
  <2>3. Places'
    <3>1. state' = state /\ allowed' = allowed
      OBVIOUS
    <3>2. ASSUME NEW d \in Calls \ {c}
          PROVE  /\ at'[d] = at[d] /\ verdict'[d] = verdict[d] /\ host'[d] = host[d]
                 /\ question'[d] = question[d] /\ RunOf[d] \in Runs
      BY <1>3
    <3>3. at'[c] = "held" => question'[c].asked
      BY <1>1 DEF IInv, TypeOK, Question, Rules, Put, Settled
    <3>4. at'[c] = "held" => verdict'[c] = None
      BY <1>1, <1>5 DEF IInv, Places
    <3> QED
      BY <1>1, <1>2, <1>4, <1>5, <2>2, <3>1, <3>2, <3>3, <3>4 DEF IInv, Places
  <2>4. OneQuestionARun'
    BY <1>1, <1>3, <2>2 DEF IInv, Places, OneQuestionARun
  <2> QED
    BY <2>1, <2>3, <2>4
<1>7. AnswersAreActedOn'
  BY <1>1, <1>2, <1>3 DEF IInv, AnswersAreActedOn, TypeOK
<1>8. OpenForAWait'
  BY <1>1, <1>2, <1>3, <1>5 DEF IInv, OpenForAWait, Open, TypeOK
<1>9. AllowedByAPerson'
  BY <1>1, <1>2, <1>3 DEF IInv, AllowedByAPerson, CallsOf
<1>10. LetThroughWasAllowed'
  <2>1. ASSUME NEW d \in Calls, verdict'[d] = "allow"
        PROVE  \E e \in CallsOf(RunOf[d]) : question[e].answer = "allow" /\ host[e] = host'[d]
    <3>1. CASE d = c
      <4>1. verdict[c] = None
        BY <1>1 DEF IInv, Places, LetThroughWasAllowed, TypeOK
      <4>2. h \in allowed[r]
        BY <2>1, <3>1, <4>1, <1>5
      <4> QED
        BY <1>1, <1>4, <3>1, <4>2 DEF IInv, AllowedByAPerson
    <3>2. CASE d # c
      BY <2>1, <1>3, <3>2 DEF IInv, LetThroughWasAllowed
    <3> QED
      BY <3>1, <3>2
  <2> QED
    BY <2>1, <1>1, <1>2, <1>3 DEF LetThroughWasAllowed, CallsOf
<1>11. CopiesWereAllowed'
  <2>1. Listable \subseteq Listable'
    BY <1>1, <1>2, <1>3 DEF Listable
  <2> QED
    BY <2>1 DEF IInv, CopiesWereAllowed
<1>12. KnowsRefusals'
  BY <1>1, <1>2, <1>3 DEF IInv, TypeOK, KnowsRefusals, CallsOn, Rules, Put
<1> QED
  BY <1>6, <1>7, <1>8, <1>9, <1>10, <1>11, <1>12 DEF IInv

(* What an answer does to its call and to its run's sets, which only grow. *)
LEMMA SettleDoes ==
  ASSUME TypeOK, NEW c \in Calls, Settle(c)
  PROVE  /\ \A s \in Runs : allowed[s] \subseteq allowed'[s] /\ refused[s] \subseteq refused'[s]
         /\ \A s \in Runs \ {RunOf[c]} : allowed'[s] = allowed[s]
         /\ allowed'[RunOf[c]] \subseteq allowed[RunOf[c]] \union {host[c]}
         /\ \A d \in Calls \ {c} : at'[d] = at[d] /\ verdict'[d] = verdict[d] /\ read'[d] = read[d]
         /\ \/ /\ question[c].answer = "refuse" /\ host[c] \in refused'[RunOf[c]]
               /\ allowed' = allowed /\ read' = read
               /\ at'[c] = "done" /\ verdict'[c] # "allow"
            \/ /\ question[c].answer = "allow" /\ host[c] \in allowed'[RunOf[c]]
               /\ read'[c] = list
               /\ at'[c] = "listing" /\ verdict' = verdict
<1> USE EgressAssumption DEF TypeOK
<1>0. RunOf[c] \in Runs
  OBVIOUS
<1>1. CASE /\ question[c].answer = "refuse"
           /\ refused' = [refused EXCEPT ![RunOf[c]] = @ \union {host[c]}]
           /\ Settled(c, "refuse")
           /\ UNCHANGED <<allowed, read>>
  <2>1. \A s \in Runs : refused[s] \subseteq refused'[s]
    BY <1>0, <1>1
  <2>2. host[c] \in refused'[RunOf[c]]
    BY <1>0, <1>1
  <2>3. /\ \A d \in Calls \ {c} : at'[d] = at[d] /\ verdict'[d] = verdict[d]
        /\ at'[c] = "done" /\ verdict'[c] # "allow"
    BY <1>1 DEF Settled
  <2> QED
    BY <1>1, <2>1, <2>2, <2>3
<1>2. CASE /\ question[c].answer = "allow"
           /\ allowed' = [allowed EXCEPT ![RunOf[c]] = @ \union {host[c]}]
           /\ read' = [read EXCEPT ![c] = list]
           /\ at' = [at EXCEPT ![c] = "listing"]
           /\ UNCHANGED <<refused, verdict>>
  <2>1. /\ \A s \in Runs : allowed[s] \subseteq allowed'[s]
        /\ \A s \in Runs \ {RunOf[c]} : allowed'[s] = allowed[s]
        /\ allowed'[RunOf[c]] = allowed[RunOf[c]] \union {host[c]}
    BY <1>0, <1>2
  <2>2. /\ \A d \in Calls \ {c} : at'[d] = at[d] /\ read'[d] = read[d]
        /\ at'[c] = "listing" /\ read'[c] = list
    BY <1>2
  <2> QED
    BY <1>2, <2>1, <2>2
<1> QED
  BY <1>1, <1>2 DEF Settle

(* Acting on an answer keeps the invariant. *)
LEMMA SettleKeeps ==
  ASSUME IInv, TypeOK', NEW c \in Calls,
         state[RunOf[c]] = "live", at[c] \in Reading, Settle(c),
         UNCHANGED <<state, earlier, aborted, asked, profile, host, question, passed, person, list, byHand, orphaned, unclosed>>
  PROVE  IInv'
<1> DEFINE r == RunOf[c]
<1> USE EgressAssumption DEF InFlight, Reading
<1>1. r \in Runs
  OBVIOUS
<1>2. OneLive' /\ OneQuestionARun'
  BY DEF IInv, OneLive, OneQuestionARun
<1>3. Places'
  BY SettleDoes DEF IInv, Places
<1>4. OpenForAWait'
  BY SettleDoes DEF IInv, OpenForAWait, Open
<1>5. AnswersAreActedOn'
  BY SettleDoes DEF IInv, AnswersAreActedOn
<1>6. AllowedByAPerson'
  <2>1. CASE question[c].answer = "allow"
    BY <2>1, SettleDoes DEF IInv, AllowedByAPerson, CallsOf
  <2>2. CASE allowed' = allowed
    BY <2>2 DEF IInv, AllowedByAPerson, CallsOf
  <2> QED
    BY <2>1, <2>2, SettleDoes DEF IInv
<1>7. LetThroughWasAllowed'
  BY SettleDoes DEF IInv, LetThroughWasAllowed, CallsOf
<1>8. CopiesWereAllowed'
  <2>1. Listable' = Listable
    BY DEF Listable
  <2> QED
    BY <2>1, SettleDoes DEF IInv, CopiesWereAllowed
<1>9. KnowsRefusals'
  <2>1. \A s \in Runs : refused[s] \subseteq refused'[s]
    BY SettleDoes DEF IInv
  <2> QED
    BY <2>1 DEF IInv, KnowsRefusals, CallsOn
<1> QED
  BY <1>2, <1>3, <1>4, <1>5, <1>6, <1>7, <1>8, <1>9 DEF IInv

(* A refusal given while a run waits is given to the run that is live. *)
LEMMA AnswerKnown ==
  ASSUME IInv, TypeOK', NEW p \in Persons, NEW c \in Calls, NEW choice \in Choices, Answer(p, c, choice)
  PROVE KnowsRefusals'
<1> USE EgressAssumption DEF Answer, runVars, callVars
<1>1. ASSUME NEW r \in Runs, NEW d \in CallsOn(TicketOf[r]) \ orphaned',
             state[r] = "live", ~asked[r], question'[d].answer = "refuse"
      PROVE  host[d] \in refused[r]
  <2>1. d \in Calls /\ TicketOf[RunOf[d]] = TicketOf[r] /\ d \notin orphaned /\ RunOf[d] \in Runs
    BY <1>1 DEF CallsOn
  <2>2. CASE d # c
    <3>1. question[d].answer = "refuse"
      BY <1>1, <2>1, <2>2 DEF IInv, TypeOK
    <3> QED
      BY <1>1, <2>1, <3>1 DEF IInv, KnowsRefusals, CallsOn
  <2>3. CASE d = c
    <3>1. state[RunOf[c]] = "live" /\ at[c] \in Reading
      BY <1>1, <2>3
    <3>2. RunOf[c] = r
      BY <1>1, <2>1, <2>3, <3>1 DEF IInv, OneLive
    <3>3. asked[r]
      BY <2>1, <2>3, <3>1, <3>2 DEF IInv, Places, InFlight, Reading
    <3> QED
      BY <1>1, <3>3
  <2> QED
    BY <2>2, <2>3
<1> QED
  BY <1>1 DEF KnowsRefusals
(* Every step keeps the invariant. *)
LEMMA StepIInv == IInv /\ [Next]_vars => IInv'
<1> SUFFICES ASSUME IInv, [Next]_vars
             PROVE  IInv'
  OBVIOUS
<1> USE EgressAssumption
<1>0. TypeOK'
  BY TypeStep DEF IInv
<1>1. ASSUME NEW r \in Runs, Start(r)
      PROVE  IInv'
  <2>1. OneLive' /\ Places' /\ OneQuestionARun' /\ OpenForAWait'
    BY <1>1 DEF IInv, TypeOK, Question, Start, Live, RefusedHosts, CallsOn, CallsOf, callVars, OneLive, Places, OneQuestionARun, OpenForAWait, Open, InFlight, Reading
  <2>2. AnswersAreActedOn' /\ AllowedByAPerson' /\ LetThroughWasAllowed'
    BY <1>1 DEF IInv, TypeOK, Question, Start, Live, RefusedHosts, CallsOn, CallsOf, callVars, AnswersAreActedOn, AllowedByAPerson, LetThroughWasAllowed, Places, InFlight, Reading
  <2>3. CopiesWereAllowed' /\ KnowsRefusals'
    BY <1>1 DEF IInv, TypeOK, Question, Start, Live, RefusedHosts, CallsOn, CallsOf, callVars, CopiesWereAllowed, Listable, KnowsRefusals, Places, InFlight, Reading
  <2> QED
    BY <1>0, <2>1, <2>2, <2>3 DEF IInv
<1>2. ASSUME NEW r \in Runs, Abort(r) \/ NextAttempt(r)
      PROVE  IInv'
  <2>1. OneLive' /\ Places' /\ OneQuestionARun' /\ OpenForAWait'
    BY <1>2 DEF IInv, TypeOK, Question, Abort, NextAttempt, callVars, OneLive, Places, OneQuestionARun, OpenForAWait, Open, InFlight, Reading
  <2>2. AnswersAreActedOn' /\ AllowedByAPerson' /\ LetThroughWasAllowed'
    BY <1>2 DEF IInv, TypeOK, Question, Abort, NextAttempt, callVars, AnswersAreActedOn, AllowedByAPerson, LetThroughWasAllowed, CallsOf, Places, InFlight, Reading
  <2>3. CopiesWereAllowed' /\ KnowsRefusals'
    BY <1>2 DEF IInv, TypeOK, Question, Abort, NextAttempt, callVars, CopiesWereAllowed, Listable, KnowsRefusals, CallsOn, Places, InFlight, Reading
  <2> QED
    BY <1>0, <2>1, <2>2, <2>3 DEF IInv
<1>3. ASSUME NEW r \in Runs, End(r)
      PROVE  IInv'
  <2>1. OneLive' /\ Places' /\ OneQuestionARun' /\ OpenForAWait'
    BY <1>3 DEF IInv, TypeOK, Question, End, Stops, InTouch, CallsOf, callVars, OneLive, Places, OneQuestionARun, OpenForAWait, Open, InFlight, Reading
  <2>2. AnswersAreActedOn' /\ AllowedByAPerson' /\ LetThroughWasAllowed'
    BY <1>3 DEF IInv, TypeOK, Question, End, Stops, InTouch, CallsOf, callVars, AnswersAreActedOn, AllowedByAPerson, LetThroughWasAllowed, Places, InFlight, Reading
  <2>3. CopiesWereAllowed' /\ KnowsRefusals'
    BY <1>3 DEF IInv, TypeOK, Question, End, Stops, InTouch, CallsOf, callVars, CopiesWereAllowed, Listable, KnowsRefusals, CallsOn, Places, InFlight, Reading
  <2> QED
    BY <1>0, <2>1, <2>2, <2>3 DEF IInv
<1>4. ASSUME NEW r \in Runs, Die(r)
      PROVE  IInv'
  <2>1. OneLive' /\ Places' /\ OneQuestionARun' /\ OpenForAWait'
    BY <1>4 DEF IInv, TypeOK, Question, Die, Stops, callVars, OneLive, Places, OneQuestionARun, OpenForAWait, Open, InFlight, Reading
  <2>2. AnswersAreActedOn' /\ AllowedByAPerson' /\ LetThroughWasAllowed'
    BY <1>4 DEF IInv, TypeOK, Question, Die, Stops, callVars, AnswersAreActedOn, AllowedByAPerson, LetThroughWasAllowed, CallsOf, Places, InFlight, Reading
  <2>3. CopiesWereAllowed' /\ KnowsRefusals'
    BY <1>4 DEF IInv, TypeOK, Question, Die, Stops, callVars, CopiesWereAllowed, Listable, KnowsRefusals, CallsOn, Places, InFlight, Reading
  <2> QED
    BY <1>0, <2>1, <2>2, <2>3 DEF IInv
<1>5. ASSUME NEW c \in Calls, NEW h \in Hosts, Ask(c, h)
      PROVE  IInv'
  <2>1. CASE Asking(RunOf[c]) = {} /\ Rules(c, h)
    BY <1>0, <1>5, <2>1, RulesKeep DEF Ask
  <2>2. CASE at' = [at EXCEPT ![c] = "waiting"] /\ UNCHANGED <<verdict, asked, question, events>>
    <3> USE <1>5, <2>2 DEF Ask, Elsewhere, IInv, TypeOK, Question, Places, InFlight, Reading
    <3>1. OneLive' /\ Places' /\ OneQuestionARun' /\ OpenForAWait'
      BY DEF OneLive, OneQuestionARun, OpenForAWait, Open
    <3>2. AnswersAreActedOn' /\ AllowedByAPerson' /\ LetThroughWasAllowed'
      BY DEF AnswersAreActedOn, AllowedByAPerson, LetThroughWasAllowed, CallsOf
    <3>3. CopiesWereAllowed' /\ KnowsRefusals'
      BY DEF CopiesWereAllowed, Listable, KnowsRefusals, CallsOn
    <3> QED
      BY <1>0, <3>1, <3>2, <3>3 DEF IInv
  <2> QED
    BY <1>5, <2>1, <2>2 DEF Ask
<1>6. ASSUME NEW c \in Calls, Wake(c)
      PROVE  IInv'
  <2>1. host[c] \in Hosts /\ host' = [host EXCEPT ![c] = host[c]]
    BY <1>6 DEF Wake, IInv, TypeOK, Places
  <2> QED
    BY <1>0, <1>6, <2>1, RulesKeep DEF Wake
<1>7. ASSUME NEW c \in Calls, Poll(c)
      PROVE  IInv'
  <2>1. CASE Settle(c)
    BY <1>0, <1>7, <2>1, SettleKeeps DEF Poll, Reading
  <2>2. CASE /\ at' = [at EXCEPT ![c] = "late"]
             /\ UNCHANGED <<allowed, refused, read, verdict>>
    <3>1. OneLive' /\ Places' /\ OneQuestionARun' /\ OpenForAWait'
      BY <1>7, <2>2 DEF IInv, TypeOK, Question, Poll, OneLive, Places, OneQuestionARun, OpenForAWait, Open, InFlight, Reading
    <3>2. AnswersAreActedOn' /\ AllowedByAPerson' /\ LetThroughWasAllowed'
      BY <1>7, <2>2 DEF IInv, TypeOK, Question, Poll, AnswersAreActedOn, AllowedByAPerson, LetThroughWasAllowed, CallsOf, Places, InFlight, Reading
    <3>3. CopiesWereAllowed' /\ KnowsRefusals'
      BY <1>7, <2>2 DEF IInv, TypeOK, Question, Poll, CopiesWereAllowed, Listable, KnowsRefusals, CallsOn, Places, InFlight, Reading
    <3> QED
      BY <1>0, <3>1, <3>2, <3>3 DEF IInv
  <2> QED
    BY <1>7, <2>1, <2>2 DEF Poll
<1>8. ASSUME NEW c \in Calls, PollFails(c)
      PROVE  IInv'
  <2>1. OneLive' /\ Places' /\ OneQuestionARun' /\ OpenForAWait'
    BY <1>8 DEF IInv, TypeOK, Question, PollFails, Settled, runVars, OneLive, Places, OneQuestionARun, OpenForAWait, Open, InFlight, Reading
  <2>2. AnswersAreActedOn' /\ AllowedByAPerson' /\ LetThroughWasAllowed'
    BY <1>8 DEF IInv, TypeOK, Question, PollFails, Settled, runVars, AnswersAreActedOn, AllowedByAPerson, LetThroughWasAllowed, CallsOf, Places, InFlight, Reading
  <2>3. CopiesWereAllowed' /\ KnowsRefusals'
    BY <1>8 DEF IInv, TypeOK, Question, PollFails, Settled, runVars, CopiesWereAllowed, Listable, KnowsRefusals, CallsOn, Places, InFlight, Reading
  <2> QED
    BY <1>0, <2>1, <2>2, <2>3 DEF IInv
<1>9. ASSUME NEW c \in Calls, Close(c)
      PROVE  IInv'
  <2>1. CASE Settle(c)
    <3>1. UNCHANGED <<state, earlier, aborted, asked, profile, host, question>>
      BY <1>9, <2>1 DEF Close, Settle
    <3> QED
      BY <1>0, <1>9, <2>1, <3>1, SettleKeeps DEF Close, WaitIsOver, Reading
  <2>2. CASE /\ question[c].answer = None
             /\ question' = [question EXCEPT ![c].closed = TRUE]
             /\ Unanswered(c)
    <3>1. OneLive' /\ Places' /\ OneQuestionARun' /\ OpenForAWait'
      BY <1>9, <2>2 DEF IInv, TypeOK, Question, Close, Unanswered, WaitIsOver, OneLive, Places, OneQuestionARun, OpenForAWait, Open, InFlight, Reading
    <3>2. AnswersAreActedOn' /\ AllowedByAPerson' /\ LetThroughWasAllowed'
      BY <1>9, <2>2 DEF IInv, TypeOK, Question, Close, Unanswered, WaitIsOver, AnswersAreActedOn, AllowedByAPerson, LetThroughWasAllowed, CallsOf, Places, InFlight, Reading
    <3>3. CopiesWereAllowed' /\ KnowsRefusals'
      BY <1>9, <2>2 DEF IInv, TypeOK, Question, Close, Unanswered, WaitIsOver, CopiesWereAllowed, Listable, KnowsRefusals, CallsOn, Places, InFlight, Reading
    <3> QED
      BY <1>0, <3>1, <3>2, <3>3 DEF IInv
  <2> QED
    BY <1>9, <2>1, <2>2 DEF Close
<1>10. ASSUME NEW c \in Calls, CloseFails(c)
      PROVE  IInv'
  <2>1. OneLive' /\ Places' /\ OneQuestionARun' /\ OpenForAWait'
    BY <1>10 DEF IInv, TypeOK, Question, CloseFails, Unanswered, WaitIsOver, OneLive, Places, OneQuestionARun, OpenForAWait, Open, InFlight, Reading
  <2>2. AnswersAreActedOn' /\ AllowedByAPerson' /\ LetThroughWasAllowed'
    BY <1>10 DEF IInv, TypeOK, Question, CloseFails, Unanswered, WaitIsOver, AnswersAreActedOn, AllowedByAPerson, LetThroughWasAllowed, CallsOf, Places, InFlight, Reading
  <2>3. CopiesWereAllowed' /\ KnowsRefusals'
    BY <1>10 DEF IInv, TypeOK, Question, CloseFails, Unanswered, WaitIsOver, CopiesWereAllowed, Listable, KnowsRefusals, CallsOn, Places, InFlight, Reading
  <2> QED
    BY <1>0, <2>1, <2>2, <2>3 DEF IInv
<1>11. ASSUME NEW c \in Calls, WriteList(c)
      PROVE  IInv'
  <2>1. OneLive' /\ Places' /\ OneQuestionARun' /\ OpenForAWait'
    BY <1>11 DEF IInv, TypeOK, Question, WriteList, NewList, Settled, OneLive, Places, OneQuestionARun, OpenForAWait, Open, InFlight, Reading
  <2>2. AnswersAreActedOn' /\ AllowedByAPerson' /\ LetThroughWasAllowed'
    BY <1>11 DEF IInv, TypeOK, Question, WriteList, NewList, Settled, AnswersAreActedOn, AllowedByAPerson, LetThroughWasAllowed, CallsOf, Places, InFlight, Reading
  <2>3. CopiesWereAllowed' /\ KnowsRefusals'
    BY <1>11 DEF IInv, TypeOK, Question, WriteList, NewList, Settled, CopiesWereAllowed, Listable, KnowsRefusals, CallsOn, Places, InFlight, Reading
  <2> QED
    BY <1>0, <2>1, <2>2, <2>3 DEF IInv
<1>12. ASSUME NEW p \in Persons, NEW t \in Tickets, Begin(p, t)
      PROVE  IInv'
  <2>1. OneLive' /\ Places' /\ OneQuestionARun' /\ OpenForAWait'
    BY <1>12 DEF IInv, TypeOK, Question, Begin, runVars, callVars, OneLive, Places, OneQuestionARun, OpenForAWait, Open, InFlight, Reading
  <2>2. AnswersAreActedOn' /\ AllowedByAPerson' /\ LetThroughWasAllowed'
    BY <1>12 DEF IInv, TypeOK, Question, Begin, runVars, callVars, AnswersAreActedOn, AllowedByAPerson, LetThroughWasAllowed, CallsOf, Places, InFlight, Reading
  <2>3. CopiesWereAllowed' /\ KnowsRefusals'
    BY <1>12 DEF IInv, TypeOK, Question, Begin, runVars, callVars, CopiesWereAllowed, Listable, KnowsRefusals, CallsOn, Places, InFlight, Reading
  <2> QED
    BY <1>0, <2>1, <2>2, <2>3 DEF IInv
<1>13. ASSUME NEW p \in Persons, NEW c \in Calls, NEW choice \in Choices, Answer(p, c, choice)
      PROVE  IInv'
  <2>1. OneLive' /\ Places' /\ OneQuestionARun' /\ OpenForAWait'
    BY <1>13 DEF IInv, TypeOK, Question, Answer, Open, runVars, callVars, CallsOn, Choices, OneLive, Places, OneQuestionARun, OpenForAWait, InFlight, Reading
  <2>2. AnswersAreActedOn' /\ AllowedByAPerson' /\ LetThroughWasAllowed'
    BY <1>13 DEF IInv, TypeOK, Question, Answer, Open, runVars, callVars, CallsOn, Choices, AnswersAreActedOn, AllowedByAPerson, LetThroughWasAllowed, CallsOf, Places, InFlight, Reading
  <2>3. CopiesWereAllowed'
    BY <1>13 DEF IInv, TypeOK, Question, Answer, Open, runVars, callVars, CallsOn, Choices, CopiesWereAllowed, Listable
  <2>4. KnowsRefusals'
    BY <1>0, <1>13, AnswerKnown
  <2> QED
    BY <1>0, <2>1, <2>2, <2>3, <2>4 DEF IInv
<1>14. ASSUME NEW p \in Persons, Leave(p)
      PROVE  IInv'
  <2>1. OneLive' /\ Places' /\ OneQuestionARun' /\ OpenForAWait'
    BY <1>14 DEF IInv, TypeOK, Question, Leave, runVars, callVars, OneLive, Places, OneQuestionARun, OpenForAWait, Open, InFlight, Reading
  <2>2. AnswersAreActedOn' /\ AllowedByAPerson' /\ LetThroughWasAllowed'
    BY <1>14 DEF IInv, TypeOK, Question, Leave, runVars, callVars, AnswersAreActedOn, AllowedByAPerson, LetThroughWasAllowed, CallsOf, Places, InFlight, Reading
  <2>3. CopiesWereAllowed' /\ KnowsRefusals'
    BY <1>14 DEF IInv, TypeOK, Question, Leave, runVars, callVars, CopiesWereAllowed, Listable, KnowsRefusals, CallsOn, Places, InFlight, Reading
  <2> QED
    BY <1>0, <2>1, <2>2, <2>3 DEF IInv
<1>15. ASSUME NEW c \in Calls, Passes(c)
      PROVE  IInv'
  <2>1. OneLive' /\ Places' /\ OneQuestionARun' /\ OpenForAWait'
    BY <1>15 DEF IInv, TypeOK, Question, Passes, runVars, callVars, OneLive, Places, OneQuestionARun, OpenForAWait, Open, InFlight, Reading
  <2>2. AnswersAreActedOn' /\ AllowedByAPerson' /\ LetThroughWasAllowed'
    BY <1>15 DEF IInv, TypeOK, Question, Passes, runVars, callVars, AnswersAreActedOn, AllowedByAPerson, LetThroughWasAllowed, CallsOf, Places, InFlight, Reading
  <2>3. CopiesWereAllowed' /\ KnowsRefusals'
    BY <1>15 DEF IInv, TypeOK, Question, Passes, runVars, callVars, CopiesWereAllowed, Listable, KnowsRefusals, CallsOn, Places, InFlight, Reading
  <2> QED
    BY <1>0, <2>1, <2>2, <2>3 DEF IInv
<1>16. ASSUME NEW h \in Plain, EditList(h)
      PROVE  IInv'
  <2>1. OneLive' /\ Places' /\ OneQuestionARun' /\ OpenForAWait'
    BY <1>16 DEF IInv, TypeOK, Question, EditList, runVars, callVars, OneLive, Places, OneQuestionARun, OpenForAWait, Open, InFlight, Reading
  <2>2. AnswersAreActedOn' /\ AllowedByAPerson' /\ LetThroughWasAllowed'
    BY <1>16 DEF IInv, TypeOK, Question, EditList, runVars, callVars, AnswersAreActedOn, AllowedByAPerson, LetThroughWasAllowed, CallsOf, Places, InFlight, Reading
  <2>3. CopiesWereAllowed' /\ KnowsRefusals'
    BY <1>16 DEF IInv, TypeOK, Question, EditList, runVars, callVars, CopiesWereAllowed, Listable, KnowsRefusals, CallsOn, Places, InFlight, Reading
  <2> QED
    BY <1>0, <2>1, <2>2, <2>3 DEF IInv
<1>17. CASE UNCHANGED vars
  <2>1. OneLive' /\ Places' /\ OneQuestionARun' /\ OpenForAWait'
    BY <1>17 DEF IInv, TypeOK, Question, vars, runVars, callVars, OneLive, Places, OneQuestionARun, OpenForAWait, Open, InFlight, Reading
  <2>2. AnswersAreActedOn' /\ AllowedByAPerson' /\ LetThroughWasAllowed'
    BY <1>17 DEF IInv, TypeOK, Question, vars, runVars, callVars, AnswersAreActedOn, AllowedByAPerson, LetThroughWasAllowed, CallsOf, Places, InFlight, Reading
  <2>3. CopiesWereAllowed' /\ KnowsRefusals'
    BY <1>17 DEF IInv, TypeOK, Question, vars, runVars, callVars, CopiesWereAllowed, Listable, KnowsRefusals, CallsOn, Places, InFlight, Reading
  <2> QED
    BY <1>0, <2>1, <2>2, <2>3 DEF IInv
<1> QED
  BY <1>1, <1>2, <1>3, <1>4, <1>5, <1>6, <1>7, <1>8, <1>9, <1>10, <1>11, <1>12, <1>13, <1>14, <1>15, <1>16, <1>17
  DEF Next, RunStep, CallStep, PersonStep

-----------------------------------------------------------------------------
(* The invariant holds in every reachable state. *)
LEMMA Invariance == Spec => []IInv
<1>1. Init => IInv
  BY InitIInv
<1>2. IInv /\ [Next]_vars => IInv'
  BY StepIInv
<1> QED
  BY <1>1, <1>2, PTL DEF Spec

(* Every variable keeps its type: a run, a call, a question on the record, a *)
(* command and the list are what the code makes them.                      *)
THEOREM TypeCorrect == Spec => []TypeOK
<1>1. IInv => TypeOK
  BY DEF IInv
<1> QED
  BY <1>1, Invariance, PTL

(* A question is answered or closed, never both, whatever the run and the  *)
(* persons do at once (closeEgressQuestion, answerUnderLock).              *)
THEOREM NeverBoth == Spec => []AnsweredOrClosed
<1>1. IInv => AnsweredOrClosed
  BY DEF IInv, Places, AnsweredOrClosed
<1> QED
  BY <1>1, Invariance, PTL

(* A run puts one question to a person (`asked` in RunEgressQuestions), also *)
(* when an attempt was stopping as it asked.                               *)
THEOREM OneQuestion == Spec => []OneQuestionARun
<1>1. IInv => OneQuestionARun
  BY DEF IInv
<1> QED
  BY <1>1, Invariance, PTL

(* A question that still takes an answer has a call waiting on it, unless  *)
(* the run died or could not read or close the record.                     *)
THEOREM OpenOnlyForAWait == Spec => []OpenForAWait
<1>1. IInv => OpenForAWait
  BY DEF IInv
<1> QED
  BY <1>1, Invariance, PTL

(* An answer given while the run waited is what the run did (settle, and the *)
(* close that returns an answer that landed).                              *)
THEOREM ActedOn == Spec => []AnswersAreActedOn
<1>1. IInv => AnswersAreActedOn
  BY DEF IInv
<1> QED
  BY <1>1, Invariance, PTL

(* A held call goes through only for a host a person allowed in its run. *)
THEOREM LetThrough == Spec => []LetThroughWasAllowed
<1>1. IInv => LetThroughWasAllowed
  BY DEF IInv
<1> QED
  BY <1>1, Invariance, PTL

(* Every host on the repository's list was put there by hand or allowed by a *)
(* person, also after a write of a stale copy (addToNetworkAllowList).     *)
THEOREM Listed == Spec => []ListedWasAllowed
<1>1. IInv => ListedWasAllowed
  BY DEF IInv, CopiesWereAllowed, Listable, ListedWasAllowed
<1> QED
  BY <1>1, Invariance, PTL

(* A run's one question is on the record as what it is: one a run, settled *)
(* once, and taking an answer only while a call waits on it                *)
(* (RunEgressQuestions.put, closeEgressQuestion).                          *)
THEOREM WaitedOn == Spec => []OneQuestionWaitedOn
<1>1. AnsweredOrClosed /\ OneQuestionARun /\ OpenForAWait => OneQuestionWaitedOn
  BY DEF OneQuestionWaitedOn
<1> QED
  BY <1>1, NeverBoth, OneQuestion, OpenOnlyForAWait, PTL

(* What a person answered decides, and nothing else does: the run does it, *)
(* no call goes through without it, and no host is listed without it       *)
(* (RunEgressQuestions.settle and allow, addToNetworkAllowList).           *)
THEOREM Decides == Spec => []AnswersDecide
<1>1. AnswersAreActedOn /\ LetThroughWasAllowed /\ ListedWasAllowed => AnswersDecide
  BY DEF AnswersDecide
<1> QED
  BY <1>1, ActedOn, LetThrough, Listed, PTL

(* What a step does to a question: it is asked once, answered or closed    *)
(* while it is neither, and otherwise left.                                *)
LEMMA QuestionStep ==
  ASSUME IInv, Next, NEW c \in Calls, question'[c] # question[c]
  PROVE  question[c].answer = None /\ ~question[c].closed
<1> USE EgressAssumption DEF IInv, TypeOK, Question, Places, InFlight, Reading
<1>1. ASSUME NEW r \in Runs, RunStep(r) PROVE UNCHANGED question
  BY <1>1 DEF RunStep, Start, Abort, NextAttempt, End, Die, Stops
<1>2. ASSUME NEW d \in Calls, NEW h \in Hosts, Ask(d, h) PROVE question[c].answer = None /\ ~question[c].closed
  BY <1>2 DEF Ask, Rules, Put
<1>3. ASSUME NEW d \in Calls, Wake(d) PROVE question[c].answer = None /\ ~question[c].closed
  BY <1>3 DEF Wake, Rules, Put
<1>4. ASSUME NEW d \in Calls, Poll(d) \/ PollFails(d) \/ CloseFails(d) \/ WriteList(d) \/ Passes(d)
      PROVE  UNCHANGED question
  BY <1>4 DEF Poll, PollFails, CloseFails, WriteList, Passes
<1>5. ASSUME NEW d \in Calls, Close(d) PROVE question[c].answer = None /\ ~question[c].closed
  BY <1>5 DEF Close, WaitIsOver
<1>6. ASSUME NEW p \in Persons, NEW t \in Tickets, Begin(p, t) PROVE UNCHANGED question
  BY <1>6 DEF Begin
<1>7. ASSUME NEW p \in Persons, NEW d \in Calls, NEW choice \in Choices, Answer(p, d, choice)
      PROVE  question[c].answer = None /\ ~question[c].closed
  BY <1>7 DEF Answer, Open
<1>8. ASSUME NEW p \in Persons, Leave(p) PROVE UNCHANGED question
  BY <1>8 DEF Leave
<1>9. ASSUME NEW h \in Plain, EditList(h) PROVE UNCHANGED question
  BY <1>9 DEF EditList
<1> QED
  BY <1>1, <1>2, <1>3, <1>4, <1>5, <1>6, <1>7, <1>8, <1>9 DEF Next, CallStep, PersonStep

(* The first answer, or the close, is the last word on a question: two     *)
(* answers cannot both be taken, nor an answer and a close.                *)
THEOREM FirstWordStands == Spec => SettledStands
<1>1. IInv /\ [Next]_vars =>
        [\A c \in Calls :
           question[c].answer # None \/ question[c].closed => question'[c] = question[c]]_vars
  <2>1. CASE UNCHANGED vars
    BY <2>1
  <2>2. ASSUME IInv, Next
        PROVE  \A c \in Calls :
                 question[c].answer # None \/ question[c].closed => question'[c] = question[c]
    BY <2>2, QuestionStep
  <2> QED
    BY <2>1, <2>2
<1> QED
  BY <1>1, Invariance, PTL DEF Spec, SettledStands

(* A question is only asked by a live run that has not asked yet, about a  *)
(* host it does not know refused.                                          *)
LEMMA AskedAfresh ==
  ASSUME IInv, Next, NEW c \in Calls, ~question[c].asked, question'[c].asked
  PROVE  LET r == RunOf[c] IN
         state[r] = "live" /\ ~asked[r] /\ host'[c] \notin refused[r]
<1> USE EgressAssumption DEF IInv, TypeOK, Question, Places, InFlight, Reading
<1>1. ASSUME NEW r \in Runs, RunStep(r) PROVE FALSE
  BY <1>1 DEF RunStep, Start, Abort, NextAttempt, End, Die, Stops
<1>2. ASSUME NEW d \in Calls, NEW h \in Hosts, Rules(d, h)
      PROVE  d = c /\ ~asked[RunOf[c]] /\ h \notin refused[RunOf[c]]
  BY <1>2 DEF Rules, Put
<1>3. ASSUME NEW d \in Calls, NEW h \in Hosts, Ask(d, h)
      PROVE  LET r == RunOf[c] IN state[r] = "live" /\ ~asked[r] /\ host'[c] \notin refused[r]
  BY <1>2, <1>3 DEF Ask
<1>4. ASSUME NEW d \in Calls, Wake(d)
      PROVE  LET r == RunOf[c] IN state[r] = "live" /\ ~asked[r] /\ host'[c] \notin refused[r]
  BY <1>2, <1>4 DEF Wake
<1>5. ASSUME NEW d \in Calls, Poll(d) \/ PollFails(d) \/ CloseFails(d) \/ WriteList(d) \/ Passes(d)
      PROVE  FALSE
  BY <1>5 DEF Poll, PollFails, CloseFails, WriteList, Passes
<1>6. ASSUME NEW d \in Calls, Close(d) PROVE FALSE
  <2>1. CASE UNCHANGED question
    BY <2>1
  <2>2. CASE question' = [question EXCEPT ![d].closed = TRUE]
    BY <2>2
  <2> QED
    BY <1>6, <2>1, <2>2 DEF Close
<1>7. ASSUME NEW p \in Persons, PersonStep(p) PROVE FALSE
  BY <1>7 DEF PersonStep, Begin, Answer, Open, Leave
<1>8. ASSUME NEW h \in Plain, EditList(h) PROVE FALSE
  BY <1>8 DEF EditList
<1> QED
  BY <1>1, <1>3, <1>4, <1>5, <1>6, <1>7, <1>8 DEF Next, CallStep

(* A host a person refused on a ticket is not asked about again on it, in  *)
(* that run or a later one, if a run was waiting on the refusal.           *)
THEOREM Remembered == Spec => RefusalsAreRemembered
<1>1. IInv /\ [Next]_vars =>
        [\A c \in Calls :
           ~question[c].asked /\ question'[c].asked =>
             \A d \in CallsOn(TicketOf[RunOf[c]]) \ orphaned :
               question[d].answer = "refuse" => host[d] # host'[c]]_vars
  <2>1. CASE UNCHANGED vars
    BY <2>1
  <2>2. ASSUME IInv, Next, NEW c \in Calls, ~question[c].asked, question'[c].asked,
               NEW d \in CallsOn(TicketOf[RunOf[c]]) \ orphaned, question[d].answer = "refuse"
        PROVE  host[d] # host'[c]
    <3>1. RunOf[c] \in Runs /\ state[RunOf[c]] = "live" /\ ~asked[RunOf[c]] /\ host'[c] \notin refused[RunOf[c]]
      BY <2>2, AskedAfresh, EgressAssumption
    <3>2. host[d] \in refused[RunOf[c]]
      BY <2>2, <3>1 DEF IInv, KnowsRefusals
    <3> QED
      BY <3>1, <3>2
  <2> QED
    BY <2>1, <2>2
<1> QED
  BY <1>1, Invariance, PTL DEF Spec, RefusalsAreRemembered
=============================================================================
