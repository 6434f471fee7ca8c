--------------------------- MODULE EgressQuestions --------------------------
(***************************************************************************)
(* packages/runner/src/loop/internal/egress.ts (RunEgressQuestions) and    *)
(* packages/runner/src/egress-questions.ts: the one question a run puts to *)
(* a person about a host off its allow list, the answer given by another   *)
(* process (`perbo verdict --egress`), and what the run does with it.      *)
(*                                                                         *)
(* A call is one tool call the adapter holds because it names such a host. *)
(* Its question is on its ticket's record, which every process changes     *)
(* under the record's lock, so a change is one action; RecordLock is about *)
(* that lock.  The configuration's allow list is read and written with no  *)
(* lock, in two actions.  A run works on one thread: from the moment it    *)
(* stops waiting on a question until it has closed it or has written the   *)
(* list it does nothing else, while other processes may.                   *)
(***************************************************************************)
EXTENDS Naturals, FiniteSets

CONSTANTS
  Tickets,
  Runs,
  TicketOf,     \* the ticket each run is of
  Calls,        \* the calls the adapter holds
  RunOf,        \* the run each call is made in
  Hosts,
  Plain,        \* the hosts a list may hold: plain host names
  Persons,      \* who answers: the commands open at a time
  None,         \* no ticket, no answer
  MaxEvents     \* bound: deaths, failed file operations and edits by hand

ASSUME EgressAssumption ==
  /\ TicketOf \in [Runs -> Tickets]
  /\ RunOf \in [Calls -> Runs]
  /\ Plain \subseteq Hosts
  /\ None \notin Tickets \union {"allow", "refuse"}
  /\ MaxEvents \in Nat

VARIABLES
  state,        \* each run: "idle", "live", "ended" or "dead"
  earlier,      \* for each run, the runs started no later than it
  aborted,      \* its attempt is stopping: the signal its questions wait under
  asked,        \* it has asked its one question
  allowed,      \* the hosts a person allowed it
  refused,      \* the hosts it knows a person refused on its ticket
  profile,      \* the allow list it works under
  at,           \* where each call is
  host,         \* the host it names
  verdict,      \* what became of it
  read,         \* the list read for it
  question,     \* its question on the ticket's record
  passed,       \* calls whose question's window is over
  person,       \* what each person's command read when it began
  list,         \* network_allow_list in .perbo/config.json
  byHand,       \* history: hosts a person put on the list
  orphaned,     \* history: calls answered when nothing waited on them
  unclosed,     \* history: calls whose record could not be read or closed
  events

runVars == <<state, earlier, aborted, asked, allowed, refused, profile>>
callVars == <<at, host, verdict, read>>
vars == <<runVars, callVars, question, passed, person, list, byHand, orphaned, unclosed, events>>

Choices == {"allow", "refuse"}
Reading == {"held", "late"}
InFlight == Reading \union {"listing"}
Question == [asked : BOOLEAN, answer : Choices \union {None}, closed : BOOLEAN]
Command == [ticket : Tickets \union {None}, live : SUBSET Runs, passed : SUBSET Calls]
NoCommand == [ticket |-> None, live |-> {}, passed |-> {}]

TypeOK ==
  /\ state \in [Runs -> {"idle", "live", "ended", "dead"}]
  /\ earlier \in [Runs -> SUBSET Runs]
  /\ aborted \in [Runs -> BOOLEAN]
  /\ asked \in [Runs -> BOOLEAN]
  /\ allowed \in [Runs -> SUBSET Hosts]
  /\ refused \in [Runs -> SUBSET Hosts]
  /\ profile \in [Runs -> SUBSET Hosts]
  /\ at \in [Calls -> {"idle", "waiting", "done"} \union InFlight]
  /\ host \in [Calls -> Hosts \union {None}]
  /\ verdict \in [Calls -> Choices \union {None, "stopped"}]
  /\ read \in [Calls -> SUBSET Hosts]
  /\ question \in [Calls -> Question]
  /\ passed \in SUBSET Calls
  /\ person \in [Persons -> Command]
  /\ list \in SUBSET Hosts
  /\ byHand \in SUBSET Hosts
  /\ orphaned \in SUBSET Calls
  /\ unclosed \in SUBSET Calls
  /\ events \in 0..MaxEvents

Init ==
  /\ state = [r \in Runs |-> "idle"]
  /\ earlier = [r \in Runs |-> {}]
  /\ aborted = [r \in Runs |-> FALSE]
  /\ asked = [r \in Runs |-> FALSE]
  /\ allowed = [r \in Runs |-> {}]
  /\ refused = [r \in Runs |-> {}]
  /\ profile = [r \in Runs |-> {}]
  /\ at = [c \in Calls |-> "idle"]
  /\ host = [c \in Calls |-> None]
  /\ verdict = [c \in Calls |-> None]
  /\ read = [c \in Calls |-> {}]
  /\ question = [c \in Calls |-> [asked |-> FALSE, answer |-> None, closed |-> FALSE]]
  /\ passed = {}
  /\ person = [p \in Persons |-> NoCommand]
  /\ list \in SUBSET Plain
  /\ byHand = list
  /\ orphaned = {}
  /\ unclosed = {}
  /\ events = 0

CallsOf(r) == {c \in Calls : RunOf[c] = r}
CallsOn(t) == {c \in Calls : TicketOf[RunOf[c]] = t}
Live(t) == {r \in Runs : TicketOf[r] = t /\ state[r] = "live"}

(* The call a run is asking about, if there is one. *)
Asking(r) == {c \in CallsOf(r) : at[c] \in InFlight}

(* Its thread is between the end of a wait and what the wait's end does. *)
Busy(r) == \E c \in CallsOf(r) : at[c] \in {"late", "listing"}

InTouch(r) == \E c \in CallsOf(r) : at[c] \in InFlight \union {"waiting"}

RefusedHosts(t) == {host[c] : c \in {d \in CallsOn(t) : question[d].answer = "refuse"}}

(* Neither answered nor closed; a window that is over is the answerer's    *)
(* to judge, by the time its command began.                                *)
Open(c) == question[c].asked /\ question[c].answer = None /\ ~question[c].closed

Happens == events < MaxEvents /\ events' = events + 1

-----------------------------------------------------------------------------
(* Mutant: a run starts with no refusals. *)
StartAfresh(r) ==
  /\ state[r] = "idle"
  /\ Live(TicketOf[r]) = {}
  /\ state' = [state EXCEPT ![r] = "live"]
  /\ earlier' = [earlier EXCEPT ![r] = {s \in Runs : state[s] # "idle"} \union {r}]
  /\ profile' = [profile EXCEPT ![r] = list]
  /\ UNCHANGED <<aborted, asked, allowed, refused, callVars, question, passed, person, list, byHand, orphaned, unclosed, events>>

(* Runs.  A run holds its ticket's run lock; it reads the refusals on the  *)
(* ticket's record, and the list it works under, once.                     *)
Start(r) ==
  /\ state[r] = "idle"
  /\ Live(TicketOf[r]) = {}
  /\ state' = [state EXCEPT ![r] = "live"]
  /\ earlier' = [earlier EXCEPT ![r] = {s \in Runs : state[s] # "idle"} \union {r}]
  /\ refused' = [refused EXCEPT ![r] = RefusedHosts(TicketOf[r])]
  /\ profile' = [profile EXCEPT ![r] = list]
  /\ UNCHANGED <<aborted, asked, allowed, callVars, question, passed, person, list, byHand, orphaned, unclosed, events>>

(* The attempt ends, or is stopped: its questions are told to stop waiting. *)
Abort(r) ==
  /\ state[r] = "live" /\ ~aborted[r] /\ ~Busy(r)
  /\ aborted' = [aborted EXCEPT ![r] = TRUE]
  /\ UNCHANGED <<state, earlier, asked, allowed, refused, profile, callVars, question, passed, person, list, byHand, orphaned, unclosed, events>>

NextAttempt(r) ==
  /\ state[r] = "live" /\ aborted[r] /\ ~InTouch(r)
  /\ aborted' = [aborted EXCEPT ![r] = FALSE]
  /\ UNCHANGED <<state, earlier, asked, allowed, refused, profile, callVars, question, passed, person, list, byHand, orphaned, unclosed, events>>

Stops(r, how) ==
  /\ state[r] = "live"
  /\ state' = [state EXCEPT ![r] = how]
  /\ UNCHANGED <<earlier, aborted, asked, allowed, refused, profile, callVars, question, passed, person, list, byHand, orphaned, unclosed>>

End(r) == ~InTouch(r) /\ Stops(r, "ended") /\ UNCHANGED events

Die(r) == Happens /\ Stops(r, "dead")

-----------------------------------------------------------------------------
(* Calls.  An attempt that is stopping drops what it is told. *)
Settled(c, v) ==
  /\ at' = [at EXCEPT ![c] = "done"]
  /\ verdict' = [verdict EXCEPT ![c] = IF aborted[RunOf[c]] THEN "stopped" ELSE v]

(* The record could be written, or it could not; either way the run's one  *)
(* question is spent.                                                      *)
Put(c) ==
  /\ asked' = [asked EXCEPT ![RunOf[c]] = TRUE]
  /\ \/ /\ at' = [at EXCEPT ![c] = "held"]
        /\ question' = [question EXCEPT ![c].asked = TRUE]
        /\ UNCHANGED <<verdict, events>>
     \/ Happens /\ Settled(c, "refuse") /\ UNCHANGED question

Rules(c, h) ==
  LET r == RunOf[c]
      closedTo == h \notin Plain \/ h \in refused[r] \/ asked[r]
  IN \/ h \in allowed[r] /\ Settled(c, "allow") /\ UNCHANGED <<asked, question, events>>
     \/ h \notin allowed[r] /\ closedTo /\ Settled(c, "refuse") /\ UNCHANGED <<asked, question, events>>
     \/ h \notin allowed[r] /\ ~closedTo /\ Put(c)

Elsewhere == <<state, earlier, aborted, allowed, refused, profile, read, passed, person, list, byHand, orphaned, unclosed>>

Ask(c, h) ==
  LET r == RunOf[c] IN
  /\ state[r] = "live" /\ ~Busy(r)
  /\ at[c] = "idle" /\ h \notin profile[r]
  /\ host' = [host EXCEPT ![c] = h]
  /\ \/ Asking(r) = {} /\ Rules(c, h)
     \/ Asking(r) # {} /\ at' = [at EXCEPT ![c] = "waiting"] /\ UNCHANGED <<verdict, asked, question, events>>
  /\ UNCHANGED Elsewhere

Wake(c) ==
  /\ state[RunOf[c]] = "live"
  /\ at[c] = "waiting" /\ Asking(RunOf[c]) = {}
  /\ Rules(c, host[c])
  /\ UNCHANGED <<host, Elsewhere>>

(* Mutant: any answer goes on to the list. *)
SettleAny(c) ==
  /\ question[c].answer # None
  /\ allowed' = [allowed EXCEPT ![RunOf[c]] = @ \union {host[c]}]
  /\ read' = [read EXCEPT ![c] = list]
  /\ at' = [at EXCEPT ![c] = "listing"]
  /\ UNCHANGED <<refused, verdict>>

(* What the run does with an answer.  An allow goes on to the list, which  *)
(* is read here and written by the next step.                              *)
Settle(c) ==
  LET r == RunOf[c] IN
  \/ /\ question[c].answer = "refuse"
     /\ refused' = [refused EXCEPT ![r] = @ \union {host[c]}]
     /\ Settled(c, "refuse")
     /\ UNCHANGED <<allowed, read>>
  \/ /\ question[c].answer = "allow"
     /\ allowed' = [allowed EXCEPT ![r] = @ \union {host[c]}]
     /\ read' = [read EXCEPT ![c] = list]
     /\ at' = [at EXCEPT ![c] = "listing"]
     /\ UNCHANGED <<refused, verdict>>

(* Mutant: the window is never looked at. *)
PollForever(c) ==
  /\ state[RunOf[c]] = "live" /\ ~aborted[RunOf[c]]
  /\ at[c] = "held"
  /\ Settle(c)
  /\ UNCHANGED <<state, earlier, aborted, asked, profile, host, question, passed, person, list, byHand, orphaned, unclosed, events>>

(* One turn of the wait that ends it: an answer is there, or the window    *)
(* has passed.                                                             *)
Poll(c) ==
  /\ state[RunOf[c]] = "live" /\ ~aborted[RunOf[c]]
  /\ at[c] = "held"
  /\ \/ Settle(c)
     \/ /\ question[c].answer = None /\ c \in passed
        /\ at' = [at EXCEPT ![c] = "late"]
        /\ UNCHANGED <<allowed, refused, read, verdict>>
  /\ UNCHANGED <<state, earlier, aborted, asked, profile, host, question, passed, person, list, byHand, orphaned, unclosed, events>>

(* The record could not be read: the call is refused, its question left. *)
PollFails(c) ==
  /\ state[RunOf[c]] = "live" /\ ~aborted[RunOf[c]]
  /\ at[c] = "held"
  /\ Happens
  /\ Settled(c, "refuse")
  /\ unclosed' = unclosed \union {c}
  /\ UNCHANGED <<runVars, host, read, question, passed, person, list, byHand, orphaned>>

WaitIsOver(c) == at[c] = "late" \/ (at[c] = "held" /\ aborted[RunOf[c]])

(* The call is not run, and its attempt stops. *)
Unanswered(c) ==
  /\ at' = [at EXCEPT ![c] = "done"]
  /\ verdict' = [verdict EXCEPT ![c] = "stopped"]
  /\ aborted' = [aborted EXCEPT ![RunOf[c]] = TRUE]
  /\ UNCHANGED <<state, earlier, asked, allowed, refused, profile, host, read>>

(* Mutant: an attempt that is stopping leaves its question as it is. *)
CloseTheLate(c) ==
  /\ state[RunOf[c]] = "live" /\ WaitIsOver(c)
  /\ \/ Settle(c) /\ UNCHANGED <<state, earlier, aborted, asked, profile, host, question>>
     \/ /\ question[c].answer = None
        /\ question' = [question EXCEPT ![c].closed = (at[c] = "late")]
        /\ Unanswered(c)
  /\ UNCHANGED <<passed, person, list, byHand, orphaned, unclosed, events>>

(* Mutant: the close clears the answer that landed before it. *)
CloseOver(c) ==
  /\ state[RunOf[c]] = "live" /\ WaitIsOver(c)
  /\ question' = [question EXCEPT ![c].closed = TRUE, ![c].answer = None]
  /\ Unanswered(c)
  /\ UNCHANGED <<passed, person, list, byHand, orphaned, unclosed, events>>

(* closeEgressQuestion: an answer that landed is acted on. *)
Close(c) ==
  /\ state[RunOf[c]] = "live" /\ WaitIsOver(c)
  /\ \/ Settle(c) /\ UNCHANGED <<state, earlier, aborted, asked, profile, host, question>>
     \/ /\ question[c].answer = None
        /\ question' = [question EXCEPT ![c].closed = TRUE]
        /\ Unanswered(c)
  /\ UNCHANGED <<passed, person, list, byHand, orphaned, unclosed, events>>

CloseFails(c) ==
  /\ state[RunOf[c]] = "live" /\ WaitIsOver(c)
  /\ Happens
  /\ Unanswered(c)
  /\ unclosed' = unclosed \union {c}
  /\ UNCHANGED <<question, passed, person, list, byHand, orphaned>>

(* addToNetworkAllowList: nothing is written where the host was read. *)
NewList(c) == IF host[c] \in read[c] THEN list ELSE read[c] \union {host[c]}

(* The list is written, or it could not be; either way the run goes on. *)
WriteList(c) ==
  LET r == RunOf[c] IN
  /\ state[r] = "live" /\ at[c] = "listing"
  /\ \/ list' = NewList(c) /\ UNCHANGED events
     \/ Happens /\ UNCHANGED list
  /\ profile' = [profile EXCEPT ![r] = @ \union {host[c]}]
  /\ Settled(c, "allow")
  /\ UNCHANGED <<state, earlier, aborted, asked, allowed, refused, host, read, question, passed, person, byHand, orphaned, unclosed>>

-----------------------------------------------------------------------------
(* Persons, and time.  The command reads the ticket's live runs, and the   *)
(* time it judges the window by, before it takes the record's lock.        *)
Begin(p, t) ==
  /\ person[p] = NoCommand /\ Live(t) # {}
  /\ person' = [person EXCEPT ![p] = [ticket |-> t, live |-> Live(t), passed |-> passed]]
  /\ UNCHANGED <<runVars, callVars, question, passed, list, byHand, orphaned, unclosed, events>>

(* The answer is taken for a question that is open, in its window, and of  *)
(* a live run: one that started no later than the one that asked.          *)
Answer(p, c, choice) ==
  LET r == RunOf[c] IN
  /\ c \in CallsOn(person[p].ticket)
  /\ Open(c)
  /\ c \notin person[p].passed
  /\ person[p].live \intersect earlier[r] # {}
  /\ question' = [question EXCEPT ![c].answer = choice]
  /\ orphaned' = IF state[r] = "live" /\ at[c] \in Reading THEN orphaned ELSE orphaned \union {c}
  /\ person' = [person EXCEPT ![p] = NoCommand]
  /\ UNCHANGED <<runVars, callVars, passed, list, byHand, unclosed, events>>

(* Refused, or the lock was not had, or the person stopped it. *)
Leave(p) ==
  /\ person[p] # NoCommand
  /\ person' = [person EXCEPT ![p] = NoCommand]
  /\ UNCHANGED <<runVars, callVars, question, passed, list, byHand, orphaned, unclosed, events>>

(* Nothing looks at the window of a question that is settled. *)
Passes(c) ==
  /\ Open(c) /\ c \notin passed
  /\ passed' = passed \union {c}
  /\ UNCHANGED <<runVars, callVars, question, person, list, byHand, orphaned, unclosed, events>>

(* A person edits the configuration: puts a host on the list, or takes it off. *)
EditList(h) ==
  /\ Happens
  /\ \/ h \notin list /\ list' = list \union {h} /\ byHand' = byHand \union {h}
     \/ h \in list /\ list' = list \ {h} /\ UNCHANGED byHand
  /\ UNCHANGED <<runVars, callVars, question, passed, person, orphaned, unclosed>>

RunStep(r) == Start(r) \/ Abort(r) \/ NextAttempt(r) \/ End(r) \/ Die(r)

CallStep(c) ==
  \/ \E h \in Hosts : Ask(c, h)
  \/ Wake(c) \/ Poll(c) \/ PollFails(c) \/ Close(c) \/ CloseFails(c) \/ WriteList(c)

PersonStep(p) ==
  \/ \E t \in Tickets : Begin(p, t)
  \/ \E c \in Calls, choice \in Choices : Answer(p, c, choice)
  \/ Leave(p)

Next ==
  \/ \E r \in Runs : RunStep(r)
  \/ \E c \in Calls : CallStep(c)
  \/ \E p \in Persons : PersonStep(p)
  \/ \E c \in Calls : Passes(c)
  \/ \E h \in Plain : EditList(h)

Spec == Init /\ [][Next]_vars

(* A live run's event loop turns, and time passes. *)
FairSpec ==
  /\ Spec
  /\ \A c \in Calls :
       /\ WF_vars(Wake(c) \/ Poll(c) \/ Close(c) \/ WriteList(c))
       /\ WF_vars(Passes(c))

-----------------------------------------------------------------------------
(* A question on the record is answered or closed, never both. *)
AnsweredOrClosed == \A c \in Calls : question[c].answer # None => ~question[c].closed

(* A run puts one question to a person, whatever fails and however many of *)
(* its attempts ask.                                                       *)
OneQuestionARun ==
  \A c, d \in Calls :
    question[c].asked /\ question[d].asked /\ RunOf[c] = RunOf[d] => c = d

(* A question that still takes an answer has a call waiting on it, unless  *)
(* its run died or could not read or close the record.                     *)
OpenForAWait ==
  \A c \in Calls :
    Open(c) => at[c] \in Reading \/ state[RunOf[c]] = "dead" \/ c \in unclosed

(* A run's one question is on the record as what it is: one a run, settled *)
(* once, and taking an answer only while a call waits on it.               *)
OneQuestionWaitedOn == AnsweredOrClosed /\ OneQuestionARun /\ OpenForAWait

(* An answer given while the run waited is what the run did: the record,   *)
(* the run's lists and the call agree, also when the attempt was stopping  *)
(* as the answer landed.                                                   *)
AnswersAreActedOn ==
  \A c \in Calls \ (orphaned \union unclosed) :
    LET r == RunOf[c] IN
    at[c] = "done" =>
      /\ question[c].answer = "refuse" => host[c] \in refused[r] /\ verdict[c] # "allow"
      /\ question[c].answer = "allow" =>
           host[c] \in allowed[r] \intersect profile[r] /\ verdict[c] # "refuse"

(* A held call goes through only for a host a person allowed in this run. *)
LetThroughWasAllowed ==
  \A c \in Calls :
    verdict[c] = "allow" =>
      \E d \in CallsOf(RunOf[c]) : question[d].answer = "allow" /\ host[d] = host[c]

(* A host on the repository's list was put there by hand or was allowed by *)
(* a person, whoever's stale copy of the list was written last.            *)
ListedWasAllowed ==
  \A h \in list : h \in byHand \/ \E c \in Calls : question[c].answer = "allow" /\ host[c] = h

(* What a person answered decides, and nothing else does: the run does it, *)
(* no call goes through without it, and no host is listed without it.      *)
AnswersDecide == AnswersAreActedOn /\ LetThroughWasAllowed /\ ListedWasAllowed

(* The first answer, or the close, is the last word on a question. *)
SettledStands ==
  [][\A c \in Calls :
       question[c].answer # None \/ question[c].closed => question'[c] = question[c]]_vars

(* A host a person refused on a ticket is not asked about again on it,     *)
(* if a run was waiting on the refusal.                                    *)
RefusalsAreRemembered ==
  [][\A c \in Calls :
       ~question[c].asked /\ question'[c].asked =>
         \A d \in CallsOn(TicketOf[RunOf[c]]) \ orphaned :
           question[d].answer = "refuse" => host[d] # host'[c]]_vars

(* Every held call is settled, or its run has died. *)
EveryAskEnds ==
  \A c \in Calls : at[c] # "idle" ~> at[c] = "done" \/ state[RunOf[c]] = "dead"
=============================================================================
