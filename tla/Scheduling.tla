----------------------------- MODULE Scheduling -----------------------------
(***************************************************************************)
(* The queue's decisions (apps/cli/src/scheduling.ts): which admitted      *)
(* ticket goes first, and which one waits on which.  Pure: a plan is what  *)
(* people wrote and approved, states are what the records say.             *)
(***************************************************************************)
EXTENDS Naturals, FiniteSets, Sequences

CONSTANTS
  Keys,      \* the tickets in the store
  Rank,      \* the tie-break: priority, then admission, then key
  Unknown    \* a key the store does not hold

ASSUME SchedulingAssumption ==
  /\ IsFiniteSet(Keys) /\ Unknown \notin Keys
  /\ Rank \in [Keys -> Nat]
  /\ \A j, k \in Keys : Rank[j] = Rank[k] => j = k

States == {"ready", "blocked", "provisioning", "pr_open", "merged", "settled"}

QUEUE_HOLDING_STATES == {"ready", "blocked", "provisioning", "pr_open"}
DEPENDENCY_SATISFIED_STATES == {"merged"}

(* What a person wrote on each ticket, which pairs of approved scopes      *)
(* overlap by their globs, and whose globs a ticket's sealed paths reach.  *)
Plans ==
  [depends: [Keys -> SUBSET (Keys \union {Unknown})],
   globs: SUBSET (Keys \X Keys),
   paths: [Keys -> SUBSET Keys]]

(* Mutant: among the tie-break alone, whatever depends on what. *)
FreeOfAll(depends, waiting, placed) == waiting

(* What can be placed next: all it depends on in this store is. *)
Free(depends, waiting, placed) ==
  {k \in waiting : depends[k] \intersect Keys \subseteq placed}

(* A cycle frees nothing, and the tie-break alone orders what is left. *)
QueueOrder(depends) ==
  LET first(ks) == CHOOSE k \in ks : \A j \in ks : Rank[k] <= Rank[j]
      order[n \in 0..Cardinality(Keys)] ==
        IF n = 0 THEN <<>>
        ELSE LET placed == {order[n - 1][i] : i \in DOMAIN order[n - 1]}
                 free == Free(depends, Keys \ placed, placed)
             IN  Append(order[n - 1], first(IF free = {} THEN Keys \ placed ELSE free))
  IN  order[Cardinality(Keys)]

Ahead(depends) ==
  LET order == QueueOrder(depends)
      place == [k \in Keys |-> CHOOSE i \in DOMAIN order : order[i] = k]
  IN  [k \in Keys |-> {h \in Keys : place[h] < place[k]}]

DependencyWaits(plan, state, k) ==
  {d \in plan.depends[k] : d = Unknown \/ (d \in Keys /\ state[d] \notin DEPENDENCY_SATISFIED_STATES)}

(* Mutant: a sealed ticket whose paths could not be read holds nothing. *)
UnreadHoldsNothing(plan, ahead, state, sealed, k) ==
  {h \in ahead[k] \ DependencyWaits(plan, state, k) :
     /\ state[h] \in QUEUE_HOLDING_STATES
     /\ IF state[h] = "pr_open" THEN h \in sealed /\ k \in plan.paths[h] ELSE <<k, h>> \in plan.globs}

(* A ticket ahead, and only ahead, that holds its place: by its globs, and *)
(* once it has sealed by the paths it changed, where they could be read.   *)
ScopeWaits(plan, ahead, state, sealed, k) ==
  {h \in ahead[k] \ DependencyWaits(plan, state, k) :
     /\ state[h] \in QUEUE_HOLDING_STATES
     /\ IF h \in sealed THEN k \in plan.paths[h] ELSE <<k, h>> \in plan.globs}

WaitsFor(plan, ahead, state, sealed, k) ==
  DependencyWaits(plan, state, k) \union ScopeWaits(plan, ahead, state, sealed, k)
=============================================================================
