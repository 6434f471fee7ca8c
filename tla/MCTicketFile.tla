---------------------------- MODULE MCTicketFile ----------------------------
(* Small instances of TicketFile. *)
EXTENDS TicketFile, MCTicketRecord

Symmetry == Permutations(Runs) \union Permutations(Syncs)

(* A bound on what is followed: once an answer that could not be read has  *)
(* been written over a pull request, behaviours go on for as long as that  *)
(* is the only thing that went wrong.                                      *)
ErasedAlone == "pull_erased" \in mishaps => mishaps = {"pull_erased"}

(* A ticket with no rows yet, put in every state with every delivery       *)
(* record a guard can read: reopening takes the first of the shortest      *)
(* routes to `ready` that the record and the notes it would write admit, a *)
(* row at a time, and refuses exactly where no route of any length leads   *)
(* there (run/index.ts, reopen).  No ticket is sent through a row that     *)
(* `transition` refuses, and none that could run again is declared dead.   *)
ReopenIsTheShortestRoute ==
  ticket.history = <<>> =>
    \A state \in States \ {"ready"}, delivery \in Deliveries :
      TakesTheShortestRoute([ticket EXCEPT !.state = state, !.delivery = delivery])
=============================================================================
