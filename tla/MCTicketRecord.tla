--------------------------- MODULE MCTicketRecord ---------------------------
(***************************************************************************)
(* The route Reopen takes, against a search written the way the code's is: *)
(* breadth first over the lifecycle table, in the table's order, for a     *)
(* ticket with no rows yet.  The search is recursive, so it stays out of   *)
(* the modules proofs may use.                                             *)
(***************************************************************************)
EXTENDS TicketRecord, TLC

Deliveries ==
  [branch: BOOLEAN, number: {0, 1}, state: {"none", "open", "closed", "merged"},
   openedBy: {"unknown"}, arm: {"loop", "direct"}]

(* The routes one row longer than these, first found first. *)
Longer(from, routes) ==
  LET rows(route) ==
        SelectSeq(TICKET_TRANSITIONS,
          LAMBDA row : /\ row.from = (IF route = <<>> THEN from.state ELSE Last(route))
                       /\ Admits(row, from, ReopenNote(from, row.to)))
      extended(route) ==
        [i \in DOMAIN rows(route) |-> Append(route, rows(route)[i].to)]
  IN  FlattenSeq([i \in DOMAIN routes |-> extended(routes[i])])

RECURSIVE Search(_, _, _)
Search(from, routes, depth) ==
  LET arrived == SelectSeq(routes, LAMBDA route : route # <<>> /\ Last(route) = "ready")
  IN  CASE arrived # <<>> -> arrived[1]
        [] arrived = <<>> /\ depth = 0 -> <<>>
        [] OTHER -> Search(from, Longer(from, routes), depth - 1)

(* The rows a reopening writes are the states of that route, and it is     *)
(* refused exactly where there is none.                                    *)
TakesTheShortestRoute(ticket) ==
  LET route == Search(ticket, << <<>> >>, 4)
      rows == Reopen(ticket).history
  IN  IF CanReopen(ticket)
      THEN [i \in DOMAIN rows |-> rows[i].to] = route
      ELSE route = <<>>
=============================================================================
