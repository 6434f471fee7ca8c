---------------------------- MODULE SerialRecord ----------------------------
(***************************************************************************)
(* What the record lock promises its callers: a record several processes   *)
(* change takes one whole change at a time, each starting from the last.   *)
(* "broken" is the one way out: once a writer's lock was taken away while  *)
(* it still held it, a change may start from a record already replaced.    *)
(***************************************************************************)
CONSTANT Writers      \* the calls that each make one change

VARIABLES
  record,             \* the changes the record on disk holds
  wrote,              \* the writers whose change was written
  broken              \* some live writer's lock was taken away

vars == <<record, wrote, broken>>

Init ==
  /\ record = {}
  /\ wrote = {}
  /\ broken = FALSE

(* One change, read and written with nothing in between. *)
Add(w) ==
  /\ w \notin wrote
  /\ record' = record \union {w}
  /\ wrote' = wrote \union {w}
  /\ UNCHANGED broken

(* A live lock is taken away: nothing written yet. *)
Break ==
  /\ ~broken
  /\ broken' = TRUE
  /\ UNCHANGED <<record, wrote>>

(* After that a change may be added to any earlier record. *)
AddToStale(w) ==
  /\ broken
  /\ w \notin wrote
  /\ \E earlier \in SUBSET wrote : record' = earlier \union {w}
  /\ wrote' = wrote \union {w}
  /\ UNCHANGED broken

Next ==
  \/ Break
  \/ \E w \in Writers : Add(w) \/ AddToStale(w)

Spec == Init /\ [][Next]_vars
=============================================================================
