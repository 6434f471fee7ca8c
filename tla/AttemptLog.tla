----------------------------- MODULE AttemptLog -----------------------------
(***************************************************************************)
(* What a ticket's attempts record promises (packages/runner/src/          *)
(* attempts.ts): runs append to it, nothing on it is rewritten or removed, *)
(* and no attempt is on it twice.                                          *)
(***************************************************************************)
EXTENDS Sequences, Naturals

VARIABLE log    \* the ids of the attempts on record, in the order they were written

Distinct(ids) == \A i, j \in DOMAIN ids : ids[i] = ids[j] => i = j

Init == log = <<>>

AppendAttempts ==
  /\ Len(log') > Len(log)
  /\ \A i \in DOMAIN log : log'[i] = log[i]
  /\ Distinct(log')

Next == AppendAttempts

Spec == Init /\ [][Next]_log
=============================================================================
