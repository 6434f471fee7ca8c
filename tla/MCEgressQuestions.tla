-------------------------- MODULE MCEgressQuestions -------------------------
(* A small instance of EgressQuestions. *)
EXTENDS EgressQuestions, TLC

CONSTANTS r1, r2, c1, c2, c3, t1, h1

(* Two runs of one ticket, the first of which holds two calls. *)
OneTicket == (r1 :> t1) @@ (r2 :> t1)
ThreeCalls == (c1 :> r1) @@ (c2 :> r1) @@ (c3 :> r2)
=============================================================================
