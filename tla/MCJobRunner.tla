---------------------------- MODULE MCJobRunner ----------------------------
(***************************************************************************)
(* One repository, with admissions into it and readiness checks over the   *)
(* whole of it, a command of the exclusive lane that names no ticket.      *)
(***************************************************************************)
EXTENDS JobRunner

MCRepoOf == [c \in Commands |-> "repo"]
MCKeyOf == [c \in Commands |-> None]
=============================================================================
