------------------------------ MODULE MCPidLock -----------------------------
(* Small instances of PidLock: the last of four takers on another machine. *)
EXTENDS PidLock, TLC

CONSTANTS a, b, c, d

MCHostOf == (a :> "here") @@ (b :> "here") @@ (c :> "here") @@ (d :> "there")
SameHost == Permutations({a, b, c})
=============================================================================
