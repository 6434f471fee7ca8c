---------------------------- MODULE MCRecordLock ----------------------------
(* Three writers, the last of them on another machine. *)
EXTENDS RecordLock, TLC

CONSTANTS a, b, c

MCHostOf == (a :> "here") @@ (b :> "here") @@ (c :> "there")
OneHost == [w \in Writers |-> "here"]
=============================================================================
