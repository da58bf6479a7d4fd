------------------------------ MODULE MCWorker ------------------------------
(***************************************************************************)
(* Instances of Worker with two processors.  RunInputs are the ways a run  *)
(* can end, against a wedged processor and heartbeats; FlushInputs are     *)
(* work for a flush to wait for, an interruption that drops some of it,    *)
(* and an end.                                                             *)
(***************************************************************************)
EXTENDS Worker

RunInputs == {"end", "cancel", "contextEnd", "wedge", "heartbeats", "idle"}
FlushInputs == {"d", "interrupt", "endWorker", "stop"}
=============================================================================
