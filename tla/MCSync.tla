------------------------------- MODULE MCSync -------------------------------
(***************************************************************************)
(* A small instance of SyncParallel: s the StartFrame, d1 a data frame, i1 *)
(* an interruption, e the EndFrame, m1 what the first branch makes of d1   *)
(* beside passing it on.                                                   *)
(***************************************************************************)
EXTENDS SyncParallel

CONSTANTS s, d1, i1, e, m1

MCKind == [f \in Frame |->
    CASE f = s -> "start"
      [] f = i1 -> "interruption"
      [] f = e -> "end"
      [] OTHER -> "data"]

\* The second branch passes d1 on and makes nothing of it.
MCOutput == [b \in Branch |-> [f \in Frame |->
    IF f = d1 /\ b = 1 THEN <<m1, d1>> ELSE <<f>>]]
=============================================================================
