------------------------------- MODULE MCJobs -------------------------------
(* Small instances of Jobs.                                                *)
EXTENDS Jobs, TLC

CONSTANTS w1, j1, j2

TwoForOne == (j1 :> {w1}) @@ (j2 :> {w1})
=============================================================================
