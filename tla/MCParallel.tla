----------------------------- MODULE MCParallel -----------------------------
(***************************************************************************)
(* Small instances of ParallelPipeline: s the StartFrame, d* data frames,  *)
(* e the EndFrame, c the CancelFrame, i an interruption; o1 is pushed by   *)
(* branch 1 itself.                                                        *)
(***************************************************************************)
EXTENDS ParallelPipeline

CONSTANTS s, d1, d2, e, c, i, o1

MCKind == [f \in Frame |->
    CASE f = s -> "start"
      [] f \in {d1, d2, o1} -> "data"
      [] f = e -> "end"
      [] f = c -> "cancel"
      [] f = i -> "interruption"]

MCOwn == [b \in Branch |-> IF b = 1 THEN {o1} \cap Frame ELSE {}]
=============================================================================
