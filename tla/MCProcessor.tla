---------------------------- MODULE MCProcessor ----------------------------
(***************************************************************************)
(* Small instances of Processor.  Each configuration picks the frames of a *)
(* behaviour: s the StartFrame, d1 a data frame, k1 an uninterruptible     *)
(* one, i1 an interruption, c1 a cancel, r1 a resume, q1 a pause in order, *)
(* p1 one on the input goroutine, b1 a broadcast interruption in order, u1 *)
(* one on the input goroutine, w1 a withdrawal of Target.                  *)
(***************************************************************************)
EXTENDS Delivery

CONSTANTS s, d1, k1, i1, c1, r1, q1, p1, b1, u1, w1

MCKind == [f \in Frame |->
    CASE f = s -> "start"
      [] f = d1 -> "data"
      [] f = k1 -> "kept"
      [] f = i1 -> "interruption"
      [] f = c1 -> "cancel"
      [] f = r1 -> "resume"
      [] f = q1 -> "pause"
      [] f = p1 -> "pauseUrgent"
      [] f = b1 -> "broadcast"
      [] f = u1 -> "broadcastUrgent"
      [] f = w1 -> "withdraw"]

\* reset said by position is reset said by filtering.
ResetBound == 3
ASSUME ResetIsSelect ==
    \A n \in 0..ResetBound : \A x \in [1..n -> Frame] :
        keep(x) = SelectSeq(x, LAMBDA f : ~Interruptible(f))
=============================================================================
