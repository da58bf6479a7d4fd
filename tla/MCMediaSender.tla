--------------------------- MODULE MCMediaSender ---------------------------
(***************************************************************************)
(* Instances of MediaSender with a chunk of two: a1 is half a chunk of     *)
(* audio, k1 a whole one that is uninterruptible, t1 ends a turn, e is the *)
(* EndFrame, i1 an interruption, c1 a CancelFrame.                         *)
(***************************************************************************)
EXTENDS MediaSender

CONSTANTS a1, k1, t1, e, i1, c1

MCKind == [f \in Frame |->
    CASE f = a1 -> "audio"
      [] f = k1 -> "keptAudio"
      [] f = t1 -> "stopped"
      [] f = e -> "end"
      [] f = i1 -> "interruption"
      [] f = c1 -> "cancel"]

MCSize == [f \in Frame |-> CASE f = a1 -> 1 [] f = k1 -> 2 [] OTHER -> 0]

\* What an interruption leaves, said by position, is what filtering leaves.
ResetBound == 3
ASSUME ResetIsSelect ==
    \A n \in 0..ResetBound : \A x \in [1..n -> Frame] :
        LET q == [i \in 1..n |-> queued(x[i])] IN
          /\ keepUninterruptibleAudio(x) = SelectSeq(x, LAMBDA f : ~Interruptible(f))
          /\ reset(q) = SelectSeq(q, LAMBDA y : y.keep)
=============================================================================
