-------------------------- MODULE OrderedDelivery --------------------------
(***************************************************************************)
(* What a frame processor promises whoever queues data and control frames  *)
(* on it, with its goroutines, its queues and its gates left out: a line   *)
(* of frames, served in the order they joined it.  Frames may be taken out *)
(* of the line unserved, but the ones in Kept only after it has closed.    *)
(***************************************************************************)
EXTENDS Integers, Sequences, FiniteSets

CONSTANTS Item, Kept

VARIABLES accepted,     \* the frames that ever joined the line
          line,         \* those still in it, in order
          served,       \* those whose handler was called, in order
          open          \* the processor is not being torn down

vars == <<accepted, line, served, open>>

Init == accepted = {} /\ line = <<>> /\ served = <<>> /\ open = TRUE

\* A frame joins the line at its end, once.
Accept(f) ==
    /\ f \notin accepted
    /\ accepted' = accepted \cup {f} /\ line' = Append(line, f)
    /\ UNCHANGED <<served, open>>

Serve ==
    /\ line # <<>>
    /\ served' = Append(served, Head(line)) /\ line' = Tail(line)
    /\ UNCHANGED <<accepted, open>>

\* What is left of s without the positions R, in order.
Without(s, R) ==
    LET K == (1..Len(s)) \ R
    IN  [n \in 1..Cardinality(K) |->
           s[CHOOSE i \in K : Cardinality({j \in K : j <= i}) = n]]

Drop ==
    /\ \E R \in SUBSET (1..Len(line)) :
           /\ open => \A i \in R : line[i] \notin Kept
           /\ line' = Without(line, R)
    /\ UNCHANGED <<accepted, served, open>>

Close == open' = FALSE /\ UNCHANGED <<accepted, line, served>>

Next == Drop \/ Serve \/ Close \/ \E f \in Item : Accept(f)

Spec == Init /\ [][Next]_vars
=============================================================================
