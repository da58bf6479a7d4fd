---------------------------- MODULE Subsequence ----------------------------
(***************************************************************************)
(* What is left of a queue when it is filtered, said by position: K are    *)
(* the positions that stay and Place(K, i) is where the element at         *)
(* position i of them ends up.  This is SelectSeq in a form whose          *)
(* properties can be proved without induction; the models check the two    *)
(* against each other (ResetIsSelect in MCProcessor and MCMediaSender).    *)
(***************************************************************************)
EXTENDS Integers, Sequences, FiniteSets

Place(K, i) == Cardinality({j \in K : j <= i})

Pick(s, K) == [k \in 1..Cardinality(K) |-> s[CHOOSE i \in K : Place(K, i) = k]]
=============================================================================
