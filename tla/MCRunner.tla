------------------------------ MODULE MCRunner ------------------------------
(* Small instances of Runner.                                              *)
EXTENDS Runner

CONSTANTS r1, r2, c1

TwoRootsAndAChild == {r1, r2, c1}
TwoRoots == {r1, r2}
ChildOfTheFirst == [c \in {c1} |-> r1]
NoChild == [c \in {} |-> r1]
=============================================================================
