------------------------------ MODULE Delivery ------------------------------
(***************************************************************************)
(* A processor implements OrderedDelivery: its two queues, and the frames  *)
(* its goroutines have taken off them and not called a handler for, are    *)
(* one line.                                                               *)
(***************************************************************************)
EXTENDS Processor

Holding(g) == go[g].pc \in HandPcs /\ ~isSystemFrame(go[g].frame)

\* The frame that the input goroutine holds, and the one that a process
\* goroutine holds (OneHandler: there is at most one such goroutine).
inputHand == IF Holding(Input) THEN <<go[Input].frame>> ELSE <<>>
loopHand == IF \E g \in Loops : Holding(g)
              THEN <<go[CHOOSE g \in Loops : Holding(g)].frame>> ELSE <<>>

line == loopHand \o procQueue.other \o inputHand \o inputQueue.other

InOrderFrames == {f \in Frame : ~isSystemFrame(f)}

\* The frames among s that are handled in order.
InOrder(s) == Pick(s, {i \in 1..Len(s) : ~isSystemFrame(s[i])})

D == INSTANCE OrderedDelivery
       WITH Item <- InOrderFrames,
            Kept <- {f \in InOrderFrames : ~Interruptible(f)},
            accepted <- FramesOf(arrived),
            served <- InOrder(begun),
            open <- ~baseDone

\* Whatever interruptions, pauses, withdrawals and cancels do, the processor is
\* a line of frames: each is handled at most once, in the order they were
\* queued, none is handled after it was dropped, and none that is
\* uninterruptible is dropped before the processor is torn down.
Delivers == D!Spec
=============================================================================
