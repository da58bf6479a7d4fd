----------------------------- MODULE FrameQueue -----------------------------
(***************************************************************************)
(* The frames a processor handles and the queue it keeps them in           *)
(* (frames/frames.go, processor/queue.go).                                 *)
(*                                                                         *)
(* A frame is a model value; Kind says what a processor can tell apart     *)
(* about it: the tier it queues in, whether an interruption may drop it,   *)
(* and what handling it does.  A queue is its three tiers, each in arrival *)
(* order, and every method of queue.go is an operator on it.  The mutex    *)
(* makes each method one atomic step; the wake-up channel is modelled by   *)
(* the consumer that waits (see GoIdle and Wake in Processor).             *)
(***************************************************************************)
EXTENDS Integers, Sequences, FiniteSets, Subsequence

CONSTANTS Frame,        \* every frame a behaviour may carry, each sent once
          Kind,         \* Kind[f]: what sort of frame f is
          NoFrame       \* nil

\* Frames handled on the input goroutine as they arrive.  A "resume" is either
\* of the two resume frames, "withdraw" and "broadcastUrgent" any system frame
\* whose handler calls CancelFrameInProgress or BroadcastInterruption, and
\* "system" any other one.
SystemKinds == {"start", "interruption", "cancel", "pauseUrgent",
                "resume", "withdraw", "broadcastUrgent", "system"}

\* Frames handled in order on the process goroutine.  "data" stands for any
\* interruptible data or control frame, "end" for the EndFrame and "kept" for
\* any other uninterruptible one.
InOrderKinds == {"data", "kept", "end", "pause", "broadcast"}

ASSUME KindAssumption == Kind \in [Frame -> SystemKinds \cup InOrderKinds]

ASSUME NoFrameAssumption == NoFrame \notin Frame

isStartFrame(f) == Kind[f] = "start"
isSystemFrame(f) == Kind[f] \in SystemKinds
Interruptible(f) == Kind[f] \notin {"kept", "end"}

(***************************************************************************)
(* The queue.                                                              *)
(***************************************************************************)
Queue == [start : Seq(Frame), system : Seq(Frame), other : Seq(Frame)]

newQueue == [start |-> <<>>, system |-> <<>>, other |-> <<>>]

push(q, f) == IF isStartFrame(f) THEN [q EXCEPT !.start = Append(@, f)]
              ELSE IF isSystemFrame(f) THEN [q EXCEPT !.system = Append(@, f)]
              ELSE [q EXCEPT !.other = Append(@, f)]

isEmpty(q) == q.start = <<>> /\ q.system = <<>> /\ q.other = <<>>

startsNext_last(q) == q.start # <<>> /\ q.system = <<>>

\* The tier get serves from: the StartFrame's, then the system frames', then
\* the data and control frames'.
startsNext(q) == q.start # <<>>
systemNext(q) == ~startsNext(q) /\ q.system # <<>>

\* What get returns, and what it leaves, when the queue is not empty.
head(q) == IF startsNext(q) THEN Head(q.start)
           ELSE IF systemNext(q) THEN Head(q.system) ELSE Head(q.other)
get(q) == IF startsNext(q) THEN [q EXCEPT !.start = Tail(@)]
          ELSE IF systemNext(q) THEN [q EXCEPT !.system = Tail(@)]
          ELSE [q EXCEPT !.other = Tail(@)]

requeue_last(q, f) == [q EXCEPT !.other = Append(@, f)]

requeue(q, f) == [q EXCEPT !.other = <<f>> \o @]

\* reset keeps the uninterruptible data and control frames, in order.
Survivors(s) == {i \in 1..Len(s) : ~Interruptible(s[i])}
keep(s) == Pick(s, Survivors(s))

reset(q) == [q EXCEPT !.other = keep(@)]

\* The frames in a sequence.
FramesOf(s) == {s[i] : i \in 1..Len(s)}
=============================================================================
