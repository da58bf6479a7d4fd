-------------------------- MODULE ParallelPipeline --------------------------
(***************************************************************************)
(* A parallel pipeline (pipeline/parallel.go): every frame is fanned out   *)
(* to the branches, what they push is merged with duplicates removed, and  *)
(* the StartFrame, the EndFrame and the CancelFrame are let through only   *)
(* when every branch has reported them.                                    *)
(*                                                                         *)
(* Node 0 is the parallel pipeline itself, nodes 1..N are the branches,    *)
(* each one processor between a source and a sink.  A node runs as module  *)
(* Processor says, in coarser steps: an input goroutine that hands data    *)
(* and control frames on and handles system frames, and a process          *)
(* goroutine that an interruption replaces and a CancelFrame stops.  All   *)
(* nodes are set up; a pause gate is one flag (a resume lowers what a      *)
(* pause raised), which module Processor takes apart.  A branch forwards   *)
(* what it handles or consumes it, if it is a data frame; its "task"       *)
(* goroutine pushes frames of the branch's own.                            *)
(* The sinks run in direct mode, so sinkPush and emit run on the branch's  *)
(* goroutine, and each critical section of mu, and each PushFrame outside  *)
(* it, is one action.                                                      *)
(***************************************************************************)
EXTENDS FrameQueue

CONSTANTS N,        \* the number of branches
          Own       \* Own[b]: the frames branch b pushes by itself

Branch == 1..N
Node == 0..N
Lane == {"input", "process", "task"}
Goroutines == Node \X Lane

ASSUME ParallelAssumption ==
    /\ N \in Nat \ {0}
    /\ Own \in [Branch -> SUBSET Frame]
    /\ \A f \in Frame : Kind[f] \in {"start", "interruption", "cancel", "data",
                                      "kept", "end"}

VARIABLES
    unsent,         \* frames nobody has queued or pushed yet
    node,           \* node[p]: what the processor.Base of node p keeps
    heldSystem, heldFrames,     \* the parallel pipeline's two pause gates
    seen, counter, syncing, buffered,   \* what mu guards
    go,             \* the goroutines
    arrived,        \* history: the frames queued at the parallel pipeline
    out             \* history: the frames pushed out of it, in order

ppVars   == <<seen, counter, syncing, buffered>>
gateVars == <<heldSystem, heldFrames>>
vars == <<unsent, node, gateVars, ppVars, go, arrived, out>>

isLifecycle(f) == Kind[f] \in {"start", "end", "cancel"}

NewNode == [inputQueue |-> newQueue, procQueue |-> newQueue, started |-> FALSE,
            running |-> FALSE, canceling |-> FALSE]

Idle == [pc |-> "idle", frame |-> NoFrame, item |-> NoFrame, next |-> 1]

Init ==
    /\ unsent = Frame
    /\ node = [p \in Node |-> NewNode]
    /\ heldSystem = FALSE /\ heldFrames = FALSE
    /\ seen = {} /\ counter = [f \in Frame |-> 0]
    /\ syncing = FALSE /\ buffered = <<>>
    /\ go = [g \in Goroutines |-> Idle]
    /\ arrived = <<>> /\ out = <<>>

Goto(g, pc) == go' = [go EXCEPT ![g].pc = pc]
Take(g, pc, f) == go' = [go EXCEPT ![g] = [Idle EXCEPT !.pc = pc, !.frame = f]]
Done(g) == go' = [go EXCEPT ![g] = Idle]

OwnFrames == UNION {Own[b] : b \in Branch}

(***************************************************************************)
(* The base of a node: queueing, handing on, handling system frames.       *)
(***************************************************************************)
\* A node that is being canceled refuses frames.  Handing a branch its
\* CancelFrame is what cancels the branch's pipeline, which is in direct mode.
Accept(p, f) ==
    node' = IF node[p].canceling THEN node
            ELSE [node EXCEPT ![p].inputQueue = push(@, f),
                              ![p].canceling = (p \in Branch /\ Kind[f] = "cancel")]

QueueFrame(f) ==
    /\ f \in unsent \ OwnFrames
    /\ unsent' = unsent \ {f}
    /\ Accept(0, f)
    /\ arrived' = Append(arrived, f)
    /\ UNCHANGED <<gateVars, ppVars, go, out>>

\* The input goroutine of p is free to take the next frame: p has received its
\* StartFrame and, for the parallel pipeline, the gate is open.
InputReady(p) ==
    /\ go[<<p, "input">>].pc = "idle" /\ ~isEmpty(node[p].inputQueue)
    /\ node[p].started \/ node[p].inputQueue.start # <<>>
    /\ p = 0 => ~heldSystem

HandOn(p) ==
    /\ InputReady(p)
    /\ LET f == head(node[p].inputQueue)
       IN  /\ ~isSystemFrame(f)
           /\ node' = [node EXCEPT ![p].inputQueue = get(@),
                                   ![p].procQueue = push(@, f)]
    /\ UNCHANGED <<unsent, gateVars, ppVars, go, arrived, out>>

TakeSystem(p) ==
    /\ InputReady(p)
    /\ LET f == head(node[p].inputQueue)
       IN  isSystemFrame(f) /\ Take(<<p, "input">>, "handle", f)
    /\ node' = [node EXCEPT ![p].inputQueue = get(@)]
    /\ UNCHANGED <<unsent, gateVars, ppVars, arrived, out>>

Handles(p, kind) ==
    /\ go[<<p, "input">>].pc = "handle" /\ Kind[go[<<p, "input">>].frame] = kind
    /\ UNCHANGED <<unsent, gateVars, ppVars, arrived, out>>

HandleStart(p) ==
    /\ Handles(p, "start")
    /\ node' = [node EXCEPT ![p].started = TRUE, ![p].running = TRUE]
    /\ Goto(<<p, "input">>, "body")

HandleCancel_nowait(p) ==
    /\ Handles(p, "cancel")
    /\ node' = [node EXCEPT ![p].canceling = TRUE, ![p].running = FALSE]
    /\ Goto(<<p, "input">>, "body")

HandleCancel(p) ==
    /\ Handles(p, "cancel")
    /\ node' = [node EXCEPT ![p].canceling = TRUE, ![p].running = FALSE]
    /\ Goto(<<p, "input">>, "join")

\* startInterruption: an uninterruptible frame in progress is let finish.
HandleInterruption(p) ==
    /\ Handles(p, "interruption")
    /\ LET cur == go[<<p, "process">>].frame
       IN  IF cur # NoFrame /\ ~Interruptible(cur)
             THEN /\ node' = [node EXCEPT ![p].procQueue = reset(@)]
                  /\ Goto(<<p, "input">>, "body")
             ELSE /\ node' = [node EXCEPT ![p].running = FALSE]
                  /\ Goto(<<p, "input">>, "join")

\* The stopped process goroutine is waited for; an interruption starts another
\* on a queue and a gate made afresh.
Join(p) ==
    /\ go[<<p, "input">>].pc = "join" /\ go[<<p, "process">>].pc = "idle"
    /\ Goto(<<p, "input">>, "body")
    /\ IF Kind[go[<<p, "input">>].frame] = "interruption"
         THEN /\ node' = [node EXCEPT ![p].running = TRUE,
                                      ![p].procQueue = reset(@)]
              /\ heldFrames' = IF p = 0 THEN FALSE ELSE heldFrames
         ELSE UNCHANGED <<node, heldFrames>>
    /\ UNCHANGED <<unsent, heldSystem, ppVars, arrived, out>>

(***************************************************************************)
(* The process goroutine.                                                  *)
(***************************************************************************)
TakeFrame(p) ==
    /\ go[<<p, "process">>].pc = "idle" /\ node[p].running
    /\ ~isEmpty(node[p].procQueue)
    /\ Take(<<p, "process">>, IF p = 0 THEN "gate" ELSE "body",
            head(node[p].procQueue))
    /\ node' = [node EXCEPT ![p].procQueue = get(@)]
    /\ UNCHANGED <<unsent, gateVars, ppVars, arrived, out>>

Gate ==
    /\ go[<<0, "process">>].pc = "gate" /\ ~heldFrames
    /\ Goto(<<0, "process">>, "body")
    /\ UNCHANGED <<unsent, node, gateVars, ppVars, arrived, out>>

\* Stopped while held at the gate: the frame goes back if nothing may drop it.
GiveBack ==
    /\ go[<<0, "process">>].pc = "gate" /\ heldFrames /\ ~node[0].running
    /\ LET f == go[<<0, "process">>].frame
       IN  node' = [node EXCEPT ![0].procQueue =
                        IF Interruptible(f) THEN @ ELSE requeue(@, f)]
    /\ Done(<<0, "process">>)
    /\ UNCHANGED <<unsent, gateVars, ppVars, arrived, out>>

(***************************************************************************)
(* ProcessFrame of the parallel pipeline, on either of its goroutines: a   *)
(* lifecycle frame arms the counter and closes both gates; then the frame  *)
(* is queued at one branch after the other.                                *)
(***************************************************************************)
Arm_one_more(g) ==
    /\ g[1] = 0 /\ go[g].pc = "body"
    /\ IF isLifecycle(go[g].frame)
         THEN /\ counter' = [counter EXCEPT ![go[g].frame] = N + 1]
              /\ syncing' = TRUE
              /\ Goto(g, "pauseSystem")
         ELSE Goto(g, "fanOut") /\ UNCHANGED <<counter, syncing>>
    /\ UNCHANGED <<unsent, node, gateVars, seen, buffered, arrived, out>>

Arm(g) ==
    /\ g[1] = 0 /\ go[g].pc = "body"
    /\ IF isLifecycle(go[g].frame)
         THEN /\ counter' = [counter EXCEPT ![go[g].frame] = N]
              /\ syncing' = TRUE
              /\ Goto(g, "pauseSystem")
         ELSE Goto(g, "fanOut") /\ UNCHANGED <<counter, syncing>>
    /\ UNCHANGED <<unsent, node, gateVars, seen, buffered, arrived, out>>

PauseSystem(g) ==
    /\ go[g].pc = "pauseSystem"
    /\ heldSystem' = TRUE
    /\ Goto(g, "pauseFrames")
    /\ UNCHANGED <<unsent, node, heldFrames, ppVars, arrived, out>>

PauseFrames(g) ==
    /\ go[g].pc = "pauseFrames"
    /\ heldFrames' = TRUE
    /\ Goto(g, "fanOut")
    /\ UNCHANGED <<unsent, node, heldSystem, ppVars, arrived, out>>

FanOut(g) ==
    /\ go[g].pc = "fanOut"
    /\ Accept(go[g].next, go[g].frame)
    /\ IF go[g].next = N THEN Done(g)
                         ELSE go' = [go EXCEPT ![g].next = @ + 1]
    /\ UNCHANGED <<unsent, gateVars, ppVars, arrived, out>>

(***************************************************************************)
(* What a branch pushes: sinkPush and emit.                                *)
(***************************************************************************)
\* A processor of branch b that has started pushes a frame of its own.
Raise(b) ==
    /\ go[<<b, "task">>].pc = "idle" /\ node[b].started
    /\ \E f \in Own[b] \cap unsent :
           Take(<<b, "task">>, "body", f) /\ unsent' = unsent \ {f}
    /\ UNCHANGED <<node, gateVars, ppVars, arrived, out>>

\* The handler of branch b answers a data frame with nothing.
Consume(b) ==
    /\ go[<<b, "process">>].pc = "body"
    /\ Interruptible(go[<<b, "process">>].frame)
    /\ Done(<<b, "process">>)
    /\ UNCHANGED <<unsent, node, gateVars, ppVars, arrived, out>>

emit_straight(g) ==
    /\ g[1] \in Branch /\ go[g].pc = "body" /\ ~isLifecycle(go[g].frame)
    /\ seen' = seen \cup {go[g].frame}
    /\ IF go[g].frame \in seen THEN Done(g) ELSE Goto(g, "push")
    /\ UNCHANGED <<unsent, node, gateVars, counter, syncing, buffered, arrived, out>>

emit_twice(g) ==
    /\ g[1] \in Branch /\ go[g].pc = "body" /\ ~isLifecycle(go[g].frame)
    /\ seen' = seen \cup {go[g].frame}
    /\ IF go[g].frame \in seen \/ syncing
         THEN Done(g) /\ buffered' = IF syncing THEN Append(buffered, go[g].frame)
                                     ELSE buffered
         ELSE Goto(g, "push") /\ UNCHANGED buffered
    /\ UNCHANGED <<unsent, node, gateVars, counter, syncing, arrived, out>>

emit(g) ==
    /\ g[1] \in Branch /\ go[g].pc = "body" /\ ~isLifecycle(go[g].frame)
    /\ seen' = seen \cup {go[g].frame}
    /\ IF go[g].frame \in seen \/ syncing
         THEN Done(g) /\ buffered' = IF go[g].frame \in seen THEN buffered
                                     ELSE Append(buffered, go[g].frame)
         ELSE Goto(g, "push") /\ UNCHANGED buffered
    /\ UNCHANGED <<unsent, node, gateVars, counter, syncing, arrived, out>>

Push(g) ==
    /\ go[g].pc = "push"
    /\ out' = Append(out, go[g].frame)
    /\ Done(g)
    /\ UNCHANGED <<unsent, node, gateVars, ppVars, arrived>>

\* What is left to report after one more branch has; 0 for a frame that was
\* never fanned out.
Reported(f) == IF counter[f] > 0 THEN counter[f] - 1 ELSE 0

\* The order of the two halves of a release.
afterReport(f) == IF isStartFrame(f) THEN "synchronized" ELSE "flush"
afterFlush(f)  == IF isStartFrame(f) THEN "resumeSystem" ELSE "synchronized"
afterSync(f)   == IF isStartFrame(f) THEN "flush" ELSE "resumeSystem"

sinkPush_first(g) ==
    LET f == go[g].frame
    IN  /\ g[1] \in Branch /\ go[g].pc = "body" /\ isLifecycle(f)
        /\ counter' = [counter EXCEPT ![f] = 0]
        /\ Goto(g, afterReport(f))
        /\ UNCHANGED <<unsent, node, gateVars, seen, syncing, buffered, arrived, out>>

sinkPush(g) ==
    LET f == go[g].frame
    IN  /\ g[1] \in Branch /\ go[g].pc = "body" /\ isLifecycle(f)
        /\ counter' = [counter EXCEPT ![f] = Reported(f)]
        /\ IF Reported(f) > 0 THEN Done(g) ELSE Goto(g, afterReport(f))
        /\ UNCHANGED <<unsent, node, gateVars, seen, syncing, buffered, arrived, out>>

flushBuffered(g) ==
    /\ go[g].pc = "flush"
    /\ IF buffered = <<>>
         THEN /\ syncing' = FALSE
              /\ Goto(g, afterFlush(go[g].frame))
              /\ UNCHANGED buffered
         ELSE /\ buffered' = Tail(buffered)
              /\ go' = [go EXCEPT ![g].pc = "pushBuffered", ![g].item = Head(buffered)]
              /\ UNCHANGED syncing
    /\ UNCHANGED <<unsent, node, gateVars, seen, counter, arrived, out>>

PushBuffered(g) ==
    /\ go[g].pc = "pushBuffered"
    /\ out' = Append(out, go[g].item)
    /\ go' = [go EXCEPT ![g].pc = "flush", ![g].item = NoFrame]
    /\ UNCHANGED <<unsent, node, gateVars, ppVars, arrived>>

emitSynchronized(g) ==
    /\ go[g].pc = "synchronized"
    /\ seen' = seen \cup {go[g].frame}
    /\ Goto(g, IF go[g].frame \in seen THEN afterSync(go[g].frame)
               ELSE "pushSynchronized")
    /\ UNCHANGED <<unsent, node, gateVars, counter, syncing, buffered, arrived, out>>

PushSynchronized(g) ==
    /\ go[g].pc = "pushSynchronized"
    /\ out' = Append(out, go[g].frame)
    /\ Goto(g, afterSync(go[g].frame))
    /\ UNCHANGED <<unsent, node, gateVars, ppVars, arrived>>

ResumeSystem(g) ==
    /\ go[g].pc = "resumeSystem"
    /\ heldSystem' = FALSE
    /\ Goto(g, "resumeFrames")
    /\ UNCHANGED <<unsent, node, heldFrames, ppVars, arrived, out>>

ResumeFrames_lost(g) ==
    /\ go[g].pc = "resumeFrames"
    /\ Done(g)
    /\ UNCHANGED <<unsent, node, gateVars, ppVars, arrived, out>>

ResumeFrames(g) ==
    /\ go[g].pc = "resumeFrames"
    /\ heldFrames' = FALSE
    /\ Done(g)
    /\ UNCHANGED <<unsent, node, heldSystem, ppVars, arrived, out>>

(***************************************************************************)
(* The specification.                                                      *)
(***************************************************************************)
InputStep(p) ==
    \/ HandOn(p) \/ TakeSystem(p) \/ Join(p)
    \/ HandleStart(p) \/ HandleCancel(p) \/ HandleInterruption(p)

FanOutStep(g) == Arm(g) \/ PauseSystem(g) \/ PauseFrames(g) \/ FanOut(g)

SinkStep(g) ==
    \/ emit(g) \/ Push(g) \/ sinkPush(g) \/ flushBuffered(g) \/ PushBuffered(g)
    \/ emitSynchronized(g) \/ PushSynchronized(g)
    \/ ResumeSystem(g) \/ ResumeFrames(g)

Step(g) ==
    \/ g[2] = "input" /\ InputStep(g[1])
    \/ g[2] = "process" /\ TakeFrame(g[1])
    \/ g = <<0, "process">> /\ (Gate \/ GiveBack)
    \/ g[1] \in Branch /\ g[2] = "process" /\ Consume(g[1])
    \/ FanOutStep(g) \/ SinkStep(g)

Next ==
    \/ \E f \in Frame : QueueFrame(f)
    \/ \E b \in Branch : Raise(b)
    \/ \E g \in Goroutines : Step(g)

Spec == Init /\ [][Next]_vars

\* The Go scheduler runs every goroutine that can run; nothing obliges anyone to
\* queue a frame or a branch to push one of its own.
Fairness == \A g \in Goroutines : WF_vars(Step(g))

FairSpec == Spec /\ Fairness

-----------------------------------------------------------------------------
(***************************************************************************)
(* Properties.                                                             *)
(***************************************************************************)
Pcs == {"idle", "handle", "join", "gate", "body", "pauseSystem", "pauseFrames",
        "fanOut", "push", "synchronized", "flush", "pushBuffered",
        "pushSynchronized", "resumeSystem", "resumeFrames"}

NodeType == [inputQueue : Queue, procQueue : Queue, started : BOOLEAN,
             running : BOOLEAN, canceling : BOOLEAN]

GoroutineType == [pc : Pcs, frame : Frame \cup {NoFrame},
                  item : Frame \cup {NoFrame}, next : Branch]

\* Every variable has its type.
TypeOK ==
    /\ unsent \subseteq Frame
    /\ node \in [Node -> NodeType]
    /\ heldSystem \in BOOLEAN /\ heldFrames \in BOOLEAN
    /\ seen \subseteq Frame /\ counter \in [Frame -> 0..N]
    /\ syncing \in BOOLEAN /\ buffered \in Seq(Frame)
    /\ go \in [Goroutines -> GoroutineType]
    /\ arrived \in Seq(Frame) /\ out \in Seq(Frame)

\* A frame that several branches forward, buffered or not, lifecycle frame or
\* not, leaves the parallel pipeline at most once (seen).
EscapesOnce == \A i, j \in 1..Len(out) : out[i] = out[j] => i = j

\* The StartFrame leaves before any frame a branch pushes, however far ahead of
\* the others the branch is (syncing stays up until the buffer has drained).
StartLeads == out # <<>> => isStartFrame(out[1])

\* x was queued at the parallel pipeline before y.
Before(x, y) == \E i, j \in 1..Len(arrived) :
                    i < j /\ arrived[i] = x /\ arrived[j] = y

\* Nothing that was queued ahead of the EndFrame leaves behind it, although it
\* may be in a slower branch, buffered, or in the hands of a goroutine that is
\* about to push it.
EndTrails ==
    \A i, j \in 1..Len(out) :
        (i < j /\ Kind[out[i]] = "end" /\ ~isSystemFrame(out[j])) =>
            ~Before(out[j], out[i])

\* The goroutines in the middle of a release.
Releasing == {g \in Goroutines :
                 go[g].pc \in {"synchronized", "flush", "pushBuffered",
                               "pushSynchronized"}}

\* Two releases never run at once, a CancelFrame overtaking an EndFrame
\* included: they would push the buffered frames out of order, and the second
\* its lifecycle frame ahead of one the first still holds.
OneRelease == \A g, h \in Releasing : g = h

\* A lifecycle frame queued at a parallel pipeline that gets its StartFrame
\* leaves it sooner or later, whichever branch is last and whatever overtakes
\* the frame: the counter reaches zero and the gates open again.  Only an
\* EndFrame that a CancelFrame overtakes may be lost.
LifecycleLeaves ==
    \A f \in Frame :
        (/\ isLifecycle(f) /\ f \in FramesOf(arrived)
         /\ \E x \in FramesOf(arrived) : isStartFrame(x))
        ~> (f \in FramesOf(out) \/ (Kind[f] = "end" /\ node[0].canceling))
=============================================================================
