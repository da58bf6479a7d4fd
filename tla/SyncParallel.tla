---------------------------- MODULE SyncParallel ----------------------------
(***************************************************************************)
(* A synchronised parallel pipeline (pipeline/syncparallel.go).  A data or *)
(* control frame is a round: it goes into every branch with a SyncFrame    *)
(* behind it, what comes out of each branch is collected up to its         *)
(* SyncFrame, and then everything is released at once, without duplicates. *)
(* System frames go straight through, and what the branches make of them   *)
(* is left in the branches' queues.                                        *)
(*                                                                         *)
(* The pipeline's own base runs as module Processor says, in the coarser   *)
(* steps of ParallelPipeline: its input goroutine, and a process goroutine *)
(* that an interruption replaces and a CancelFrame stops.  A round adds    *)
(* one goroutine per branch, a waiter.  A branch is one processor with its *)
(* two goroutines; pushing what it makes of a frame is part of handling    *)
(* it.  Frames flow downstream; upstream the code is the same with sources *)
(* and sinks exchanged.                                                    *)
(***************************************************************************)
EXTENDS FrameQueue

CONSTANTS N,            \* the number of branches
          Output,       \* Output[b][f]: what branch b pushes as it handles f
          SyncFrame     \* any SyncFrame: they are told apart by nothing

Branch == 1..N

ASSUME SyncAssumption ==
    /\ N \in Nat \ {0}
    /\ SyncFrame \in Frame /\ Kind[SyncFrame] = "data"
    /\ Output \in [Branch -> [Frame -> Seq(Frame)]]
    /\ \A b \in Branch, f \in Frame :
         /\ SyncFrame \in FramesOf(Output[b][f]) => f = SyncFrame
         /\ isSystemFrame(f) \/ f = SyncFrame => Output[b][f] = <<f>>
    /\ \A f \in Frame : Kind[f] \in {"start", "system", "interruption", "cancel",
                                     "data", "kept", "end"}

VARIABLES
    frameOrder,     \* "arrival" or "pipeline"
    unsent,         \* frames nobody has queued yet
    inputQueue, procQueue, canceling,
    input,          \* the input goroutine
    proc,           \* the process goroutine: "off", "idle" or in a "round"
    waiter,         \* waiter[b]: where the goroutine for branch b is
    branch,         \* branch[b]: the processor of branch b
    queue,          \* queue[b]: what has come out of branch b
    downQueue,      \* what the round has collected, in arrival order
    perBranch,      \* perBranch[b]: what it has collected from branch b
    out             \* history: the frames pushed on, in order

baseVars  == <<frameOrder, unsent, inputQueue, procQueue, canceling>>
roundVars == <<waiter, downQueue, perBranch>>
vars == <<baseVars, input, proc, branch, queue, roundVars, out>>

SE == INSTANCE SequencesExt

isEndFrame(f) == Kind[f] = "end"

\* What the branches make of a frame, branch by branch, and the frames that are
\* made rather than queued.
MadeOf(f) == SE!FlattenSeq([b \in Branch |-> Output[b][f]])
Made == {x \in Frame : \E f \in Frame \ {x} : x \in FramesOf(MadeOf(f))}

At(pc, f) == [pc |-> pc, frame |-> f, next |-> 1]
Process(pc, f) == [pc |-> pc, frame |-> f, stop |-> FALSE]

\* NewSyncParallel, once everything is set up.
Init ==
    /\ frameOrder \in {"arrival", "pipeline"}
    /\ unsent = Frame \ ({SyncFrame} \cup Made)
    /\ inputQueue = newQueue /\ procQueue = newQueue /\ canceling = FALSE
    /\ input = At("gate", NoFrame)
    /\ proc = Process("off", NoFrame)
    /\ branch = [b \in Branch |-> [inputQueue |-> newQueue, procQueue |-> newQueue,
                                   running |-> FALSE, canceling |-> FALSE]]
    /\ queue = [b \in Branch |-> <<>>]
    /\ waiter = [b \in Branch |-> "idle"]
    /\ downQueue = <<>> /\ perBranch = [b \in Branch |-> <<>>]
    /\ out = <<>>

(***************************************************************************)
(* The base: queueing, handing on, and what it does with a system frame.   *)
(***************************************************************************)
QueueFrame(f) ==
    /\ f \in unsent
    /\ unsent' = unsent \ {f}
    /\ inputQueue' = IF canceling THEN inputQueue ELSE push(inputQueue, f)
    /\ UNCHANGED <<frameOrder, procQueue, canceling, input, proc, branch, queue,
                   roundVars, out>>

HandOn ==
    /\ input.pc = "idle" /\ ~isEmpty(inputQueue) /\ ~isSystemFrame(head(inputQueue))
    /\ inputQueue' = get(inputQueue)
    /\ procQueue' = push(procQueue, head(inputQueue))
    /\ UNCHANGED <<frameOrder, unsent, canceling, input, proc, branch, queue,
                   roundVars, out>>

\* The StartFrame starts the process goroutine; then startBranches.
TakeStart ==
    /\ input.pc = "gate" /\ startsNext(inputQueue)
    /\ inputQueue' = get(inputQueue)
    /\ input' = At("starting", head(inputQueue))
    /\ proc' = Process("idle", NoFrame)
    /\ waiter' = [b \in Branch |-> "startSend"]
    /\ UNCHANGED <<frameOrder, unsent, procQueue, canceling, branch, queue, downQueue,
                   perBranch, out>>

\* Any other system frame.  An interruption stops the process goroutine unless
\* what it handles is uninterruptible, a CancelFrame stops it for good.
TakeSystem ==
    /\ input.pc = "idle" /\ systemNext(inputQueue)
    /\ inputQueue' = get(inputQueue)
    /\ LET f == head(inputQueue)
           spared == proc.frame # NoFrame /\ ~Interruptible(proc.frame)
           stops == Kind[f] = "cancel" \/ (Kind[f] = "interruption" /\ ~spared)
       IN  /\ input' = At(IF stops THEN "join" ELSE "through", f)
           /\ proc' = [proc EXCEPT !.stop = @ \/ stops]
           /\ canceling' = (canceling \/ Kind[f] = "cancel")
           /\ procQueue' = IF Kind[f] = "interruption" /\ spared
                           THEN reset(procQueue) ELSE procQueue
    /\ UNCHANGED <<frameOrder, unsent, branch, queue, roundVars, out>>

ProcessExits ==
    /\ proc.pc = "idle" /\ proc.stop
    /\ proc' = Process("off", NoFrame)
    /\ UNCHANGED <<baseVars, input, branch, queue, roundVars, out>>

\* The process goroutine has exited; an interruption starts another.
Join ==
    /\ input.pc = "join" /\ proc.pc = "off"
    /\ input' = [input EXCEPT !.pc = "through"]
    /\ IF Kind[input.frame] = "interruption"
         THEN procQueue' = reset(procQueue) /\ proc' = Process("idle", NoFrame)
         ELSE UNCHANGED <<procQueue, proc>>
    /\ UNCHANGED <<frameOrder, unsent, inputQueue, canceling, branch, queue, roundVars,
                   out>>

\* The source of branch b hands the frame to the branch's processor.
Enter(b, f) ==
    branch' = IF branch[b].canceling THEN branch
              ELSE [branch EXCEPT ![b].inputQueue = push(@, f)]

\* A system frame goes into one branch after another, and on.
PassThrough ==
    /\ input.pc = "through" /\ input.next <= N
    /\ Enter(input.next, input.frame)
    /\ input' = [input EXCEPT !.next = @ + 1]
    /\ UNCHANGED <<baseVars, proc, queue, roundVars, out>>

PushSystem ==
    /\ input.pc = "through" /\ input.next > N
    /\ out' = Append(out, input.frame)
    /\ input' = At("idle", NoFrame)
    /\ UNCHANGED <<baseVars, proc, branch, queue, roundVars>>

(***************************************************************************)
(* startBranches: the StartFrame goes into every branch, the first frame   *)
(* to come out of each is taken for it, and it is passed on.               *)
(***************************************************************************)
StartSend(b) ==
    /\ waiter[b] = "startSend"
    /\ Enter(b, input.frame)
    /\ waiter' = [waiter EXCEPT ![b] = "startGet"]
    /\ UNCHANGED <<baseVars, input, proc, queue, downQueue, perBranch, out>>

StartGet(b) ==
    /\ waiter[b] = "startGet" /\ queue[b] # <<>>
    /\ queue' = [queue EXCEPT ![b] = Tail(@)]
    /\ waiter' = [waiter EXCEPT ![b] = "done"]
    /\ UNCHANGED <<baseVars, input, proc, branch, downQueue, perBranch, out>>

\* wg.Wait.
AllDone == \A b \in Branch : waiter[b] = "done"

startBranches ==
    /\ input.pc = "starting" /\ AllDone
    /\ waiter' = [b \in Branch |-> "idle"]
    /\ out' = Append(out, input.frame)
    /\ input' = At("idle", NoFrame)
    /\ UNCHANGED <<baseVars, proc, branch, queue, downQueue, perBranch>>

(***************************************************************************)
(* The processor of a branch: its input goroutine handles system frames    *)
(* and hands the others on, its process goroutine handles those.           *)
(***************************************************************************)
BranchHandsOn(b) ==
    LET in == branch[b].inputQueue
    IN  /\ ~isEmpty(in) /\ ~isSystemFrame(head(in))
        /\ branch' = [branch EXCEPT ![b].inputQueue = get(in),
                                    ![b].procQueue = push(@, head(in))]
        /\ UNCHANGED <<baseVars, input, proc, queue, roundVars, out>>

\* What the processor makes of f reaches the branch's sink, which lets nothing
\* through behind a CancelFrame.
ComesOut(b, f) ==
    queue' = IF branch[b].canceling THEN queue
             ELSE [queue EXCEPT ![b] = @ \o Output[b][f]]

BranchSystem(b) ==
    /\ ~isEmpty(branch[b].inputQueue)
    /\ LET f == head(branch[b].inputQueue)
       IN  /\ isSystemFrame(f)
           /\ branch' = [branch EXCEPT ![b] =
                [inputQueue |-> get(@.inputQueue),
                 procQueue |-> IF Kind[f] = "interruption" THEN reset(@.procQueue)
                               ELSE @.procQueue,
                 running |-> CASE Kind[f] \in {"start", "interruption"} -> TRUE
                               [] Kind[f] = "cancel" -> FALSE
                               [] OTHER -> @.running,
                 canceling |-> @.canceling \/ Kind[f] = "cancel"]]
           /\ ComesOut(b, f)
    /\ UNCHANGED <<baseVars, input, proc, roundVars, out>>

BranchProcesses(b) ==
    /\ branch[b].running /\ ~isEmpty(branch[b].procQueue)
    /\ branch' = [branch EXCEPT ![b].procQueue = get(@)]
    /\ ComesOut(b, head(branch[b].procQueue))
    /\ UNCHANGED <<baseVars, input, proc, roundVars, out>>

(***************************************************************************)
(* A round: waitForSync per branch, then the release.                      *)
(***************************************************************************)
ProcessFrame ==
    /\ proc.pc = "idle" /\ ~proc.stop /\ ~isEmpty(procQueue)
    /\ procQueue' = get(procQueue)
    /\ proc' = Process("round", head(procQueue))
    /\ waiter' = [b \in Branch |-> "send"]
    /\ UNCHANGED <<frameOrder, unsent, inputQueue, canceling, input, branch, queue,
                   downQueue, perBranch, out>>

Sent_swapped(b) == IF waiter[b] = "send" /\ ~isEndFrame(proc.frame)
                   THEN SyncFrame ELSE proc.frame

\* The frame, then a SyncFrame behind it; an EndFrame is its own sentinel.
Sent(b) == IF waiter[b] = "send" THEN proc.frame ELSE SyncFrame

Send(b) ==
    /\ waiter[b] \in {"send", "sync"}
    /\ Enter(b, Sent(b))
    /\ waiter' = [waiter EXCEPT ![b] = CASE isEndFrame(proc.frame) -> "endFirst"
                                         [] @ = "send" -> "sync"
                                         [] OTHER -> "collect"]
    /\ UNCHANGED <<baseVars, input, proc, queue, downQueue, perBranch, out>>

collect(b, x) ==
    IF frameOrder = "pipeline"
      THEN perBranch' = [perBranch EXCEPT ![b] = Append(@, x)] /\ UNCHANGED downQueue
      ELSE downQueue' = Append(downQueue, x) /\ UNCHANGED perBranch

Collect(b) ==
    /\ waiter[b] = "collect" /\ queue[b] # <<>>
    /\ queue' = [queue EXCEPT ![b] = Tail(@)]
    /\ IF Head(queue[b]) = SyncFrame
         THEN /\ waiter' = [waiter EXCEPT ![b] = "done"]
              /\ UNCHANGED <<downQueue, perBranch>>
         ELSE collect(b, Head(queue[b])) /\ UNCHANGED waiter
    /\ UNCHANGED <<baseVars, input, proc, branch, out>>

\* Waiting for the EndFrame: it is collected only if it is the first to come out.
CollectEnd(b) ==
    /\ waiter[b] \in {"endFirst", "endMore"} /\ queue[b] # <<>>
    /\ queue' = [queue EXCEPT ![b] = Tail(@)]
    /\ waiter' = [waiter EXCEPT ![b] =
                    IF isEndFrame(Head(queue[b])) THEN "done" ELSE "endMore"]
    /\ IF isEndFrame(Head(queue[b])) /\ waiter[b] = "endMore"
         THEN UNCHANGED <<downQueue, perBranch>>
         ELSE collect(b, Head(queue[b]))
    /\ UNCHANGED <<baseVars, input, proc, branch, out>>

Collecting(b) == waiter[b] \in {"collect", "endFirst", "endMore"}

GiveUp_never(b) == waiter[b] = "never" /\ UNCHANGED vars

\* get looks at the context only when the queue is empty.
GiveUp(b) ==
    /\ Collecting(b) /\ queue[b] = <<>> /\ proc.stop
    /\ waiter' = [waiter EXCEPT ![b] = "done"]
    /\ UNCHANGED <<baseVars, input, proc, branch, queue, downQueue, perBranch, out>>

dedupe(x) == SE!FoldLeft(LAMBDA acc, f : IF f \in FramesOf(acc) THEN acc
                                         ELSE Append(acc, f), <<>>, x)

collected == IF frameOrder = "pipeline" THEN SE!FlattenSeq(perBranch) ELSE downQueue

Release_resumed ==
    /\ proc.pc = "round" /\ AllDone
    /\ out' = out \o dedupe(collected)
    /\ proc' = [proc EXCEPT !.pc = "idle", !.frame = NoFrame]
    /\ downQueue' = <<>>
    /\ UNCHANGED <<baseVars, input, branch, queue, waiter, perBranch>>

\* The round is over, canceled or not: what was collected is pushed.  Nobody else
\* touches it, so the pushes are one step.
Release ==
    /\ proc.pc = "round" /\ AllDone
    /\ out' = out \o dedupe(collected)
    /\ proc' = [proc EXCEPT !.pc = "idle", !.frame = NoFrame]
    /\ waiter' = [b \in Branch |-> "idle"]
    /\ downQueue' = <<>> /\ perBranch' = [b \in Branch |-> <<>>]
    /\ UNCHANGED <<baseVars, input, branch, queue>>

(***************************************************************************)
(* The specification.                                                      *)
(***************************************************************************)
InputStep == HandOn \/ TakeStart \/ TakeSystem \/ Join \/ PassThrough \/ PushSystem
             \/ startBranches
ProcessStep == ProcessExits \/ ProcessFrame \/ Release
WaiterStep(b) == StartSend(b) \/ StartGet(b) \/ Send(b) \/ Collect(b)
                 \/ CollectEnd(b) \/ GiveUp(b)
BranchInput(b) == BranchHandsOn(b) \/ BranchSystem(b)

Next ==
    \/ \E f \in Frame : QueueFrame(f)
    \/ InputStep \/ ProcessStep
    \/ \E b \in Branch : WaiterStep(b) \/ BranchInput(b) \/ BranchProcesses(b)

Spec == Init /\ [][Next]_vars

\* Goroutines are scheduled, but the processor of a branch need not come back from
\* a frame it handles in order.
Fairness ==
    /\ WF_vars(InputStep) /\ WF_vars(ProcessStep)
    /\ \A b \in Branch : WF_vars(WaiterStep(b)) /\ WF_vars(BranchInput(b))

FairSpec == Spec /\ Fairness

-----------------------------------------------------------------------------
(***************************************************************************)
(* Properties.                                                             *)
(***************************************************************************)
Waiting == waiter # [b \in Branch |-> "idle"]

\* Every variable has its type; there are waiters only while branches are
\* started or a round is on, and nothing collected lies about between rounds.
TypeOK ==
    /\ frameOrder \in {"arrival", "pipeline"} /\ unsent \subseteq Frame
    /\ inputQueue \in Queue /\ procQueue \in Queue /\ canceling \in BOOLEAN
    /\ input \in [pc : {"gate", "starting", "idle", "join", "through"},
                  frame : Frame \cup {NoFrame}, next : 1..(N + 1)]
    /\ proc \in [pc : {"off", "idle", "round"}, frame : Frame \cup {NoFrame},
                 stop : BOOLEAN]
    /\ branch \in [Branch -> [inputQueue : Queue, procQueue : Queue,
                            running : BOOLEAN, canceling : BOOLEAN]]
    /\ queue \in [Branch -> Seq(Frame)] /\ out \in Seq(Frame)
    /\ waiter \in [Branch -> {"idle", "startSend", "startGet", "send", "sync",
                              "collect", "endFirst", "endMore", "done"}]
    /\ Waiting => input.pc = "starting" \/ proc.pc = "round"
    /\ proc.pc # "round" => downQueue = <<>> /\ perBranch = [b \in Branch |-> <<>>]

Released == proc.pc = "round" /\ proc'.pc = "idle"

\* A SyncFrame is still on its way: the round that just ended took the one that an
\* earlier, canceled round had left behind.
Overtaken == \E b \in Branch :
    SyncFrame \in FramesOf(queue[b]) \cup FramesOf(branch[b].inputQueue.other)
                  \cup FramesOf(branch[b].procQueue.other)

\* What the branches make of a frame stays together: a round that was not canceled
\* pushes all of it, each frame once, and in pipeline order what the first branch
\* made before what the second did, however far apart the branches run.  What a
\* canceled round or a system frame left behind may be pushed with it; a SyncFrame
\* taken for another's and the round of an EndFrame are the exceptions.
WholeRounds ==
    [][Released /\ ~proc.stop /\ ~isEndFrame(proc.frame) /\ ~Overtaken =>
         LET made == dedupe(MadeOf(proc.frame))
             pushed == SelectSeq(SubSeq(out', Len(out) + 1, Len(out')),
                                 LAMBDA f : f \in FramesOf(made))
         IN  IF frameOrder = "pipeline" THEN pushed = made
             ELSE SE!IsInjective(pushed) /\ FramesOf(pushed) = FramesOf(made)]_vars

\* An interruption gets past a round, although its handler waits for the round and
\* the branches are told only afterwards: a canceled round ends even if a branch
\* never comes back from what it is at.
CanceledRoundEnds == (proc.pc = "round" /\ proc.stop) ~> (proc.pc # "round")
=============================================================================
