------------------------------ MODULE Processor ------------------------------
(***************************************************************************)
(* One frame processor (processor/processor.go, processor/pause.go): the   *)
(* goroutines that run it, the two queues between them, interruptions,     *)
(* cancellation, pausing, setting up and tearing down.                     *)
(*                                                                         *)
(* Go(1), Life, is the pipeline's goroutine that sets the processor up and *)
(* tears it down; Go(2), Watch, lifts a PauseProcessingAllFramesUntil;     *)
(* Go(3), Input, is the input goroutine; every further one is a process    *)
(* goroutine, the latest of which procCancel and procDone belong to.  The  *)
(* callers of QueueFrame are not represented but by the frames they have   *)
(* still to queue.                                                         *)
(*                                                                         *)
(* An action is what a goroutine does in one critical section: each of     *)
(* curMu, procMu, pauseMu, an event's mutex and a queue's mutex is held    *)
(* within one action, but for createProcessTask, which holds procMu from   *)
(* Create to CreateFlush.  Between two actions every other goroutine may   *)
(* run.  What a concrete processor does with a frame is the base handler   *)
(* for its kind, then Finish.                                              *)
(*                                                                         *)
(* A definition A_b is a faulty variant of A: nothing uses it, it is there *)
(* to show that the properties notice the fault.                           *)
(***************************************************************************)
EXTENDS FrameQueue

CONSTANTS HoldOnStart,  \* the StartFrame's handler holds all frames until ready
          CanCleanup,   \* the processor may be torn down
          Target        \* the frame that a "withdraw" frame stops

ASSUME ProcessorAssumption ==
    /\ HoldOnStart \in BOOLEAN
    /\ CanCleanup \in BOOLEAN
    /\ Target \in Frame \cup {NoFrame}

VARIABLES
    sent,           \* sent[f]: how far the QueueFrame call for f has got
    inputQueue, procQueue,
    setupDone, startReceived, startGate,
    baseDone,       \* baseCtx is canceled
    go,             \* the goroutines
    procRunning, curFrame, canceling,
    events,         \* every event made: TRUE when set; the first is inputEvent
    processEvent,   \* the position in events of processEvent, 0 when nil
    blockSystemFrames, blockFrames, pendingResume,
    arrived,        \* history: the data and control frames queued, in order
    begun,          \* history: the frames whose handler was called, in order
    dropped         \* history: frames queued when an interruption replaced the
                    \* loop, or when the loop's own frame broadcast one

queueVars == <<sent, inputQueue, procQueue>>
startVars == <<setupDone, startReceived, startGate>>
taskVars  == <<baseDone, procRunning, curFrame, canceling>>
pauseVars == <<events, processEvent, blockSystemFrames, blockFrames,
               pendingResume>>
histVars  == <<arrived, begun, dropped>>
vars == <<queueVars, startVars, taskVars, go, pauseVars, histVars>>

Life  == 1
Watch == 2
Input == 3
Loops == 4..Len(go)
Goroutines == 1..Len(go)

inputEvent == 1

(***************************************************************************)
(* Where a goroutine can be.  In HandPcs it holds a frame it has taken off *)
(* its queue and has not called the handler for.                           *)
(***************************************************************************)
HandPcs == {"take", "gate", "wait", "select", "clear", "unblock", "handle",
            "giveBack"}
HandlerPcs == {"pauseClear", "resetGate", "flush", "interrupt", "join",
               "create", "createFlush", "stopTask", "withdraw", "respawn",
               "hold", "holdFrames", "watch", "finish", "after"}
ResumePcs == {"resumeInput", "resumeGet", "resumeSet"}
LifePcs == {"new", "settingUp", "finishing", "up", "lift", "cancelInput",
            "waitInput", "stopProc", "down"}
Pcs == HandPcs \cup HandlerPcs \cup ResumePcs \cup LifePcs
       \cup {"none", "startGate", "top", "get", "pull", "idle", "watching",
             "exited"}

Goroutine == [pc : Pcs, frame : Frame \cup {NoFrame}, on : Nat,
              woken : BOOLEAN, stop : BOOLEAN]

goroutine(pc) == [pc |-> pc, frame |-> NoFrame, on |-> 0, woken |-> FALSE,
                  stop |-> FALSE]

\* A goroutine's context is canceled: every one of them is a child of baseCtx.
Stopped(g) == baseDone \/ go[g].stop

Update(g, r) == go' = [go EXCEPT ![g] = r]
Goto(g, pc) == Update(g, [go[g] EXCEPT !.pc = pc])

\* Back to the loop once a frame has been dealt with.
Loop(g) == IF g = Input THEN "get" ELSE "top"

QueueOf(g) == IF g = Input THEN inputQueue ELSE procQueue

Init ==
    /\ sent = [f \in Frame |-> "unsent"]
    /\ inputQueue = newQueue /\ procQueue = newQueue
    /\ setupDone = FALSE /\ startReceived = FALSE /\ startGate = FALSE
    /\ baseDone = FALSE
    /\ go = <<goroutine("new"), goroutine("none"), goroutine("none")>>
    /\ procRunning = FALSE /\ curFrame = NoFrame /\ canceling = FALSE
    /\ events = <<FALSE>> /\ processEvent = 0
    /\ blockSystemFrames = FALSE /\ blockFrames = FALSE /\ pendingResume = FALSE
    /\ arrived = <<>> /\ begun = <<>> /\ dropped = {}

(***************************************************************************)
(* Queueing a frame.  The canceling flag is read before the frame is       *)
(* pushed and nothing is held in between, so a frame may still be pushed   *)
(* when the flag is up.                                                    *)
(***************************************************************************)
QueueFrame(f) ==
    /\ sent[f] = "unsent"
    /\ inputQueue' = push(inputQueue, f)
    /\ arrived' = IF isSystemFrame(f) THEN arrived ELSE Append(arrived, f)
    /\ IF isStartFrame(f)
         THEN sent' = [sent EXCEPT ![f] = "opening"] /\ startReceived' = TRUE
         ELSE sent' = [sent EXCEPT ![f] = "queued"] /\ UNCHANGED startReceived
    /\ UNCHANGED <<procQueue, setupDone, startGate, taskVars, go, pauseVars,
                   begun, dropped>>

RefuseFrame(f) ==
    /\ sent[f] = "unsent" /\ canceling
    /\ sent' = [sent EXCEPT ![f] = "refused"]
    /\ UNCHANGED <<inputQueue, procQueue, startVars, taskVars, go, pauseVars, histVars>>

\* The maybeOpenStartGate of the QueueFrame that brought the StartFrame.
OpenOnStart(f) ==
    /\ sent[f] = "opening"
    /\ sent' = [sent EXCEPT ![f] = "queued"]
    /\ startGate' = (startGate \/ setupDone)
    /\ UNCHANGED <<inputQueue, procQueue, setupDone, startReceived, taskVars, go,
                   pauseVars, histVars>>

(***************************************************************************)
(* Setting up: the pipeline has called SetupStarted (Init); Base.Setup     *)
(* starts the input goroutine, SetupFinished opens the gate if the         *)
(* StartFrame is already there.                                            *)
(***************************************************************************)
Setup ==
    /\ go[Life].pc = "new"
    /\ go' = [go EXCEPT ![Life].pc = "settingUp", ![Input].pc = "startGate"]
    /\ UNCHANGED <<queueVars, startVars, taskVars, pauseVars, histVars>>

SetupFinished ==
    /\ go[Life].pc = "settingUp"
    /\ setupDone' = TRUE
    /\ Goto(Life, "finishing")
    /\ UNCHANGED <<queueVars, startReceived, startGate, taskVars, pauseVars, histVars>>

OpenOnSetup_forgets ==
    /\ go[Life].pc = "finishing"
    /\ Goto(Life, "up")
    /\ UNCHANGED <<queueVars, startVars, taskVars, pauseVars, histVars>>

OpenOnSetup ==
    /\ go[Life].pc = "finishing"
    /\ startGate' = (startGate \/ startReceived)
    /\ Goto(Life, "up")
    /\ UNCHANGED <<queueVars, setupDone, startReceived, taskVars, pauseVars, histVars>>

(***************************************************************************)
(* Taking a frame.  get looks at the context, then takes a frame or waits  *)
(* for one; the process goroutine makes what it took current unless it has *)
(* been canceled since.                                                    *)
(***************************************************************************)
StartGate ==
    /\ go[Input].pc = "startGate"
    /\ \/ startGate /\ Goto(Input, "get")
       \/ baseDone /\ Goto(Input, "exited")
    /\ UNCHANGED <<queueVars, startVars, taskVars, pauseVars, histVars>>

Top(g) ==
    /\ go[g].pc = "top"
    /\ curFrame' = NoFrame
    /\ Goto(g, "get")
    /\ UNCHANGED <<queueVars, startVars, baseDone, procRunning, canceling,
                   pauseVars, histVars>>

GetCheck(g) ==
    /\ go[g].pc = "get"
    /\ Update(g, [go[g] EXCEPT !.pc = IF Stopped(g) THEN "exited" ELSE "pull",
                               !.frame = NoFrame, !.on = 0, !.woken = FALSE])
    /\ UNCHANGED <<queueVars, startVars, taskVars, pauseVars, histVars>>

Pull(g) ==
    /\ go[g].pc = "pull" /\ ~isEmpty(QueueOf(g))
    /\ Update(g, [go[g] EXCEPT !.pc = IF g = Input THEN "gate" ELSE "take",
                               !.frame = head(QueueOf(g))])
    /\ IF g = Input
         THEN inputQueue' = get(inputQueue) /\ UNCHANGED procQueue
         ELSE procQueue' = get(procQueue) /\ UNCHANGED inputQueue
    /\ UNCHANGED <<sent, startVars, taskVars, pauseVars, histVars>>

GoIdle(g) ==
    /\ go[g].pc = "pull" /\ isEmpty(QueueOf(g))
    /\ Goto(g, "idle")
    /\ UNCHANGED <<queueVars, startVars, taskVars, pauseVars, histVars>>

Wake_deaf(g) ==
    /\ go[g].pc = "idle"
    /\ ~isEmpty(QueueOf(g)) /\ Goto(g, "get")
    /\ UNCHANGED <<queueVars, startVars, taskVars, pauseVars, histVars>>

Wake(g) ==
    /\ go[g].pc = "idle"
    /\ \/ ~isEmpty(QueueOf(g)) /\ Goto(g, "get")
       \/ Stopped(g) /\ Goto(g, "exited")
    /\ UNCHANGED <<queueVars, startVars, taskVars, pauseVars, histVars>>

takeCurFrame_blind(g) ==
    /\ go[g].pc = "take"
    /\ Goto(g, "gate") /\ curFrame' = go[g].frame
    /\ UNCHANGED <<queueVars, startVars, baseDone, procRunning, canceling,
                   pauseVars, histVars>>

takeCurFrame(g) ==
    /\ go[g].pc = "take"
    /\ IF Stopped(g)
         THEN Goto(g, "giveBack") /\ UNCHANGED curFrame
         ELSE Goto(g, "gate") /\ curFrame' = go[g].frame
    /\ UNCHANGED <<queueVars, startVars, baseDone, procRunning, canceling,
                   pauseVars, histVars>>

giveBack_drops(g) ==
    /\ go[g].pc = "giveBack"
    /\ Goto(g, "exited")
    /\ UNCHANGED <<queueVars, startVars, taskVars, pauseVars, histVars>>

\* The frame goes back if nothing may drop it, and the loop returns.
giveBack(g) ==
    /\ go[g].pc = "giveBack"
    /\ procQueue' = IF Interruptible(go[g].frame) THEN procQueue
                    ELSE requeue(procQueue, go[g].frame)
    /\ Goto(g, "exited")
    /\ UNCHANGED <<sent, inputQueue, startVars, taskVars, pauseVars, histVars>>

(***************************************************************************)
(* The pause gate (waitWhilePaused): the flag and the event are read       *)
(* together, then the event is waited for, cleared, and the flag lowered,  *)
(* each on its own.  A goroutine that waits is woken by the event being    *)
(* set even if it is cleared again before the goroutine runs.              *)
(***************************************************************************)
GateEvent(g) == IF g = Input THEN inputEvent ELSE processEvent
GateBlocked(g) == IF g = Input THEN blockSystemFrames ELSE blockFrames

Gate(g) ==
    /\ go[g].pc = "gate"
    /\ IF GateBlocked(g) /\ GateEvent(g) # 0
         THEN Update(g, [go[g] EXCEPT !.pc = "wait", !.on = GateEvent(g)])
         ELSE Goto(g, "handle")
    /\ UNCHANGED <<queueVars, startVars, taskVars, pauseVars, histVars>>

WaitEvent(g) ==
    /\ go[g].pc = "wait"
    /\ Update(g, [go[g] EXCEPT !.pc = IF events[go[g].on] THEN "clear" ELSE "select",
                               !.woken = FALSE])
    /\ UNCHANGED <<queueVars, startVars, taskVars, pauseVars, histVars>>

Select(g) ==
    /\ go[g].pc = "select"
    /\ \/ go[g].woken /\ Goto(g, "clear")
       \/ Stopped(g) /\ Goto(g, IF g = Input THEN "exited" ELSE "giveBack")
    /\ UNCHANGED <<queueVars, startVars, taskVars, pauseVars, histVars>>

ClearEvent(g) ==
    /\ go[g].pc = "clear"
    /\ events' = [events EXCEPT ![go[g].on] = FALSE]
    /\ Goto(g, "unblock")
    /\ UNCHANGED <<queueVars, startVars, taskVars, processEvent,
                   blockSystemFrames, blockFrames, pendingResume, histVars>>

Unblock(g) ==
    /\ go[g].pc = "unblock"
    /\ IF g = Input THEN blockSystemFrames' = FALSE /\ UNCHANGED blockFrames
                    ELSE blockFrames' = FALSE /\ UNCHANGED blockSystemFrames
    /\ Goto(g, "handle")
    /\ UNCHANGED <<queueVars, startVars, taskVars, events, processEvent,
                   pendingResume, histVars>>

\* event.Set: the event is set and whoever waits for it is woken.
SetEvent(g, e, pc) ==
    /\ events' = [events EXCEPT ![e] = TRUE]
    /\ go' = [h \in Goroutines |->
                IF h = g THEN [go[h] EXCEPT !.pc = pc]
                ELSE IF go[h].pc = "select" /\ go[h].on = e
                       THEN [go[h] EXCEPT !.woken = TRUE]
                       ELSE go[h]]

(***************************************************************************)
(* Handling a frame.  The input goroutine hands data and control frames on *)
(* and handles system frames itself; a process goroutine handles whatever  *)
(* it took.  Begin is the call of processFrame: the base handler's first   *)
(* critical section, where it has one, is part of it.                      *)
(***************************************************************************)
HandOn ==
    /\ go[Input].pc = "handle" /\ ~isSystemFrame(go[Input].frame)
    /\ procQueue' = push(procQueue, go[Input].frame)
    /\ Goto(Input, "get")
    /\ UNCHANGED <<sent, inputQueue, startVars, taskVars, pauseVars, histVars>>

FirstPc(f) ==
    CASE Kind[f] = "start" -> "create"
      [] Kind[f] = "interruption" -> "interrupt"
      [] Kind[f] = "cancel" -> "stopTask"
      [] Kind[f] = "withdraw" -> "withdraw"
      [] Kind[f] \in {"broadcast", "broadcastUrgent"} -> "resetGate"
      [] OTHER -> "finish"

Pauses(f)  == Kind[f] \in {"pause", "pauseUrgent"}
Resumes(f) == Kind[f] = "resume"

Begins(g) ==
    /\ go[g].pc = "handle"
    /\ g = Input => isSystemFrame(go[g].frame)
    /\ begun' = Append(begun, go[g].frame)
    /\ UNCHANGED <<queueVars, startVars, baseDone, procRunning, curFrame, events,
                   processEvent, blockSystemFrames, arrived, dropped>>

Begin(g) ==
    /\ Begins(g) /\ ~Pauses(go[g].frame)
    /\ canceling' = (canceling \/ Kind[go[g].frame] = "cancel")
    /\ pendingResume' = (pendingResume \/ Resumes(go[g].frame))
    /\ Goto(g, FirstPc(go[g].frame))
    /\ UNCHANGED blockFrames

\* A pause frame that names this processor: PauseProcessingFrames raises the
\* flag and reads the event it will clear.
BeginPause(g) ==
    /\ Begins(g) /\ Pauses(go[g].frame)
    /\ blockFrames' = TRUE
    /\ Update(g, [go[g] EXCEPT !.pc = "pauseClear", !.on = processEvent])
    /\ UNCHANGED <<canceling, pendingResume>>

PauseClear(g) ==
    /\ go[g].pc = "pauseClear"
    /\ events' = IF go[g].on = 0 THEN events
                 ELSE [events EXCEPT ![go[g].on] = FALSE]
    /\ Goto(g, IF isStartFrame(go[g].frame) THEN "watch" ELSE "finish")
    /\ UNCHANGED <<queueVars, startVars, taskVars, processEvent,
                   blockSystemFrames, blockFrames, pendingResume, histVars>>

(***************************************************************************)
(* Starting, interrupting and stopping the process goroutine.              *)
(***************************************************************************)
Queued == {f \in FramesOf(procQueue.other) : Interruptible(f)}
             \cup {f \in Frame : \E g \in Loops : /\ go[g].pc = "take"
                                                  /\ go[g].frame = f
                                                  /\ Interruptible(f)}

StopProcessTask_nowait(g, pc) ==
    IF procRunning
      THEN /\ procRunning' = FALSE
           /\ go' = [go EXCEPT ![Len(go)].stop = TRUE, ![g].pc = pc]
      ELSE Goto(g, pc) /\ UNCHANGED procRunning

\* stopProcessTask on goroutine g: cancel the process goroutine if there is
\* one and go on to wait for it, else go straight on to pc.
StopProcessTask(g, pc) ==
    IF procRunning
      THEN /\ procRunning' = FALSE
           /\ go' = [go EXCEPT ![Len(go)].stop = TRUE,
                               ![g].pc = "join", ![g].on = Len(go)]
      ELSE Goto(g, pc) /\ UNCHANGED procRunning

AfterJoin_norestart(g) == IF g = Life THEN "down" ELSE "finish"

\* Where a goroutine goes on once the one it stopped has exited.
AfterJoin(g) == IF g = Life THEN "down"
                ELSE CASE Kind[go[g].frame] = "interruption" -> "create"
                       [] Kind[go[g].frame] = "withdraw" -> "respawn"
                       [] OTHER -> "finish"

Join(g) ==
    /\ go[g].pc = "join"
    /\ go[go[g].on].pc = "exited"
    /\ Goto(g, AfterJoin(g))
    /\ UNCHANGED <<queueVars, startVars, taskVars, pauseVars, histVars>>

\* startInterruption's decision, under curMu.
StartInterruption ==
    /\ go[Input].pc = "interrupt"
    /\ IF curFrame # NoFrame /\ ~Interruptible(curFrame)
         THEN /\ Goto(Input, "flush")
              /\ UNCHANGED <<procRunning, dropped>>
         ELSE /\ StopProcessTask(Input, "create")
              /\ dropped' = dropped \cup Queued
    /\ UNCHANGED <<queueVars, startVars, baseDone, curFrame, canceling,
                   pauseVars, arrived, begun>>

\* createProcessTask, which holds procMu until CreateFlush is done.  Both it
\* and a BroadcastInterruption run resetProcessTask: a fresh pause gate, then
\* the queue.
ResetGate_unmade ==
    /\ blockFrames' = FALSE
    /\ processEvent' = Len(events) + 1
    /\ UNCHANGED <<events, blockSystemFrames, pendingResume>>

ResetGate ==
    /\ blockFrames' = FALSE
    /\ events' = Append(events, FALSE)
    /\ processEvent' = Len(events) + 1
    /\ UNCHANGED <<blockSystemFrames, pendingResume>>

procMuFree == go[Input].pc # "createFlush"

Create ==
    /\ go[Input].pc = "create"
    /\ IF procRunning THEN Goto(Input, "finish") /\ UNCHANGED pauseVars
                      ELSE Goto(Input, "createFlush") /\ ResetGate
    /\ UNCHANGED <<queueVars, startVars, taskVars, histVars>>

Spawn(pc) ==
    /\ procRunning' = TRUE
    /\ go' = Append([go EXCEPT ![Input].pc = pc], goroutine("top"))

CreateFlush ==
    /\ go[Input].pc = "createFlush"
    /\ procQueue' = reset(procQueue)
    /\ Spawn(IF HoldOnStart /\ isStartFrame(go[Input].frame) THEN "hold" ELSE "finish")
    /\ UNCHANGED <<sent, inputQueue, startVars, baseDone, curFrame, canceling,
                   pauseVars, histVars>>

BroadcastResetGate(g) ==
    /\ go[g].pc = "resetGate"
    /\ ResetGate
    /\ Goto(g, "flush")
    /\ dropped' = IF g = Input THEN dropped ELSE dropped \cup Queued
    /\ UNCHANGED <<queueVars, startVars, taskVars, arrived, begun>>

Flush(g) ==
    /\ go[g].pc = "flush"
    /\ procQueue' = reset(procQueue)
    /\ Goto(g, "finish")
    /\ UNCHANGED <<sent, inputQueue, startVars, taskVars, pauseVars, histVars>>

\* CancelFrame: canceling is up (Begin), the process goroutine is stopped.
CancelProcessTask ==
    /\ go[Input].pc = "stopTask"
    /\ StopProcessTask(Input, "finish")
    /\ UNCHANGED <<queueVars, startVars, baseDone, curFrame, canceling,
                   pauseVars, histVars>>

\* CancelFrameInProgress(Target): only the frame in progress is given up.
CancelFrameInProgress ==
    /\ go[Input].pc = "withdraw"
    /\ IF Target # NoFrame /\ curFrame = Target
         THEN StopProcessTask(Input, "finish")
         ELSE Goto(Input, "finish") /\ UNCHANGED procRunning
    /\ UNCHANGED <<queueVars, startVars, baseDone, curFrame, canceling,
                   pauseVars, histVars>>

Respawn ==
    /\ go[Input].pc = "respawn"
    /\ IF procRunning THEN Goto(Input, "finish") /\ UNCHANGED procRunning
                      ELSE Spawn("finish")
    /\ UNCHANGED <<queueVars, startVars, baseDone, curFrame, canceling,
                   pauseVars, histVars>>

(***************************************************************************)
(* PauseProcessingAllFramesUntil, called by the StartFrame's handler: both *)
(* gates are closed and a watcher started that lifts them when the         *)
(* processor is ready, the timeout elapses or it is canceled.              *)
(***************************************************************************)
HoldSystem ==
    /\ go[Input].pc = "hold"
    /\ blockSystemFrames' = TRUE
    /\ events' = [events EXCEPT ![inputEvent] = FALSE]
    /\ Goto(Input, "holdFrames")
    /\ UNCHANGED <<queueVars, startVars, taskVars, processEvent, blockFrames,
                   pendingResume, histVars>>

HoldFrames ==
    /\ go[Input].pc = "holdFrames"
    /\ blockFrames' = TRUE
    /\ Update(Input, [go[Input] EXCEPT !.pc = "pauseClear", !.on = processEvent])
    /\ UNCHANGED <<queueVars, startVars, taskVars, events, processEvent,
                   blockSystemFrames, pendingResume, histVars>>

StartWatcher ==
    /\ go[Input].pc = "watch"
    /\ go' = [go EXCEPT ![Input].pc = "finish", ![Watch].pc = "watching"]
    /\ UNCHANGED <<queueVars, startVars, taskVars, pauseVars, histVars>>

WatcherFires ==
    /\ go[Watch].pc = "watching"
    /\ Goto(Watch, "resumeInput")
    /\ UNCHANGED <<queueVars, startVars, taskVars, pauseVars, histVars>>

(***************************************************************************)
(* Resuming: resumeProcessingAllFrames releases the input goroutine, then  *)
(* the process goroutine as ResumeProcessingFrames does, which reads the   *)
(* event and then sets it.                                                 *)
(***************************************************************************)
AfterResume(g) == CASE g = Life -> "cancelInput" [] g = Watch -> "exited"
                    [] OTHER -> Loop(g)

ResumeInput(g) ==
    /\ go[g].pc = "resumeInput"
    /\ SetEvent(g, inputEvent, "resumeGet")
    /\ UNCHANGED <<queueVars, startVars, taskVars, processEvent,
                   blockSystemFrames, blockFrames, pendingResume, histVars>>

ResumeGet(g) ==
    /\ go[g].pc = "resumeGet"
    /\ Update(g, [go[g] EXCEPT !.on = processEvent,
                               !.pc = IF processEvent = 0 THEN AfterResume(g)
                                      ELSE "resumeSet"])
    /\ UNCHANGED <<queueVars, startVars, taskVars, pauseVars, histVars>>

ResumeSet(g) ==
    /\ go[g].pc = "resumeSet"
    /\ SetEvent(g, go[g].on, AfterResume(g))
    /\ UNCHANGED <<queueVars, startVars, taskVars, processEvent,
                   blockSystemFrames, blockFrames, pendingResume, histVars>>

(***************************************************************************)
(* The end of a handler: it forwards the frame, fails, panics or gives up  *)
(* because its context was canceled.  Then applyPendingResume.             *)
(***************************************************************************)
Finish(g) ==
    /\ go[g].pc = "finish"
    /\ Goto(g, "after")
    /\ UNCHANGED <<queueVars, startVars, taskVars, pauseVars, histVars>>

applyPendingResume(g) ==
    /\ go[g].pc = "after"
    /\ pendingResume' = FALSE
    /\ Goto(g, IF pendingResume THEN "resumeGet" ELSE Loop(g))
    /\ UNCHANGED <<queueVars, startVars, taskVars, events, processEvent,
                   blockSystemFrames, blockFrames, histVars>>

(***************************************************************************)
(* Tearing down: lift a hold, cancel the base context, wait for the input  *)
(* goroutine for a bounded time, stop the process goroutine and wait for   *)
(* it without a bound.                                                     *)
(***************************************************************************)
Cleanup ==
    /\ CanCleanup /\ go[Life].pc \in {"settingUp", "up"}
    /\ IF go[Watch].pc = "none"
         THEN Goto(Life, "cancelInput")
         ELSE go' = [go EXCEPT ![Life].pc = "lift", ![Watch].stop = TRUE]
    /\ UNCHANGED <<queueVars, startVars, taskVars, pauseVars, histVars>>

JoinWatcher ==
    /\ go[Life].pc = "lift" /\ go[Watch].pc = "exited"
    /\ Goto(Life, "resumeInput")
    /\ UNCHANGED <<queueVars, startVars, taskVars, pauseVars, histVars>>

CancelInputTask ==
    /\ go[Life].pc = "cancelInput"
    /\ baseDone' = TRUE
    /\ Goto(Life, "waitInput")
    /\ UNCHANGED <<queueVars, startVars, procRunning, curFrame, canceling,
                   pauseVars, histVars>>

\* The input goroutine has exited, or inputCancelTimeout has elapsed.
InputWaited ==
    /\ go[Life].pc = "waitInput"
    /\ Goto(Life, "stopProc")
    /\ UNCHANGED <<queueVars, startVars, taskVars, pauseVars, histVars>>

StopForGood_nowait ==
    /\ go[Life].pc = "stopProc" /\ procMuFree
    /\ Goto(Life, "down")
    /\ UNCHANGED <<queueVars, startVars, taskVars, pauseVars, histVars>>

StopForGood ==
    /\ go[Life].pc = "stopProc" /\ procMuFree
    /\ StopProcessTask(Life, "down")
    /\ UNCHANGED <<queueVars, startVars, baseDone, curFrame, canceling,
                   pauseVars, histVars>>

(***************************************************************************)
(* The specification.                                                      *)
(***************************************************************************)
\* What the goroutines that drain a queue share.
Drain(g) ==
    \/ GetCheck(g) \/ Pull(g) \/ GoIdle(g) \/ Wake(g)
    \/ Gate(g) \/ WaitEvent(g) \/ Select(g) \/ ClearEvent(g) \/ Unblock(g)
    \/ Begin(g) \/ BeginPause(g) \/ PauseClear(g)
    \/ BroadcastResetGate(g) \/ Flush(g)
    \/ Finish(g) \/ applyPendingResume(g) \/ ResumeGet(g) \/ ResumeSet(g)

InputStep ==
    \/ StartGate \/ Drain(Input) \/ HandOn
    \/ StartInterruption \/ Create \/ CreateFlush
    \/ CancelProcessTask \/ CancelFrameInProgress \/ Respawn \/ Join(Input)
    \/ HoldSystem \/ HoldFrames \/ StartWatcher

LoopStep(g) == Top(g) \/ takeCurFrame(g) \/ giveBack(g) \/ Drain(g)

WatchStep == WatcherFires \/ ResumeInput(Watch) \/ ResumeGet(Watch) \/ ResumeSet(Watch)

\* What the pipeline's goroutine does once it has begun to set up or tear down.
LifeStep ==
    \/ OpenOnSetup
    \/ JoinWatcher \/ ResumeInput(Life) \/ ResumeGet(Life) \/ ResumeSet(Life)
    \/ CancelInputTask \/ InputWaited \/ StopForGood \/ Join(Life)

ProcessStep == \E g \in Loops : LoopStep(g)

Send(f) == QueueFrame(f) \/ RefuseFrame(f) \/ OpenOnStart(f)

Next ==
    \/ \E f \in Frame : Send(f)
    \/ Setup \/ SetupFinished \/ Cleanup \/ LifeStep
    \/ WatchStep \/ InputStep \/ ProcessStep

Spec == Init /\ [][Next]_vars

\* The Go scheduler runs every goroutine that can run, and the watcher's
\* timeout elapses.  Nothing obliges anyone to queue a frame or to tear down.
Fairness ==
    /\ WF_vars(InputStep) /\ WF_vars(ProcessStep) /\ WF_vars(WatchStep)
    /\ WF_vars(LifeStep) /\ WF_vars(SetupFinished)
    /\ \A f \in Frame : WF_vars(OpenOnStart(f))

FairSpec == Spec /\ Fairness

-----------------------------------------------------------------------------
(***************************************************************************)
(* Properties.                                                             *)
(***************************************************************************)
QueueOK == /\ sent \in [Frame -> {"unsent", "opening", "queued", "refused"}]
           /\ inputQueue \in Queue /\ procQueue \in Queue
FlagsOK == /\ setupDone \in BOOLEAN /\ startReceived \in BOOLEAN
           /\ startGate \in BOOLEAN /\ baseDone \in BOOLEAN
           /\ procRunning \in BOOLEAN /\ canceling \in BOOLEAN
           /\ blockSystemFrames \in BOOLEAN /\ blockFrames \in BOOLEAN
           /\ pendingResume \in BOOLEAN
TaskOK == /\ go \in Seq(Goroutine) /\ Len(go) >= 3
          /\ curFrame \in Frame \cup {NoFrame}
EventsOK == /\ events \in Seq(BOOLEAN) /\ Len(events) >= 1
            /\ processEvent \in 0..Len(events)
HistoryOK == /\ arrived \in Seq(Frame) /\ begun \in Seq(Frame)
             /\ dropped \subseteq Frame

\* Every variable has its type; the three fixed goroutines always exist.
TypeOK == QueueOK /\ FlagsOK /\ TaskOK /\ EventsOK /\ HistoryOK

\* A process goroutine that has got past the look at its context: it may take
\* frames off the queue and handle them.
Working(g) == go[g].pc \notin {"top", "get", "exited"}

\* No two process goroutines ever take or handle frames at the same time,
\* whatever interruptions, withdrawals and teardown do: stopProcessTask's
\* reason for waiting without a bound.
OneHandler ==
    \A g, h \in Loops : Working(g) /\ Working(h) => g = h

\* No handler is called before the StartFrame's, nor before setting up is done,
\* however early the other frames were queued (startGate, the queue's tiers).
StartFirst ==
    begun # <<>> => isStartFrame(begun[1]) /\ setupDone

\* A frame that was still queued when an interruption replaced the process
\* goroutine is never handled, not even by the goroutine being stopped: get's
\* and takeCurFrame's look at the context, the wait, and the reset that follows.
DroppedNeverBegins == dropped \cap FramesOf(begun) = {}

\* Once Cleanup has returned and the input goroutine has exited, no process
\* goroutine handles anything, whichever of the two stopped it.
CleanupIsFinal ==
    (go[Life].pc = "down" /\ go[Input].pc \in {"none", "exited"}) =>
        \A g \in Loops : ~Working(g)

\* The handler of f was called and the base handler has returned.
Handling == HandlerPcs \ {"finish", "after"}
BaseDone(f) == /\ f \in FramesOf(begun)
               /\ \A g \in Goroutines :
                      go[g].frame = f => go[g].pc \notin Handling

\* Once a CancelFrame has been handled the processor handles no data or control
\* frame any more (frames/system.go: a CancelFrame stops the pipeline "without
\* processing any remaining queued frames"), tearing down aside, which waits for
\* the process goroutine itself, until the handler of a StartFrame or an
\* interruption begins: createProcessTask starts a process goroutine whether or
\* not the processor was canceled, and it takes up what reset has spared.
CancelIsFinal ==
    \A i \in DOMAIN begun :
        (/\ ~baseDone
         /\ Kind[begun[i]] = "cancel" /\ BaseDone(begun[i])
         /\ \A k \in DOMAIN begun : k > i => Kind[begun[k]] \notin {"start", "interruption"})
        => \A g \in Loops : go[g].pc \notin HandlerPcs

TearingDown == go[Life].pc \notin {"new", "settingUp", "finishing", "up"}

\* Whichever comes last, the StartFrame or the end of setting up, the gate opens
\* and the StartFrame is handled (maybeOpenStartGate is called by both).
StartsEventually ==
    (startReceived /\ go[Life].pc \in {"settingUp", "finishing", "up"})
        ~> (begun # <<>> \/ TearingDown)

\* An interruption that was taken up is over some time later, whatever the
\* process goroutine was doing or waiting for.
InterruptionReturns ==
    (go[Input].pc = "interrupt") ~> (go[Input].pc \in {"get", "exited"})

\* An uninterruptible frame that was queued is handled sooner or later, unless
\* the processor is canceled or torn down: it may be held with every other frame
\* and given back by one process goroutine after another, but not for ever.
UninterruptibleHandled ==
    \A f \in Frame : (~Interruptible(f) /\ sent[f] = "queued" /\ startGate)
        ~> (f \in FramesOf(begun) \/ canceling \/ TearingDown)
=============================================================================
