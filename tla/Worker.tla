------------------------------- MODULE Worker -------------------------------
(***************************************************************************)
(* One run of a pipeline worker (pipeline/worker.go, monitors.go,          *)
(* setup.go): setting the processors up while the StartFrame is already on *)
(* its way, the run loop, ending, canceling, the caller's context ending,  *)
(* the flush probe, the monitors and the teardown.                         *)
(*                                                                         *)
(* Between the worker's source and its sink stands a chain of processors   *)
(* 1..N, each a queue and a handler (module Processor has what happens     *)
(* inside one; here handling a frame is one step).  Source, sink and the   *)
(* pipeline itself are in direct mode, so sourcePush and sinkPush run on   *)
(* the goroutine of the processor that pushed.  The last processor answers *)
(* a frame "d" by pushing "u" upstream, and the first answers "u" with "r" *)
(* downstream: the work started upstream that a flush has to wait for.     *)
(***************************************************************************)
EXTENDS Integers, Sequences, FiniteSets

CONSTANTS N,            \* the number of processors between source and sink
          MaxFlush,     \* how many times Flush may be called
          Inputs        \* what the callers and the processors may do, each once

ASSUME NAssumption == N \in Nat /\ N >= 2
ASSUME MaxFlushAssumption == MaxFlush \in Nat
ASSUME InputsAssumption ==
    Inputs \subseteq {"d", "interrupt", "end", "stop", "endWorker", "cancel",
                      "contextEnd", "wedge", "idle", "heartbeats"}

Proc == 1..N
Flush == 1..MaxFlush

(***************************************************************************)
(* The frames.  A probe is a frame per leg of its flush's trip: "probe"    *)
(* goes down, "bounce" up, "returning" down again.  "echo" is the worker   *)
(* frame the sink sends back up.                                           *)
(***************************************************************************)
Fr(k) == [kind |-> k, flush |-> 0]
Probe(k, i) == [kind |-> k, flush |-> i]

Legs == {"probe", "bounce", "returning"}
Plain == {"start", "d", "u", "r", "heartbeat", "interrupt", "end", "stop",
          "endWorker", "echo", "cancel"}
WorkerFrame == {Fr(k) : k \in Plain} \cup {Probe(k, i) : k \in Legs, i \in Flush}

QueueKind == [f \in WorkerFrame |->
    CASE f.kind = "start" -> "start"
      [] f.kind = "interrupt" -> "interruption"
      [] f.kind = "cancel" -> "cancel"
      [] f.kind = "end" -> "end"
      [] f.kind \in {"d", "u", "r", "heartbeat"} -> "data"
      [] OTHER -> "kept"]

Q == INSTANCE FrameQueue
        WITH Frame <- WorkerFrame, Kind <- QueueKind, NoFrame <- Fr("none")

goesUp(f) == f.kind \in {"u", "bounce", "echo"}

isPipelineEnd(f) == f.kind \in {"end", "stop", "cancel"}

VARIABLES
    run,        \* where Run is
    endFrame,   \* the frame that ended the run, or "none"
    sig,        \* the signals raised so far, each at most once:
                \*   "started" startedSig, "start" startSig, "end" endSig,
                \*   "cancel" cancelSig, "canceling", "finished", "context"
                \*   (the caller's context ended), "event" (the finished event)
    cancelFrame,\* a CancelFrame was put into the pipeline by the run loop
    startPush,  \* the StartFrame's own goroutine: "idle", "pending", "pushed"
                \* or "stopped"
    pushQueue,  \* the frames queued on the worker
    setup,      \* per processor: "no", "began", "done"
    released,   \* per processor: SetupFinished was called
    abandoned,  \* setting up was given up
    cleaned,    \* per processor: "no", "yes" (its Cleanup ran), "left" (still setting up)
    inbox,      \* per processor: its queue
    opened,     \* the processors that handled the StartFrame
    told,       \* the processors that handled a frame that ends the pipeline
    canceled,   \* the processors, and 0 for the pipeline itself, that handled a
                \* CancelFrame
    wedged,     \* the processors whose input goroutine is stuck in a handler
    starting,   \* the sink is between startedSig and startSig
    mon,        \* the monitor goroutines running
    monStopped, \* the monitors' scope is closed
    flush,      \* per call of Flush: "no", "startWait", "waiting", "nil", "gaveUp"
    moved,      \* per call: a frame reached the sink since it last looked
    left,       \* the inputs still to come
    looped,     \* history: the run loop was entered
    late,       \* history: the wait for a CancelFrame timed out
    hasty,      \* history: the wind-down was over before setting up had begun
    strays,     \* history: the monitors still running when the wait for them timed out
    owed        \* history, per call: what Flush has to wait for

vars == <<run, endFrame, sig, cancelFrame, startPush, pushQueue, setup, released,
          abandoned, cleaned, inbox, opened, told, canceled, wedged, starting, mon,
          monStopped, flush, moved, left, looped, late, hasty, strays, owed>>

histVars == <<looped, late, hasty, strays>>
runVars == <<run, endFrame, cancelFrame, histVars>>
setupVars == <<setup, released, abandoned, startPush>>
pipeVars == <<inbox, opened, told, canceled, starting>>
flushVars == <<flush, moved, owed>>

Raised(s) == s \in sig
WaitingCancel == {"waitCancel", "waitCancelAgain"}

(***************************************************************************)
(* Work a flush must wait for: "d" and what follows from it.               *)
(***************************************************************************)
Work == {Fr("d"), Fr("u"), Fr("r")}

Queued(q) == Q!FramesOf(q.start) \cup Q!FramesOf(q.system) \cup Q!FramesOf(q.other)

InFlight == Q!FramesOf(pushQueue) \cup UNION {Queued(inbox[p]) : p \in Proc}

Init ==
    /\ run = "new" /\ endFrame = "none" /\ sig = {} /\ cancelFrame = FALSE
    /\ startPush = "idle" /\ pushQueue = <<>>
    /\ setup = [p \in Proc |-> "no"] /\ released = {} /\ abandoned = FALSE
    /\ cleaned = [p \in Proc |-> "no"]
    /\ inbox = [p \in Proc |-> Q!newQueue]
    /\ opened = {} /\ told = {} /\ canceled = {} /\ wedged = {} /\ starting = FALSE
    /\ mon = {} /\ monStopped = FALSE
    /\ flush = [i \in Flush |-> "no"] /\ moved = [i \in Flush |-> FALSE]
    /\ owed = [i \in Flush |-> FALSE]
    /\ left = Inputs /\ looped = FALSE /\ late = FALSE /\ hasty = FALSE /\ strays = {}

(***************************************************************************)
(* Putting a frame in a queue.  A processor that was canceled, and the     *)
(* pipeline once a CancelFrame went in, take nothing more.                 *)
(***************************************************************************)
Put(q, p, f) == IF p \in Proc /\ p \notin canceled
                THEN [q EXCEPT ![p] = Q!push(@, f)] ELSE q

\* pipeline.QueueFrame: the frame goes through the source to the first processor.
Enter(q, f) == IF 0 \in canceled THEN q ELSE Put(q, 1, f)

\* A CancelFrame cancels the pipeline, which is in direct mode, as it enters.
EnterCancels(f) == IF f.kind = "cancel" THEN canceled \cup {0} ELSE canceled

(***************************************************************************)
(* Canceling: cancelWithReason, at most once, and only before the run is   *)
(* over.  It is reached from Cancel, from a fatal error or a worker frame  *)
(* at the source and from the idle monitor.                                *)
(***************************************************************************)
cancelWithReason ==
    IF Raised("canceling") \/ Raised("finished")
    THEN UNCHANGED <<sig, pushQueue>>
    ELSE /\ sig' = sig \cup {"canceling", "cancel", "start"}
         /\ pushQueue' = Append(pushQueue, Fr("cancel"))

Input(k) == k \in left /\ left' = left \ {k}

Cancel ==
    /\ Input("cancel")
    /\ cancelWithReason
    /\ UNCHANGED <<runVars, setupVars, pipeVars, flushVars, cleaned, wedged, mon,
                   monStopped>>

\* idleMonitorLoop: its timer may win against the scope closing, and it may be in the
\* middle of reporting the silence when the scope closes.
IdleTimeout ==
    /\ "idle" \in mon
    /\ cancelWithReason
    /\ mon' = mon \ {"idle"}
    /\ UNCHANGED <<runVars, setupVars, pipeVars, flushVars, cleaned, wedged, left,
                   monStopped>>

\* QueueFrame by a caller, StopWhenDone and HandleWorkerEnd included.
QueueFrame ==
    /\ \E k \in {"d", "end", "stop"} :
         Input(k) /\ pushQueue' = Append(pushQueue, Fr(k))
    /\ UNCHANGED <<runVars, sig, setupVars, pipeVars, flushVars, cleaned, wedged,
                   mon, monStopped>>

\* A processor queues a frame of its own accord: an EndWorkerFrame pushed
\* downstream, or an interruption, which reaches every processor from the first.
ProcessorPushes ==
    /\ opened = Proc
    /\ \E k \in {"endWorker", "interrupt"} :
         Input(k) /\ inbox' = Enter(inbox, Fr(k))
    /\ UNCHANGED <<runVars, sig, pushQueue, setupVars, opened, told, canceled,
                   starting, flushVars, cleaned, wedged, mon, monStopped>>

\* The caller's context ends.
ContextEnd ==
    /\ run # "new"
    /\ Input("contextEnd")
    /\ sig' = sig \cup {"context"}
    /\ UNCHANGED <<runVars, pushQueue, setupVars, pipeVars, flushVars, cleaned,
                   wedged, mon, monStopped>>

\* A processor's input goroutine never comes back from a handler; only Cleanup,
\* whose wait for it is bounded, gets past it.
Wedge ==
    /\ Input("wedge")
    /\ \E p \in opened : wedged' = wedged \cup {p}
    /\ UNCHANGED <<runVars, sig, pushQueue, setupVars, pipeVars, flushVars, cleaned,
                   mon, monStopped>>

(***************************************************************************)
(* Setting up (startPipeline, setupProcessors).                            *)
(***************************************************************************)
RunBegin ==
    /\ run = "new"
    /\ run' = "setup"
    /\ startPush' = "pending"
    /\ UNCHANGED <<endFrame, sig, cancelFrame, histVars, pushQueue, setup, released,
                   abandoned, pipeVars, flushVars, cleaned, wedged, mon, monStopped,
                   left>>

\* begin, SetupStarted for all, and only then the pipeline lets the StartFrame in.
setupProcessors ==
    /\ run # "new" /\ setup = [p \in Proc |-> "no"]
    /\ setup' = [p \in Proc |-> "began"]
    /\ UNCHANGED <<runVars, sig, pushQueue, released, abandoned, startPush, pipeVars,
                   flushVars, cleaned, wedged, mon, monStopped, left>>

setupBegan == setup # [p \in Proc |-> "no"]
setupDone == \A p \in Proc : setup[p] = "done"

\* One processor's Setup returns.  It is released unless setting up was abandoned.
SetupReturns(p) ==
    /\ setup[p] = "began"
    /\ setup' = [setup EXCEPT ![p] = "done"]
    /\ released' = IF abandoned THEN released ELSE released \cup {p}
    /\ UNCHANGED <<runVars, sig, pushQueue, abandoned, startPush, pipeVars, flushVars,
                   cleaned, wedged, mon, monStopped, left>>

\* The goroutine that pushes the StartFrame gets it past the pipeline's own hold.
PushStart ==
    /\ startPush = "pending" /\ setupBegan
    /\ startPush' = "pushed"
    /\ inbox' = Enter(inbox, Fr("start"))
    /\ UNCHANGED <<runVars, sig, pushQueue, setup, released, abandoned, opened, told,
                   canceled, starting, flushVars, cleaned, wedged, mon, monStopped,
                   left>>

\* startPipeline returns: the deferred stopStart gives up on pushing the StartFrame.
stopStart == startPush' = IF startPush = "pending" THEN "stopped" ELSE startPush

spawn_always(m) == mon \cup {m}

\* spawn: refused once the scope is closed.
spawn(m) == IF monStopped \/ run = "new" THEN mon ELSE mon \cup {m}

EnterLoop ==
    /\ run' = "loop" /\ looped' = TRUE
    /\ mon' = IF "idle" \in Inputs THEN spawn("idle") ELSE mon

\* Setting up is over one way or another: the select of startPipeline.
SetupEnds ==
    /\ run = "setup"
    /\ \/ /\ setupDone
          /\ run' = "start"
          /\ UNCHANGED <<abandoned, startPush, looped, mon>>
       \/ /\ Raised("cancel") \/ Raised("context")     \* hasStarted: go on
          /\ Raised("started") /\ setupDone
          /\ stopStart /\ EnterLoop
          /\ UNCHANGED abandoned
       \/ /\ ~Raised("started") /\ (Raised("cancel") \/ Raised("context"))
          /\ run' = "windDown" /\ abandoned' = TRUE
          /\ UNCHANGED <<startPush, looped, mon>>
    /\ UNCHANGED <<endFrame, sig, cancelFrame, late, hasty, strays, pushQueue, setup,
                   released, pipeVars, flushVars, cleaned, wedged, monStopped, left>>

SetupTimeout ==
    /\ run = "setup"
    /\ run' = "windDown" /\ abandoned' = TRUE
    /\ UNCHANGED <<endFrame, sig, cancelFrame, histVars, pushQueue, setup, released,
                   startPush, pipeVars, flushVars, cleaned, wedged, mon, monStopped,
                   left>>

\* giveUp: the processors told to stop have a second to do so, counted whether or
\* not setting up has begun by then.
WindDown ==
    /\ run = "windDown"
    /\ run' = "stopMonitors" /\ stopStart
    /\ hasty' = ~setupBegan
    /\ UNCHANGED <<endFrame, sig, cancelFrame, looped, late, strays, pushQueue, setup,
                   released, abandoned, pipeVars, flushVars, cleaned, wedged, mon,
                   monStopped, left>>

waitForStart ==
    /\ run = "start" /\ stopStart
    /\ \/ Raised("started") /\ EnterLoop
       \/ /\ ~Raised("started") /\ (Raised("cancel") \/ Raised("context"))
          /\ run' = "stopMonitors" /\ UNCHANGED <<looped, mon>>
    /\ UNCHANGED <<endFrame, sig, cancelFrame, late, hasty, strays, pushQueue, setup,
                   released, abandoned, pipeVars, flushVars, cleaned, wedged, monStopped,
                   left>>

\* The start timeout: the pipeline is torn down without a CancelFrame, and the
\* StartFrame may still be on its way to the sink.
StartTimeout ==
    /\ run = "start" /\ stopStart
    /\ run' = "stopMonitors"
    /\ UNCHANGED <<endFrame, sig, cancelFrame, histVars, pushQueue, setup, released,
                   abandoned, pipeVars, flushVars, cleaned, wedged, mon, monStopped,
                   left>>

(***************************************************************************)
(* The run loop, and the wait for the frame that ends it.                  *)
(***************************************************************************)
runLoop ==
    /\ run = "loop" /\ pushQueue # <<>>
    /\ LET f == Head(pushQueue) IN
         /\ pushQueue' = Tail(pushQueue)
         /\ inbox' = Enter(inbox, f)
         /\ canceled' = EnterCancels(f)
         /\ IF isPipelineEnd(f)
            THEN /\ run' = IF f.kind = "cancel" THEN "waitCancel" ELSE "waitEnd"
                 /\ endFrame' = f.kind
                 /\ cancelFrame' = (f.kind = "cancel")
            ELSE UNCHANGED <<run, endFrame, cancelFrame>>
    /\ UNCHANGED <<sig, histVars, setupVars, opened, told, starting, flushVars,
                   cleaned, wedged, mon, monStopped, left>>

\* An EndFrame or a StopFrame is waited out in full.
waitPipelineEnd ==
    /\ run = "waitEnd" /\ Raised("end")
    /\ run' = "stopMonitors"
    /\ UNCHANGED <<endFrame, sig, cancelFrame, histVars, pushQueue, setupVars, pipeVars,
                   flushVars, cleaned, wedged, mon, monStopped, left>>

\* The wait for a CancelFrame ends when it arrives or times out, and reports the
\* run finished either way.
CancelArrived ==
    /\ run \in WaitingCancel /\ Raised("end")
    /\ run' = "stopMonitors" /\ sig' = sig \cup {"event"}
    /\ UNCHANGED <<endFrame, cancelFrame, histVars, pushQueue, setupVars, pipeVars,
                   flushVars, cleaned, wedged, mon, monStopped, left>>

CancelTimeout_none == run = "never" /\ UNCHANGED vars

CancelTimeout ==
    /\ run \in WaitingCancel
    /\ run' = "stopMonitors" /\ sig' = sig \cup {"event"} /\ late' = TRUE
    /\ UNCHANGED <<endFrame, cancelFrame, looped, hasty, strays, pushQueue, setupVars, pipeVars,
                   flushVars, cleaned, wedged, mon, monStopped, left>>

cancelOnContextEnd_untold ==
    /\ Raised("context")
    /\ run = "loop" /\ pushQueue = <<>>
    /\ run' = "stopMonitors"
    /\ UNCHANGED <<endFrame, sig, cancelFrame, histVars, pushQueue, setupVars, pipeVars,
                   flushVars, cleaned, wedged, mon, monStopped, left>>

\* The context ended while the run loop waited for a frame, or for the frame that
\* ends the pipeline: the waiting returns (reporting the run finished when it was
\* a CancelFrame it waited for) and cancelOnContextEnd waits for the CancelFrame
\* already sent, or puts one straight into the pipeline and waits for that.
\* The first processor has a queue here, so the pipeline always takes the frame.
cancelOnContextEnd ==
    /\ Raised("context")
    /\ \/ run = "loop" /\ pushQueue = <<>>
       \/ run \in {"waitEnd", "waitCancel"}
    /\ run' = "waitCancelAgain" /\ endFrame' = "cancel"
    /\ sig' = sig \cup {"canceling"}
                  \cup (IF run = "waitCancel" THEN {"event"} ELSE {})
    /\ IF cancelFrame
       THEN UNCHANGED <<inbox, canceled, cancelFrame>>
       ELSE /\ inbox' = Enter(inbox, Fr("cancel"))
            /\ canceled' = EnterCancels(Fr("cancel"))
            /\ cancelFrame' = TRUE
    /\ UNCHANGED <<histVars, pushQueue, setupVars, opened, told, starting, flushVars,
                   cleaned, wedged, mon, monStopped, left>>

(***************************************************************************)
(* The monitors (monitors.go) and the teardown.                            *)
(***************************************************************************)
monitorsStop ==
    /\ run = "stopMonitors" /\ ~monStopped
    /\ monStopped' = TRUE
    /\ UNCHANGED <<runVars, sig, pushQueue, setupVars, pipeVars, flushVars, cleaned,
                   wedged, mon, left>>

MonitorExits(m) ==
    /\ m \in mon /\ monStopped
    /\ mon' = mon \ {m}
    /\ UNCHANGED <<runVars, sig, pushQueue, setupVars, pipeVars, flushVars, cleaned,
                   wedged, monStopped, left>>

\* The heartbeat pusher puts one frame after another straight into the pipeline;
\* at most one is on its way at a time here.
heartbeatPushLoop ==
    /\ "heartbeat" \in mon
    /\ \A p \in Proc : Fr("heartbeat") \notin Queued(inbox[p])
    /\ inbox' = Enter(inbox, Fr("heartbeat"))
    /\ UNCHANGED <<runVars, sig, pushQueue, setupVars, opened, told, canceled, starting,
                   flushVars, cleaned, wedged, mon, monStopped, left>>

\* The monitors are gone: clean up, unless a StopFrame keeps the processors.
tearDown == run' = IF endFrame = "stop" THEN "afterCleanup" ELSE "cleanup"

Teardown ==
    /\ run = "stopMonitors" /\ monStopped /\ mon = {}
    /\ tearDown
    /\ UNCHANGED <<endFrame, sig, cancelFrame, histVars, pushQueue, setupVars, pipeVars,
                   flushVars, cleaned, wedged, mon, monStopped, left>>

\* A monitor wedged in a call, or slow, is waited for no longer: the teardown goes on
\* beside it.
MonitorStopTimeout ==
    /\ run = "stopMonitors" /\ monStopped /\ mon # {}
    /\ tearDown
    /\ strays' = mon
    /\ UNCHANGED <<endFrame, sig, cancelFrame, looped, late, hasty, pushQueue, setupVars,
                   pipeVars, flushVars, cleaned, wedged, mon, monStopped, left>>

settled_always(p) == setup[p] \in {"no", "began", "done"}

\* settled: a processor still inside its own Setup is left where it is.
settled(p) == setup[p] \in {"no", "done"}

cleanupProcessor(p) ==
    /\ run = "cleanup" /\ cleaned[p] = "no"
    /\ cleaned' = [cleaned EXCEPT ![p] = IF settled(p) THEN "yes" ELSE "left"]
    /\ UNCHANGED <<runVars, sig, pushQueue, setupVars, pipeVars, flushVars, wedged,
                   mon, monStopped, left>>

Finish ==
    /\ \/ run = "cleanup" /\ \A p \in Proc : cleaned[p] # "no"
       \/ run = "afterCleanup"
    /\ run' = "done" /\ sig' = sig \cup {"finished"}
    /\ UNCHANGED <<endFrame, cancelFrame, histVars, pushQueue, setupVars, pipeVars,
                   flushVars, cleaned, wedged, mon, monStopped, left>>

(***************************************************************************)
(* The processors.  A processor takes the first frame of its queue once    *)
(* the StartFrame is there and its setup was released, and passes it on.   *)
(***************************************************************************)
CanTake(p) ==
    /\ p \notin wedged /\ cleaned[p] # "yes"
    /\ ~Q!isEmpty(inbox[p])
    /\ p \in opened \/ (Q!startsNext(inbox[p]) /\ p \in released)
    /\ ~(p = N /\ starting)

\* What the base handler may make of the processor's own queue: an interruption
\* drops what may be dropped of the frames handed on to the process goroutine by
\* then, a CancelFrame stops everything.
OwnQueues(p, f) ==
    LET rest == Q!get(inbox[p])
        cut(n) == [rest EXCEPT !.other = Q!keep(SubSeq(@, 1, n))
                                          \o SubSeq(@, n + 1, Len(@))]
    IN  CASE f.kind = "interrupt" -> {cut(n) : n \in 0..Len(rest.other)}
          [] f.kind = "cancel" -> {Q!newQueue}
          [] OTHER -> {rest}

\* What the sink sends back up (advanceFlushProbe, workerFrameEcho).
SentBack(f) == CASE f.kind = "probe" -> <<Probe("bounce", f.flush)>>
                 [] f.kind = "endWorker" -> <<Fr("echo")>>
                 [] OTHER -> <<>>

\* What the processor p pushes upstream while it handles f: the answer to "d" of
\* the last one, and what the sink sends back.
PushedUp(p, f) == IF p = N /\ f.kind = "d" THEN <<Fr("u")>> ELSE <<>>

PutAll(q, p, fs) == IF fs = <<>> THEN q ELSE Put(q, p, Head(fs))

Took_neighbour(p, f) ==
    /\ opened' = IF f.kind = "start" THEN opened \cup {p} ELSE opened
    /\ told' = IF isPipelineEnd(f) THEN told \cup {p} ELSE told
    /\ canceled' = IF f.kind = "cancel" THEN canceled \cup {p, p + 1} ELSE canceled

Took(p, f) ==
    /\ opened' = IF f.kind = "start" THEN opened \cup {p} ELSE opened
    /\ told' = IF isPipelineEnd(f) THEN told \cup {p} ELSE told
    /\ canceled' = IF f.kind = "cancel" THEN canceled \cup {p} ELSE canceled

CloseDone_any(i) == flush' = [j \in Flush |-> IF flush[j] = "waiting" THEN "nil" ELSE flush[j]]

\* The probe of a flush completes its trip: whoever waits on that flush returns.
CloseDone(i) == flush' = [flush EXCEPT ![i] = IF @ = "waiting" THEN "nil" ELSE @]

\* The frame reaches the end of the pipeline.
sinkPush(f) ==
    /\ moved' = IF f.kind = "heartbeat" THEN moved ELSE [i \in Flush |-> TRUE]
    /\ IF f.kind = "returning" THEN CloseDone(f.flush) ELSE UNCHANGED flush
    /\ starting' = (f.kind = "start")
    /\ sig' = sig \cup CASE f.kind = "start" -> {"started"}
                         [] f.kind \in {"end", "stop"} -> {"event", "end"}
                         [] f.kind = "cancel" -> {"end"}
                         [] OTHER -> {}
    /\ UNCHANGED <<pushQueue, owed>>

HandleDown(p) ==
    /\ CanTake(p)
    /\ LET f == Q!head(inbox[p])
       IN /\ ~goesUp(f)
          /\ Took(p, f)
          /\ \E q \in OwnQueues(p, f) :
               LET own == PutAll([inbox EXCEPT ![p] = q], p - 1, PushedUp(p, f))
               IN  IF p < N
                   THEN /\ inbox' = Put(own, p + 1, f)
                        /\ UNCHANGED <<sig, pushQueue, starting, flushVars>>
                   ELSE inbox' = PutAll(own, p, SentBack(f)) /\ sinkPush(f)
    /\ UNCHANGED <<runVars, setupVars, cleaned, wedged, mon, monStopped, left>>

\* The sink's handling of the StartFrame goes on: the heartbeats start, and then
\* whoever waits for the pipeline to have started is released.
SinkStarted ==
    /\ starting
    /\ starting' = FALSE
    /\ mon' = IF "heartbeats" \in Inputs THEN spawn("heartbeat") ELSE mon
    /\ sig' = sig \cup {"start"}
    /\ UNCHANGED <<runVars, pushQueue, setupVars, inbox, opened, told, canceled,
                   flushVars, cleaned, wedged, monStopped, left>>

\* The first processor answers "u" itself; what else goes upstream from it
\* reaches the source, unless that was canceled.
sourcePush(f, own) ==
    CASE f.kind = "u" ->
           /\ inbox' = Put(own, 2, Fr("r")) /\ UNCHANGED pushQueue
      [] f.kind = "bounce" /\ 0 \notin canceled ->
           /\ inbox' = Put(own, 1, Probe("returning", f.flush)) /\ UNCHANGED pushQueue
      [] f.kind = "echo" /\ 0 \notin canceled ->
           /\ inbox' = own /\ pushQueue' = Append(pushQueue, Fr("end"))
      [] OTHER -> inbox' = own /\ UNCHANGED pushQueue

HandleUp(p) ==
    /\ CanTake(p)
    /\ LET f == Q!head(inbox[p])
           own == [inbox EXCEPT ![p] = Q!get(@)]
       IN /\ goesUp(f)
          /\ IF p > 1 THEN inbox' = Put(own, p - 1, f) /\ UNCHANGED pushQueue
             ELSE sourcePush(f, own)
    /\ UNCHANGED <<runVars, sig, setupVars, opened, told, canceled, starting, flushVars,
                   cleaned, wedged, mon, monStopped, left>>

(***************************************************************************)
(* Flush.  One call follows another here.                                  *)
(***************************************************************************)
FlushCall(i) ==
    /\ flush[i] = "no"
    /\ \A j \in 1..(i - 1) : flush[j] \in {"nil", "gaveUp"}
    /\ flush' = [flush EXCEPT ![i] = "startWait"]
    /\ UNCHANGED <<runVars, sig, pushQueue, setupVars, pipeVars, moved, owed, cleaned,
                   wedged, mon, monStopped, left>>

FlushProbe(i) ==
    /\ flush[i] = "startWait" /\ Raised("start")
    /\ flush' = [flush EXCEPT ![i] = "waiting"]
    /\ moved' = [moved EXCEPT ![i] = FALSE]
    /\ owed' = [owed EXCEPT ![i] = Work \cap InFlight # {}]
    /\ pushQueue' = Append(pushQueue, Probe("probe", i))
    /\ UNCHANGED <<runVars, sig, setupVars, pipeVars, cleaned, wedged, mon, monStopped,
                   left>>

\* The no-progress timer: give up if nothing reached the sink since the last look.
FlushTimer(i) ==
    /\ flush[i] = "waiting"
    /\ IF moved[i]
       THEN moved' = [moved EXCEPT ![i] = FALSE] /\ UNCHANGED flush
       ELSE flush' = [flush EXCEPT ![i] = "gaveUp"] /\ UNCHANGED moved
    /\ UNCHANGED <<runVars, sig, pushQueue, setupVars, pipeVars, owed, cleaned, wedged,
                   mon, monStopped, left>>

RunStep ==
    \/ RunBegin \/ setupProcessors \/ PushStart \/ SetupEnds \/ SetupTimeout
    \/ WindDown \/ waitForStart \/ StartTimeout \/ runLoop \/ waitPipelineEnd
    \/ CancelArrived \/ CancelTimeout \/ cancelOnContextEnd \/ monitorsStop
    \/ Teardown \/ MonitorStopTimeout \/ Finish \/ \E p \in Proc : cleanupProcessor(p)

MonitorStep == IdleTimeout \/ heartbeatPushLoop \/ \E m \in mon : MonitorExits(m)

ProcessorStep(p) == HandleDown(p) \/ HandleUp(p)

Environment == Cancel \/ QueueFrame \/ ProcessorPushes \/ ContextEnd \/ Wedge

Next ==
    \/ Environment
    \/ RunStep
    \/ MonitorStep
    \/ SinkStarted
    \/ \E p \in Proc : SetupReturns(p) \/ ProcessorStep(p)
    \/ \E i \in Flush : FlushCall(i) \/ FlushProbe(i) \/ FlushTimer(i)

Spec == Init /\ [][Next]_vars

\* Goroutines are scheduled and timers fire.  Nothing is assumed of how long a
\* processor takes to set up, of the callers or of the monitors.
Fairness ==
    /\ WF_vars(RunStep) /\ WF_vars(SinkStarted)
    /\ \A p \in Proc : WF_vars(ProcessorStep(p))
    /\ \A i \in Flush : WF_vars(FlushProbe(i)) /\ WF_vars(FlushTimer(i))

FairSpec == Spec /\ Fairness

(***************************************************************************)
(* Properties.                                                             *)
(***************************************************************************)
RunState == {"new", "setup", "windDown", "start", "loop", "waitEnd", "waitCancel",
             "waitCancelAgain", "stopMonitors", "cleanup", "afterCleanup", "done"}

\* Every variable has its type; what was canceled is the pipeline or one of its
\* processors.
TypeOK ==
    /\ run \in RunState /\ endFrame \in {"none", "end", "stop", "cancel"}
    /\ sig \subseteq {"started", "start", "end", "cancel", "canceling", "finished",
                      "context", "event"}
    /\ {cancelFrame, abandoned, starting, monStopped, looped, late, hasty} \subseteq BOOLEAN
    /\ startPush \in {"idle", "pending", "pushed", "stopped"}
    /\ pushQueue \in Seq(WorkerFrame)
    /\ setup \in [Proc -> {"no", "began", "done"}]
    /\ cleaned \in [Proc -> {"no", "yes", "left"}]
    /\ released \subseteq Proc /\ opened \subseteq Proc /\ told \subseteq Proc
    /\ canceled \subseteq 0..N /\ wedged \subseteq Proc
    /\ inbox \in [Proc -> Q!Queue]
    /\ mon \subseteq {"idle", "heartbeat"} /\ strays \subseteq {"idle", "heartbeat"}
    /\ flush \in [Flush -> {"no", "startWait", "waiting", "nil", "gaveUp"}]
    /\ moved \in [Flush -> BOOLEAN] /\ owed \in [Flush -> BOOLEAN]
    /\ left \subseteq Inputs

\* A processor is never cleaned up while its own Setup is still running, however
\* setting up was given up (setupTracker), as long as setting up began within the
\* second that giveUp leaves it: nothing in the code makes a setup that begins later
\* heed a cleanup.
SetupCleanupApart ==
    ~hasty => \A p \in Proc : cleaned[p] = "yes" => setup[p] # "began"

\* While the pipeline is being torn down, and afterwards, no monitor runs that could
\* push a heartbeat into it but those the wait for them was given up on; none is
\* started, even when the StartFrame that starts the heartbeats reaches the sink only
\* then (monitors.spawn and stop).
MonitorsGone == run \in {"cleanup", "afterCleanup", "done"} => mon \subseteq strays

\* Unless the wait for the CancelFrame timed out, no processor of a pipeline that
\* ran is cleaned up before it was told that the pipeline is over: also when the
\* caller's context, a cancel and an EndFrame on its way cross (cancelOnContextEnd).
ToldBeforeCleanup ==
    \A p \in Proc : looped /\ ~late /\ cleaned[p] = "yes" => p \in told

\* When Flush returns nil, everything queued ahead of it has been handled, the
\* answer to work that was started by pushing upstream included; the probe of an
\* earlier flush that was given up does not count (advanceFlushProbe).
FlushCovers ==
    \A i \in Flush : flush[i] = "nil" /\ owed[i] => Work \cap InFlight = {}

EndAsked == {"end", "stop", "endWorker"} \cap (Inputs \ left) # {}

\* A cancel ends the run, even if a processor or a monitor is wedged or setting up
\* never finishes, as long as no EndFrame or StopFrame was queued.
CancelReturns == Raised("cancel") /\ run # "new" ~> run = "done" \/ EndAsked
=============================================================================
