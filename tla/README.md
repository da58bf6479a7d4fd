# A TLA+ verification of jargo's engine

jargo is a Go framework for voice agents. Audio, text and control events travel as *frames*
through a chain of *processors*, each with goroutines and queues of its own; an interruption
(the user starts to speak) must cut short whatever the chain is doing without losing what must
not be lost. This directory models the engine that makes that work, checks it with TLC on small
instances, and proves the core properties with TLAPS for every instance.

## 1. Inventory

### The engine

| Component | State | Operations | Interacts with | Hard behaviour | What makes it correct |
|---|---|---|---|---|---|
| Frame queue (`processor/queue.go`, `frames/frames.go`) | three tiers: StartFrame, system, other | push, get, requeue, reset | both goroutines of a processor, callers of QueueFrame | a frame taken off and put back; a reset between the two | order within a tier, no uninterruptible frame dropped |
| Processor (`processor/processor.go`) | input and process queue, start gate, current frame, process goroutine and its cancel, canceling, base context | Setup, QueueFrame, input loop, process loop, interruption, cancel, CancelFrameInProgress, BroadcastInterruption, Cleanup | neighbours (QueueFrame), its own two goroutines, the pipeline's set-up and tear-down goroutine | an interruption against a frame being taken, handled, given back; waits that must end; cancel and teardown beside both | one handler at a time, order, nothing uninterruptible lost, nothing dropped handled, everything starts and ends |
| Pause gates (`processor/pause.go`) | two flags, two events, pending resume, watcher | pause/resume by call or by frame, hold all frames until ready | both goroutines, the watcher, Cleanup | flag, event and wait are not atomic; the event is replaced by an interruption | a pause holds, a resume releases, a hold is always lifted |
| Pipeline and set-up (`pipeline/pipeline.go`, `setup.go`) | which processors have settled | concurrent Setup, Cleanup, routing | every processor of the chain | one processor never finishes setting up | cleanup never beside an unfinished setup of the same processor |
| Parallel pipeline (`pipeline/parallel.go`) | seen, counter, syncing, buffer, the gates | ProcessFrame (fan-out), emit, sinkPush, flush | its branches' goroutines call back into it | branches report in any order; a CancelFrame overtakes an EndFrame | every frame once, StartFrame first, EndFrame last, gates reopen |
| Synchronised parallel pipeline (`pipeline/syncparallel.go`) | a queue per branch end, sync frames | ProcessFrame, waitForSync, drain | its branches | an interruption drops a branch's sync frame; a stale one is taken for this round's | output of one input stays together, no round waits for ever |
| Worker (`pipeline/worker.go`, `monitors.go`) | started, finished, canceling, flush probes, heartbeat and idle timers | Run, QueueFrame, End, Cancel, Flush, sinkPush, sourcePush, bus messages | the pipeline's two ends, the runner, the bus | end against cancel, both against their timeouts; a probe that comes back after its flush gave up | ends exactly once, within the cancel timeout; a flush returns only when what was ahead of it is out |
| Runner, jobs (`workers/`, `pipeline/jobcontext`) | worker entries, job groups, running jobs | AddWorkers, Run, End, Cancel, automatic end, request/response/cancel/timeout of jobs | workers, bus, registry | the last root worker finishes while another is added; a cancel overtakes its request | no worker is left running or never awaited; a job group completes exactly once |
| Bus (`bus/`), registry (`registry/`) | subscriptions, a priority queue each; registered workers and watchers | Subscribe, Unsubscribe, Send, Start, Stop | workers, bridge processors | a system message overtakes data, and its handler runs beside the handler of one | no delivery after Unsubscribe, order per priority |
| Output transport (`transport/output.go`, `mediasender.go`, `framequeue.go`) | buffered audio, the queue being played, who has the floor, the drain's channel, the audio loop | audio, end of a turn, interruption, drain, stop, Cleanup | the processor's two goroutines, the audio loop, whoever tears down, the network | playing and cutting off at once; the end waits for the last audio; several stops at once; a peer that stops reading | nothing left when a drain returns, every start and stop of speech told once, the floor always given up, no loop left after a stop |
| Switchers (`pipeline/switcher.go`, `llmswitcher.go`) | active service, usable services | switch by frame, failover | the parallel pipeline they embed | a switch while frames are in flight | exactly one service gets a frame |

### Around the engine

Turn taking (`processor/turns`), context aggregators (`processor/aggregators`), the LLM, TTS and
STT bases (`service/`) keep state of their own that interruptions race with; they are the next
candidates. Observers, telemetry, metrics and tracing only watch. Providers (more than fifty),
concrete transports, audio processing, serializers, flows, evaluation, commands and examples are
I/O, signal processing or applications; `PROJECT.json` lists every one of them with the reason it
is left out. They are most of the repository's lines, so the modules here, which cover the
engine, cover a small share of those.

### How the parts interact

A processor hands a frame to its neighbour by calling the neighbour's `QueueFrame`, which only
pushes to a queue: so two processors never wait for each other, and everything that can go wrong
inside one processor goes wrong between *its* goroutines. That is why the model of one processor
is fine-grained (`Processor`) and the models of several of them coarser (`ParallelPipeline`,
`SyncParallel`, `Worker`, `MediaSender`). Three things do wait: whoever stops a process goroutine waits for it
without a bound; a goroutine waits at a closed pause gate; a parallel pipeline's lifecycle frame
waits for the slowest branch. Workers talk to each other and to the runner only over the bus, where
a system message overtakes every data message and its handler runs beside the handler of one.

## 2. Modules

| Module | Models | Uses |
|---|---|---|
| `Subsequence` | what filtering leaves of a queue, as an operator that can be reasoned about | |
| `FrameQueue` | the queue of a processor, as operators | `Subsequence` |
| `Processor` | one processor, fine-grained | `FrameQueue` |
| `OrderedDelivery` | abstract: what a processor promises whoever queues frames on it | |
| `Delivery` | the refinement mapping from `Processor` to `OrderedDelivery` | both |
| `ParallelPipeline` | a parallel pipeline over coarse processors | `FrameQueue` |
| `SyncParallel` | a synchronised parallel pipeline: rounds over coarse two-goroutine branches | `FrameQueue` |
| `Worker` | one run of a pipeline worker over a chain of coarse processors | `FrameQueue` |
| `Bus` | the subscriptions of the bus, as operators | |
| `Runner` | the runner and its workers | `Bus` |
| `Jobs` | jobs between workers | `Bus` |
| `MediaSender` | the output end of a transport | `Subsequence` |
| `MC...` | the instances TLC checks | one of the above |
| `SubsequenceProofs`, `FrameQueueProofs` | lemmas about the operators | the module they name |
| `ProcessorProofs`, `ParallelProofs`, `WorkerProofs`, `MediaSenderProofs`, `RunnerProofs`, `JobsProofs` | theorems | the module they name, and the lemmas |

Left for later, in this order: turn taking; the switcher; function calls across an interruption.

## 3. What is modelled

### `FrameQueue` (frames, `queue.go`)

A frame is a model value and `Kind` says what the engine can tell apart about it: its tier, whether
an interruption may drop it, what handling it does. A queue is a record of three sequences; push,
get, requeue and reset are operators on it. `reset` is written with `Pick` of `Subsequence`, which
places each survivor by counting the survivors before it, so that TLAPS can reason about it without
induction; `MCProcessor` and `MCMediaSender` check it against `SelectSeq` for every short queue
(`ResetIsSelect`).

### `Processor` (`processor.go`, `pause.go`)

`go` is the sequence of goroutines, each with a program counter, the frame it holds, what it waits
on (an event or a goroutine) and whether its context was canceled. 1 is the pipeline's goroutine
that sets up and tears down, 2 the watcher of `PauseProcessingAllFramesUntil`, 3 the input
goroutine; every further one is a process goroutine, and `stopProcessTask` always means the last.
One action is one critical section: `curMu`, `procMu`, `pauseMu`, an event's or a queue's mutex is
never held across actions, with one exception the code has too (`createProcessTask` holds `procMu`
from `Create` to `CreateFlush`; `procMuFree` guards the only other taker that can meet it).
Whatever is outside a lock in the code is a place where every other goroutine may run.

Details that matter and are kept: `get` looks at the context and then at the queue; a frame taken
becomes current only if its goroutine was not stopped since; `waitWhilePaused` reads flag and event
together, then waits, clears and lowers the flag in three steps; `resetProcessTask` replaces the
event; a broadcast interruption resets the gate and the queue but leaves the goroutine alone;
`QueueFrame` reads `canceling` before it pushes, so that a frame may still get in afterwards;
`cancelInputTask` gives up on the input goroutine after a timeout (`InputWaited` needs nothing).
A concrete processor's handler is the base handler for the kind of frame, then `Finish`.

`arrived`, `begun` and `dropped` are history variables for the properties.

Left out: direct mode (no goroutines), observers, events, metrics and tracing, `HasQueuedFrame`
(reads only), `StartInterruption` called by a processor outside its frame handling, a second
`PauseProcessingAllFramesUntil` replacing a running watcher, a handler that calls the pause and
resume methods itself, a handler that ignores its context. Urgent pauses are in the module and in
the proofs; the runs pause in order.

### `OrderedDelivery` and `Delivery`

What a processor promises, without goroutines, queues or gates: a line of frames. A frame joins at
the end, the first is served, any frame may be taken out unserved, but one that is uninterruptible
only after the line has closed. The mapping reads the line off the processor's state: the frame a
process goroutine has taken and not called the handler for, the process queue, the frame the input
goroutine holds, the input queue; what was served is `begun` without the system frames (`InOrder`).
`Delivers` says that every step of the processor is a step of
that line or leaves it alone: a frame put back, held at a gate or handed from one goroutine to its
successor does not move; nothing is served twice, out of order or after it was dropped.

### `ParallelPipeline` (`parallel.go`)

Node 0 is the parallel pipeline, nodes 1..N its branches. The sinks are in direct mode, so
`sinkPush` and `emit` run on whichever goroutine of a branch pushed: each critical section of `mu`
is one action and each `PushFrame` outside it another. A node runs the steps of `Processor` in
coarser grain: taking a frame and making it current is one step, and a pause gate is one flag. That
is a deliberate abstraction; the races inside a gate are `Processor`'s business. A branch is one
processor; a longer one adds delay, which the interleaving already has. A branch's pipeline is in
direct mode, so it is canceled the moment its CancelFrame is fanned out (`Accept`).

Left out: setting up and tearing down the branches, and the direction of a frame (upstream frames
take the same path through `emit`).

### `SyncParallel` (`syncparallel.go`, the `frameQueue` of `worker.go`)

A data or control frame is a round: ProcessFrame starts a waiter per branch, each of which sends the
frame and a SyncFrame into its branch and collects what comes out up to a SyncFrame; when all are
back the collection is released, in arrival or in pipeline order. Each send and each frame collected
is an action, so waiters, branches and the pipeline's own input goroutine interleave. A branch is a
processor with its two goroutines, so that system frames overtake inside it and an interruption drops
what its process queue holds; `Output` says what it makes of each frame, and pushing that is part of
handling it. A sink lets nothing through behind a CancelFrame (`ComesOut`). SyncFrames carry no
identity in the code and have none here.

Left out: the upstream direction (the same code with sources and sinks exchanged), setting up and
tearing down the branches, pause gates.

### `Worker` (`worker.go`, `monitors.go`, `setup.go`)

`run` is where `Run` is, `sig` the channels and flags that were closed or raised. The pipeline is a
chain of N processors, each a queue and a handler that is one step; source, sink and the pipeline
are in direct mode, so `sourcePush` and `sinkPush` happen in the step of the processor that pushed,
except that the sink's handling of the StartFrame has two steps (`SinkStarted`), because the start
of the heartbeats falls between two signals. `Inputs` are what callers and processors may do, each
once: frames queued, cancel, the context ending, a processor that wedges. Work for a flush is a
frame that goes down, is answered upstream by the last processor and again downstream by the first.
An interruption drops what a processor had in its process queue, which is any part of its queue that
starts at the front (`OwnQueues`). A probe is a frame per leg; its flush waits for its own. Timers
(`SetupTimeout`, `WindDown`, `StartTimeout`, `CancelTimeout`, `MonitorStopTimeout`, `FlushTimer`,
`IdleTimeout`) may fire whenever they are armed. So `monitors.stop` may give up on a monitor that is
still running, and giveUp's second may be over before setting up has begun; `late`, `strays` and
`hasty` are history variables that remember which wait was cut short. A monitor that was given up on
goes on: the idle monitor may still cancel, the heartbeat pusher still push.

Left out: a pipeline that refuses a frame (`QueueFrame` fails only when the first processor is itself
in direct mode and fails; here it has a queue, so the error paths of `runLoop` and
`cancelOnContextEnd`, `worker.go:1091`, are not taken), a Setup that returns an error, a second run after a StopFrame, fatal errors and unusable
processors (which cancel as `Cancel` does), reached-frame events, flush progress across a bridge,
tracing and observers.

### `Bus`, `Runner`, `Jobs`

`Bus` has the two-band queue of a subscription and where its router and dispatcher are. A message is
addressed, and only its addressee's copy is kept. Unsubscribing and the network buses are left out.

`Runner` follows a worker from its entry in the map over subscribing, starting, returning,
`maybeAutoEnd` and the close of its done channel, each a step of its own, because each is visible to
another goroutine in between. Children are added on the runner's router. `lost` remembers a worker
that was told to stop before it was on the bus: such a message is gone, and what depends on it says
so. Activation, registries of several runners and signals beyond canceling are left out.

`Jobs` has a requester with its groups and workers with a sequential handler each. A handler need
neither answer nor return. A worker that stops answers every job it holds, in whatever order the
map yields them (`Orders`). Updates, streams, waiting for workers to be ready and handlers that are
not sequential are left out.

### `MediaSender` (`mediasender.go`, `output.go`, `framequeue.go`)

Four goroutines: the processor's two, the audio loop, and the one that calls Cleanup. Audio is a
sequence of units named after their frame, so that a chunk knows what it carries and whether any of
it is uninterruptible; `whole`, `chunks` and `rest` are the cutting. Each critical section of
`bufMu`, `botMu` and the queue is one action; `lifeMu` is a variable because `stop` waits while it
holds it. `told` counts the starts of speech broadcast, less the stops. `WriteAudio` is the
transport, which may never send; `writeAudio` is the bound on it.

Left out: the mixer's loop, filter, volume and resampler (data), speech streams' silence, several
destinations, the clock queue, DTMF and messages, a transport that cannot be started.

## 4. What is checked

Frames of a processor: `s` StartFrame, `d` data, `k` uninterruptible, `i` interruption, `c`
CancelFrame, `e` EndFrame, `q` pause in order, `p` one on the input
goroutine, `r` resume, `b` broadcast interruption in order, `u`
one on the input goroutine, `w` withdrawal of the frame `Target`, `o1` a frame branch 1 pushes by
itself. Each is queued at most once, at any moment and in any order.

| Run | Instance | Shows |
|---|---|---|
| `proc_interrupt` | s d1 k1 i1 u1 b1 | types; one handler at a time; frames queued at the interruption never handled; StartFrame and setup first; the processor is a line of frames |
| `proc_pause` | s k1 q1 p1 r1 w1 c1, Target k1 | the same line, with a frame held at the gate, and withdrawn there; after a CancelFrame nothing in order is handled (no interruption is queued behind it here, see below) |
| `proc_live` | s k1 i1, holding all frames on start, teardown; fair | the StartFrame is handled; an interruption ends; an uninterruptible frame is handled; after Cleanup nothing runs |
| `par_sync` | two branches; s d1 o1 e c | types; each frame leaves once; StartFrame first; nothing queued ahead of the EndFrame behind it; releases never overlap |
| `par_live` | two branches; s e c i; fair | lifecycle frames get through |
| `sync` | two branches; s d1 i1 e, of d1 branch 1 makes m1 besides; both orders; fair | types; what a frame becomes is released whole, once, and branch by branch in pipeline order; a canceled round ends even if a branch never comes back, so an interruption gets past |
| `worker_run` | two processors, one flush; end, cancel, context end, wedge, heartbeats, idle; fair | types; no cleanup beside a setup; no monitor in teardown but those that outstayed the wait for them; processors told before they are cleaned up; a cancel ends the run |
| `worker_flush` | two processors, two flushes; work, interruption, EndWorkerFrame, StopFrame | a flush that succeeds has waited for everything ahead of it, the answers to it included, and no other flush's probe counts |
| `runner` | two roots (one added before Run) and a child; one of end, cancel, signal, context end; fair | types and bands; nobody is left running when Run returns; asked to stop, Run returns |
| `jobs` | one worker, two jobs; timeout, error policy, stop, deactivation; fair | types and addressees; a group finishes once; turns; a timed group finishes; a job called off is answered |
| `output` | a1 k1 t1 e i1 c1, chunk of two, Cleanup; fair | types and cutting; floor told once per turn; a drain covers all audio; after a stop the loop is gone; the floor is given up; the EndFrame gets through |

One run ends in a violation, and records where the code does not do what its comments say:

| Run | Property | What the code does |
|---|---|---|
| `runner_auto_end` | `AutoEnds` | two root workers that finish together each find the other's done channel open: neither ends the runner and Run waits for ever |

None of the runs checks for deadlock as such: an idle processor waits for frames and that is a
legitimate end. What must not wait for ever is stated by the liveness properties instead.

### Divergences met while modelling, and how the properties step around them

* A CancelFrame, then an interruption that was already queued behind it: `createProcessTask`
  (`processor.go:975`) does not look at `canceling` and starts the process goroutine again, which
  handles the uninterruptible frames left, although `frames/system.go:53` says the CancelFrame stops
  the pipeline "without processing any remaining queued frames". Hence `CancelIsFinal` holds until
  the next interruption.
* `startInterruption` releases `curMu` before it flushes (`processor.go:994`): the spared frame may
  finish and the next one be taken in between. `OrderedDelivery` allows both.
* `waitWhilePaused` lowers a flag that a later pause raised (`pause.go:140`); and a frame at the gate
  waits on an event that a broadcast interruption replaced (`processor.go:1087`), where no resume
  reaches it. Hence no broadcast in `proc_live`.
* `docs/concepts/interruptions.md:79` bounds cancellation at 3 seconds; `stopProcessTask`'s wait
  has no bound. `InterruptionReturns` is about handlers that heed their context.
* `emit` marks a frame seen under the lock and pushes it after (`parallel.go:145`): a branch that
  drops its duplicate may overtake it, so frames can leave in another order.
* A cancel behind a queued EndFrame: the run loop waits for the EndFrame without a bound and never
  gets to the CancelFrame (`worker.go:1432`). Hence `EndAsked` in `CancelReturns`.
* `giveUp` waits a second for an abandoned setup (`worker.go:1151`), and `settled` takes a processor
  whose setup has not begun for one that needs none: were setting up to begin only after that second,
  it would run beside or after the cleanup. Hence `hasty` in `SetupCleanupApart`.
* `monitors.stop` gives up on a monitor after its timeout, as its comment says, and the teardown goes
  on although `worker.go` stops the monitors "so none of them is still pushing frames into processors
  that are shutting down". Hence `strays` in `MonitorsGone`.
* `Runner.End` asks the workers to end "gracefully", and the exit path it releases sends each of
  them a CancelWorkerMessage at once, which overtakes.
* A worker that is told to stop before it has subscribed misses it: `lost` in `ShutdownReturns`. One
  that is added while the exit path is under way may be started and not be stopped: `NoneLeft` is
  about the workers started when the exit path looks.
* `setupSession` starts the entries one by one, so a first root worker that finishes at once may end
  the runner before the second is started.
* `JobOptions.Sequential` runs requests "one at a time": a request called off while it waits
  releases the one behind it although the one ahead still runs (`jobs.go:436`). Hence `skipped` in
  `OneAtATime`.
* A job's cancel may overtake its request: the worker knows nothing to cancel, then runs the job.
* `group.go:117` says past its buffer "the oldest events are dropped".  The new one is.
* `stop` gives up the floor and then cancels the audio loop, which may take it again in between:
  `FloorGivenUp` ends with the loop. The broadcasts follow the unlock of `botMu`, so listeners may
  see a stop and the next start in the other order; `FloorTold` counts them.
* An interruption while an EndFrame drains drops the marker that the drain waits for, which is
  interruptible (`output.go:532`), and spares the EndFrame's context: it waits for ever, although
  `mediasender.go:188` says "A CancelFrame or an interruption skips it and stops at once". Hence
  `cutDrain` in `EndLeaves`.
* `waitForSync` takes any SyncFrame for its own: that of a canceled round may end the next round,
  whose output is left to a later one. Hence `Overtaken` in `WholeRounds`.
* An interruption spares the round of an uninterruptible frame and drops its SyncFrame, which is an
  interruptible data frame, inside a branch: the round waits for ever. Hence no such frame in `sync`
  but the EndFrame, which is its own sentinel.
* `waitForSync` collects the EndFrame only if it is the first to come out of a branch
  (`syncparallel.go:249`). When the queue of every branch holds another frame ahead of it, as a
  system frame that passed leaves one there, no branch collects it and it never leaves, although
  `syncparallel_test.go:185` says that "the EndFrame itself still reaches the end of the pipeline".
* `botStoppedSpeaking` clears the audio buffer, in which the beginning of the next turn, also an
  uninterruptible one, may be waiting.

**Bounds.** Every frame, call and message is sent once, so a behaviour is finite but for
stuttering and heartbeats. The races are between one interruption, pause, cancel, end or teardown and
one frame on its way, with at most one more behind it to show order. One frame that is put back and
one behind it are the least that can end up in the wrong order; two branches are the least of which one is
faster; two processors the least between which work can go up; two flushes the least of which one
can be taken for the other; two roots and a child the least in which both an equal and a parent
can leave first; two jobs the least that take turns. `MaxAsks`, `MaxFlush` and `ResetBound` name the
bounds that are not sets; one heartbeat is in flight at a time. A chunk of two makes half a chunk
possible.

**Fairness.** Weak fairness of each goroutine's steps: the Go scheduler runs what can run, a lock
held for a few instructions is released. Timers elapse. `SetupFinished` is fair in `proc_live`: the
processor's own setup returns; in `worker_run` it need not, and a wedged processor stays wedged.
In `sync` a branch's processor need not come back from a frame it handles in order.
In `worker_run` nothing is asked of a monitor: one that is wedged in a call never exits.
In `runner` a goroutine runs as long as one can, those of the bus until the bus ends, and a handler
under way is finished; since none goes on for ever, that is fair to each. In `jobs` a handler that
runs owes nothing. In `output` a write returns (its timeout) but the transport need not have sent
anything. Queueing a frame, calling anything, tearing down,
finishing by itself are never fair: nobody owes them.

**Faulty variants.** A definition `A_b` next to `A` is `A` with a plausible fault (a wait left out,
a frame dropped, a flag not cleared). Nothing uses it; `PROJECT.json` says which property notices
when it takes `A`'s place.

## 5. What is proved

Every theorem but one is `Spec => []P`, the other is `Spec => D!Spec`, one specification implementing
another; all hold for every value of the constants, from the assumptions named in the modules and no
others. Few of the properties are inductive; below is the invariant each rests on and
why it is needed.

`SubsequenceProofs` and `FrameQueueProofs` hold the facts about the operators: the places `Pick`
gives are 1, 2, ... without a gap and in order, so it returns a sequence of the elements picked, in
their order (`Place` is an injection of a finite set, which spares an induction); a sequence that
lists the elements picked in their order is the one `Pick` returns (`PickUnique`), from which follow
what it returns for a sequence with one more element (`PickAppend`) and for one whose middle part
alone is narrowed (`PickMiddle`); what push, get,
requeue and reset return is a queue, which frames they keep, drop and reorder.

### `ProcessorProofs`: any frames, any number of interruptions

* `TypeCorrect`. That queues and history never get nil rests on `HandOK`: a goroutine between
  taking a frame and handling it holds one.
* `OneHandlerHolds`, `CleanupIsFinalHolds`. Two process goroutines do exist at once after a
  teardown that gave up on the input goroutine, so the invariant cannot simply say there is one.
  `LoopInv` says: a process goroutine that is not the last and has not exited implies that the base
  context is canceled and that the later one has not got past its look at the context (`LastWorks`);
  with no process goroutine to stop, all have exited or the input goroutine is waiting for the last
  (`NoneLeft`); the tear-down goroutine stops goroutines only after it canceled the base context
  (`LifeLast`); `createProcessTask` goes on only without a process goroutine (`CreateAlone`);
  nothing runs before Setup (`NotYet`); and what Cleanup leaves has exited or has only its look at
  the canceled context ahead (`QuietEnd`). One lemma covers every step that moves one goroutine
  (`MoveInv`); stopping, joining and spawning have their own.
* `StartFirstHolds`. `StartInv`: the gate opens only for a processor that is set up and has its
  StartFrame, the first tier holds nothing but StartFrames, and until a handler has begun every
  goroutine is where it holds no other frame (`Early`).
* `DroppedNeverBeginsHolds`, `HandledOnceHolds`. `PlaceInv` says that a data or control frame is at
  one place: unsent, waiting, held by one goroutine, ready, or begun, and that the queues hold no
  frame twice. On it rests `DropInv`: a dropped frame still in the queue is there only until a flush
  that is bound to come before anything takes it, and one in a hand is with a goroutine whose
  context is canceled and which has still to look. `HandledOnce` is a history property no run
  checks; `Delivers` implies it.
* `DeliversHolds`, the refinement of `OrderedDelivery`. A process goroutine that holds a frame is the
  only one and what it holds is a data or control frame (`OneHandler`, `PlaceInv`), so both hands are
  sequences of at most one frame and the line is four of them end to end (`LineOK`). Each step is
  then of one of five kinds, with a lemma for each: it moves a frame from the end of one part to the
  front of the next, which leaves the line alone (`LineSame`: the input goroutine taking and handing
  over, the process goroutine taking and giving back); it calls a handler for the head of the line
  (`ServeStep`); it queues a frame at its end, one that never was in it (`OnceInv`: a frame that
  arrived is no longer unsent); it takes frames out of one part (`DropStep`: a reset, a frame
  that is not given back, `PickMiddle` saying what is left of the line); or it cancels the base
  context, which alone stops the input goroutine and lets it drop what it holds (also `OnceInv`). The step that costs most is the reset of an interruption: it keeps the uninterruptible
  frames of one part, in order, while the others stay.
* `CancelIsFinalHolds`. `CancelInv`: from a CancelFrame's handler to the next StartFrame or
  interruption, the input goroutine has still to stop the process goroutine, or there is none and
  nothing under way that would start one.

### `ParallelProofs`: any number of branches, any frames

* `TypeCorrect`, with a `HandOK` of its own.
* `EscapesOnceHolds`. A frame on its way out is not in `out` yet, so `OnceInv` follows it from the
  moment it is marked seen: it is then in at most one of three places, once: pushed, buffered, or in
  the hands of one goroutine about to push it.
* `StartLeadsHolds`, under `OwnPlain`: no branch pushes a lifecycle frame of its own. Without it the
  property is false, because such a frame has no counter and `sinkPush` lets it through at once.
  `LeadInv` describes the time before anything has left: the
  StartFrame is the only frame past the gates of the pipeline (`Front`) and of each branch (`Side`),
  branches that it has not been fanned out to are untouched (`Reach`), and its counter is the number
  of branches that have not reported, so that only the last one can be on its way out (`Count`).
* `OneReleaseHolds`, under `OwnPlain` and `OneEach`: a run carries at most one StartFrame, one EndFrame
  and one CancelFrame. With two StartFrames the property is false: the second closes the gates while
  the first's `ResumeFrames` is still to come, which opens one again, and an EndFrame gets through along
  with it. A second EndFrame would need an order argument that is not made. Four invariants carry it. `PcInv` says what a goroutine may be
  doing, by its node and lane. `PlaceInv` says that a frame is at one place of a node, and at a branch
  only when the pipeline has no more to queue it there. `CountInv` says that the counter of a frame is
  at least the number of branches that may still report it (`Owes`), so that nobody owes a frame that
  is released, nor releases it a second time. What is left is two different frames at once, and
  `PhaseInv` excludes them: before anything has left `LeadInv` allows one; while the buffer is flushed
  behind the StartFrame all else is still (`Flushing`); afterwards the StartFrame is gone for good
  (`Gone`), and a CancelFrame at one branch has got to every other or is still owed there (`Covers`),
  where it is the last system frame handled and stops the process goroutine (`Canceled`), so that
  nobody can be releasing the EndFrame when the last branch reports the CancelFrame.
* `EndTrailsHolds`, under the same two hypotheses. `TrailInv` follows every pair of a data or control
  frame x and an EndFrame e that was queued behind it. At each node x stays ahead of e, in the input
  queue, the process queue and the hands of the process goroutine (`OrderAt`; handing on, giving back
  and resetting keep the order). So x has left the pipeline's own node before e is armed, and a branch
  before the branch reports e; hence the counter of e is at least the number of branches that owe e
  or still have x (`Late`), which is more than `CountInv` says, and none has x when e is released. Then
  x can only be in the buffer or in the hands of a goroutine that pushes it. The first is empty when
  the flush ends, and by `OneRelease` nobody else has taken anything out of it; the second is a branch's
  goroutine, which would still hold x at the branch. So x is nowhere any more when e is pushed, and does
  not come back (`Spent`). `SentInv` keeps frames that are queued, raised by a branch and not sent yet
  apart, and lifecycle frames out of the buffer.

### `WorkerProofs`: any length of the chain, any number of flushes, any inputs

* `TypeCorrect`; `SetupCleanupApartHolds` (`SetupInv`: setting up begins for all processors in one
  go, and the run does not get past it before, unless `hasty`); `MonitorsGoneHolds` (`MonInv`: the
  scope is closed before the wait, `spawn` starts nothing in a closed scope, and what the wait leaves
  behind is `strays`); `ToldBeforeCleanupHolds`
  (`ToldInv`: a frame that ends the pipeline has been handled by every processor above the one it is
  at, so one that is at the sink was handled by all).
* `FlushCoversHolds`. The work and the probe travel the same way: down as `d` and `probe`, up as `u`
  and `bounce`, down again as `r` and `returning`. `FlushInv` says that wherever both are, the work
  is ahead of the probe (`Behind`): on a later leg, further on, or before it in the same queue. Every
  step is shown to take frames out without changing the order of the rest (`Keeps`; an interruption
  and a cancel included) and to put at most one behind them (`After`), at a place where it gets ahead
  of nothing (`Fits`). That a probe cannot overtake rests on it being filed with the data frames
  (`AllSorted`), and that an earlier flush's does not count on each flush having its own.

### `MediaSenderProofs`: any frames, any amounts of audio, any chunk size

* `TypeCorrect`; `StoppedSilentHolds` (`StopInv`: who is in `stop` holds `lifeMu`, and once
  `audioCancel` is nil and nobody is inside the loop has ended, so that a second caller may return at
  once); `FloorToldHolds` (`FloorTold` counts the goroutines that have still to broadcast, and is
  inductive as it stands).
* `DrainCoversHolds`. `DrainInv`: there is one EndFrame; a marker exists only after the buffer was
  flushed for it, from when on the process goroutine queues nothing more, so the marker is the last
  in the queue and the loop's hands are empty when it comes round.

### `RunnerProofs`, `JobsProofs`: any workers, children and jobs

* `Runner`: `TypeCorrect` (each message with its addressee and in its band); `NoneLeftHolds`
  (`NoneInv`: while Run waits, an entry that had been started is still waited for or has closed its
  done channel).
* `Jobs`: `TypeCorrect`; `FinishedOnceHolds` (how often a group was finished can be read off its
  state); `OneAtATimeHolds`. A worker is asked for a job once (`AskedOnce`: requests in its queues are
  for different jobs, none of which it has a handler for), and the handlers form one chain, each
  waiting for the one before, whose only running link is the first that has not ended.

### Only model-checked

* The liveness properties, and with them everything under fairness: beyond the proof system used here.
* The properties of `SyncParallel`. What a round pushes has gone through `dedupe` and `FlattenSeq`, and
  what such a fold returns, even that it is a sequence of frames, is an induction over data.

## 6. Not modelled

* Switchers, turn taking, context aggregators, the bases of LLM, TTS and STT services: stateful, and
  next in line.
* Registry, observers, telemetry: they watch, and change nothing of the state modelled here.
* Providers, concrete transports, serializers, the network buses: adapters to external services.
* Audio processing, tokenizers, text utilities: computations on samples and strings, beyond what
  model checking can enumerate.
* Flows, evaluation, commands, examples: applications of the engine.
