---------------------------- MODULE MediaSender ----------------------------
(***************************************************************************)
(* The output end of a transport (transport/output.go, mediasender.go,     *)
(* framequeue.go): audio is cut into chunks and paced out by a goroutine   *)
(* of its own, while the processor's goroutines go on handling frames,     *)
(* interruptions, the end of the session and its teardown.                 *)
(*                                                                         *)
(* Proc is the process goroutine, Input the input goroutine, Audio the     *)
(* audio loop and Life the goroutine that calls Cleanup.  How the first    *)
(* two hand frames to each other is Processor; here the frames queued for  *)
(* Proc are one line (OrderedDelivery), and an interruption or a cancel    *)
(* waits for Proc as startInterruption and stopProcessTask do.             *)
(*                                                                         *)
(* An action is one critical section of bufMu, botMu or the queue's mutex, *)
(* or one call into the transport or a neighbour.  lifeMu is a variable,   *)
(* because stop holds it while it waits.  There is one destination, no     *)
(* mixer, and the audio is TTS audio at the output's own rate.  The frames *)
(* without audio that wait behind it are represented by the                *)
(* TTSStoppedFrame, the only one that has an effect when its turn comes.   *)
(***************************************************************************)
EXTENDS Integers, Sequences, FiniteSets, Subsequence

CONSTANTS Frame, Kind,  \* the frames of a behaviour, each sent once
          Size,         \* Size[f]: how much audio f carries
          ChunkSize,
          NoFrame,
          CanCleanup    \* the transport may be torn down

InOrderKinds == {"audio", "keptAudio", "stopped", "end"}
SystemKinds == {"interruption", "cancel"}

ASSUME FrameAssumption ==
    /\ Kind \in [Frame -> InOrderKinds \cup SystemKinds]
    /\ Size \in [Frame -> Nat]
    /\ NoFrame \notin Frame
    /\ \A f, g \in Frame : Kind[f] = "end" /\ Kind[g] = "end" => f = g
ASSUME ChunkAssumption == ChunkSize \in Nat \ {0}
ASSUME CleanupAssumption == CanCleanup \in BOOLEAN

VARIABLES
    unsent,             \* the frames still to come
    todo,               \* frames queued for the process goroutine
    go,                 \* where each goroutine is, and where it returns to
    frame,              \* the frame the process goroutine is handling
    cut,                \* the chunks it has cut and not yet queued
    procStop,           \* its context is canceled
    audioRuns,          \* the audio waiting to fill a chunk, by its frame
    audioOut,           \* the queue that the audio loop paces out
    audioCancel,        \* not nil
    audioDone,          \* audioCtx is canceled
    lifeMu,             \* who holds it
    drainWait, drained, \* the channel of a drain is there; it was closed
    botSpeaking, ttsAudioReceived,
    told,               \* history: starts broadcast, less stops broadcast
    cutDrain            \* history: an interruption dropped a drain's marker

lineVars == <<unsent, todo, frame, procStop>>
bufVars  == <<audioRuns, cut>>
loopVars == <<audioOut, audioDone>>
stopVars == <<audioCancel, lifeMu>>
drainVars == <<drainWait, drained, cutDrain>>
floorVars == <<botSpeaking, ttsAudioReceived, told>>
vars == <<lineVars, go, bufVars, loopVars, stopVars, drainVars, floorVars>>

Goroutines == {"Proc", "Input", "Audio", "Life"}

\* Cleanup has canceled the processor's context.
baseDone == go["Life"].pc = "exited"

Goto(g, pc) == go' = [go EXCEPT ![g].pc = pc]
Call(g, pc, back) == go' = [go EXCEPT ![g] = [pc |-> pc, back |-> back]]

Interruptible(f) == Kind[f] \notin {"keptAudio", "end"}
Uninterruptible(s) == {i \in 1..Len(s) : ~Interruptible(s[i])}

(***************************************************************************)
(* What is queued: a chunk of audio, a frame that waits behind it, or the  *)
(* marker of a drain, which is a zero OutputAudioRawFrame and therefore    *)
(* interruptible audio to whoever looks at it.                             *)
(***************************************************************************)
chunk(audio) == [what |-> "chunk", of |-> audio,
                 keep |-> \E i \in DOMAIN audio : ~Interruptible(audio[i])]
queued(f) == [what |-> "frame", of |-> <<f>>, keep |-> ~Interruptible(f)]
drainMarker == [what |-> "marker", of |-> <<>>, keep |-> FALSE]
Item == [what : {"chunk", "frame", "marker"}, of : Seq(Frame), keep : BOOLEAN]

reset(q) == Pick(q, {i \in 1..Len(q) : q[i].keep})
hasAudio(q) == \E i \in DOMAIN q : q[i].what \in {"chunk", "marker"}
keepUninterruptibleAudio(runs) == Pick(runs, Uninterruptible(runs))

whole_strict(runs) == IF runs = <<>> THEN 0 ELSE (Len(runs) - 1) \div ChunkSize

\* takeAudioChunk while there is a whole chunk: the chunks, and what is left.
whole(runs) == Len(runs) \div ChunkSize
chunks(runs) ==
    [i \in 1..whole(runs) |-> chunk(SubSeq(runs, (i - 1) * ChunkSize + 1, i * ChunkSize))]
rest(runs) == SubSeq(runs, whole(runs) * ChunkSize + 1, Len(runs))

\* enqueueFlushedAudioBuffer: the rest as well, padded to a chunk.
flushed(runs) ==
    chunks(runs) \o IF rest(runs) = <<>> THEN <<>> ELSE <<chunk(rest(runs))>>

Init ==
    /\ unsent = Frame /\ todo = <<>> /\ frame = NoFrame
    /\ procStop = FALSE
    /\ go = [g \in Goroutines |->
               [pc |-> IF g = "Audio" THEN "check" ELSE "free", back |-> "free"]]
    /\ audioRuns = <<>> /\ cut = <<>>
    /\ audioOut = <<>> /\ audioDone = FALSE
    /\ audioCancel = TRUE /\ lifeMu = "none"
    /\ drainWait = FALSE /\ drained = FALSE /\ cutDrain = FALSE
    /\ botSpeaking = FALSE /\ ttsAudioReceived = FALSE
    /\ told = 0

(***************************************************************************)
(* The processor: a frame is handed on by the input goroutine, which does  *)
(* nothing else while it handles a system frame.                           *)
(***************************************************************************)
QueueFrame(f) ==
    /\ f \in unsent /\ Kind[f] \in InOrderKinds
    /\ go["Input"].pc = "free" /\ ~baseDone
    /\ unsent' = unsent \ {f} /\ todo' = Append(todo, f)
    /\ UNCHANGED <<frame, procStop, go, bufVars, loopVars, stopVars,
                   drainVars, floorVars>>

TakeFrame ==
    /\ go["Proc"].pc = "free" /\ todo # <<>> /\ ~procStop
    /\ frame' = Head(todo) /\ todo' = Tail(todo)
    /\ Goto("Proc", IF Kind[Head(todo)] \in {"audio", "keptAudio"}
                      THEN "audio" ELSE "flush")
    /\ UNCHANGED <<unsent, procStop, bufVars, loopVars, stopVars,
                   drainVars, floorVars>>

Handled(g) ==
    /\ Call(g, "free", "free")
    /\ IF g = "Proc" THEN frame' = NoFrame ELSE UNCHANGED frame

(***************************************************************************)
(* Buffering audio and queueing chunks, on the process goroutine: they are *)
(* cut under bufMu and queued after it is released.                        *)
(***************************************************************************)
handleAudioFrame ==
    /\ go["Proc"].pc = "audio"
    /\ LET runs == audioRuns \o [i \in 1..Size[frame] |-> frame]
       IN  audioRuns' = rest(runs) /\ cut' = chunks(runs)
    /\ Goto("Proc", "push")
    /\ UNCHANGED <<lineVars, loopVars, stopVars, drainVars, floorVars>>

enqueueFlushedAudioBuffer_keeps ==
    /\ go["Proc"].pc = "flush"
    /\ audioRuns' = rest(audioRuns) /\ cut' = chunks(audioRuns)
    /\ Goto("Proc", "push")
    /\ UNCHANGED <<lineVars, loopVars, stopVars, drainVars, floorVars>>

\* For a TTSStoppedFrame or an EndFrame.
enqueueFlushedAudioBuffer ==
    /\ go["Proc"].pc = "flush"
    /\ audioRuns' = <<>> /\ cut' = flushed(audioRuns)
    /\ Goto("Proc", "push")
    /\ UNCHANGED <<lineVars, loopVars, stopVars, drainVars, floorVars>>

PushChunk ==
    /\ go["Proc"].pc = "push" /\ cut # <<>>
    /\ audioOut' = Append(audioOut, Head(cut)) /\ cut' = Tail(cut)
    /\ UNCHANGED <<lineVars, go, audioRuns, audioDone, stopVars, drainVars,
                   floorVars>>

ChunksPushed ==
    /\ go["Proc"].pc = "push" /\ cut = <<>>
    /\ CASE Kind[frame] = "stopped" -> Goto("Proc", "queue") /\ UNCHANGED frame
         [] Kind[frame] = "end" -> Goto("Proc", "drain") /\ UNCHANGED frame
         [] OTHER -> Handled("Proc")
    /\ UNCHANGED <<unsent, todo, procStop, bufVars, loopVars, stopVars,
                   drainVars, floorVars>>

\* The end of handleTTSStopped.
QueueBehind ==
    /\ go["Proc"].pc = "queue"
    /\ audioOut' = Append(audioOut, queued(frame))
    /\ Handled("Proc")
    /\ UNCHANGED <<unsent, todo, procStop, bufVars, audioDone,
                   stopVars, drainVars, floorVars>>

(***************************************************************************)
(* The EndFrame: a marker is queued behind the audio and waited for, then  *)
(* the sender is stopped.                                                  *)
(***************************************************************************)
drainAudio ==
    /\ go["Proc"].pc = "drain"
    /\ drainWait' = TRUE
    /\ Goto("Proc", "mark")
    /\ UNCHANGED <<lineVars, bufVars, loopVars, stopVars, drained, cutDrain,
                   floorVars>>

PushMarker ==
    /\ go["Proc"].pc = "mark"
    /\ audioOut' = Append(audioOut, drainMarker)
    /\ Goto("Proc", "draining")
    /\ UNCHANGED <<lineVars, bufVars, audioDone, stopVars, drainVars,
                   floorVars>>

DrainOver ==
    /\ go["Proc"].pc = "draining" /\ (drained \/ audioDone \/ procStop)
    /\ Call("Proc", "floor", "stop")
    /\ UNCHANGED <<lineVars, bufVars, loopVars, stopVars, drainVars, floorVars>>

(***************************************************************************)
(* botStoppedSpeaking: the flag, then the buffer, then the broadcast.      *)
(***************************************************************************)
Return(g) ==
    IF go[g].back = "free" THEN Handled(g)
    ELSE Call(g, go[g].back, "free") /\ UNCHANGED frame

botStoppedSpeaking_untested(g) ==
    /\ go[g].pc = "floor"
    /\ botSpeaking' = FALSE /\ ttsAudioReceived' = FALSE
    /\ Goto(g, "clear")
    /\ UNCHANGED <<lineVars, bufVars, loopVars, stopVars, drainVars, told>>

botStoppedSpeaking(g) ==
    /\ go[g].pc = "floor"
    /\ IF botSpeaking
         THEN /\ botSpeaking' = FALSE /\ ttsAudioReceived' = FALSE
              /\ Goto(g, "clear") /\ UNCHANGED frame
         ELSE Return(g) /\ UNCHANGED <<botSpeaking, ttsAudioReceived>>
    /\ UNCHANGED <<unsent, todo, procStop, bufVars, loopVars, stopVars,
                   drainVars, told>>

clearAudioBuffer(g) ==
    /\ go[g].pc = "clear"
    /\ audioRuns' = <<>>
    /\ Goto(g, "tell")
    /\ UNCHANGED <<lineVars, cut, loopVars, stopVars, drainVars, floorVars>>

BroadcastStopped(g) ==
    /\ go[g].pc = "tell"
    /\ told' = told - 1
    /\ Return(g)
    /\ UNCHANGED <<unsent, todo, procStop, bufVars, loopVars, stopVars,
                   drainVars, botSpeaking, ttsAudioReceived>>

(***************************************************************************)
(* stop, once the bot has given up the floor: whoever is first cancels the *)
(* audio loop and waits for it, holding lifeMu; the others wait for that.  *)
(***************************************************************************)
stop_unlocked(g) ==
    /\ go[g].pc = "stop"
    /\ lifeMu' = g /\ audioCancel' = FALSE
    /\ audioDone' = TRUE
    /\ Goto(g, IF audioCancel THEN "join" ELSE "stopped")
    /\ UNCHANGED <<lineVars, bufVars, audioOut, drainVars, floorVars>>

stop(g) ==
    /\ go[g].pc = "stop" /\ lifeMu = "none"
    /\ lifeMu' = g /\ audioCancel' = FALSE
    /\ audioDone' = TRUE
    /\ Goto(g, IF audioCancel THEN "join" ELSE "stopped")
    /\ UNCHANGED <<lineVars, bufVars, audioOut, drainVars, floorVars>>

JoinLoop(g) ==
    /\ go[g].pc = "join" /\ go["Audio"].pc = "exited"
    /\ Goto(g, "stopped")
    /\ UNCHANGED <<lineVars, bufVars, loopVars, stopVars, drainVars, floorVars>>

\* stop returns, and its caller pushes the frame it was handling; Cleanup goes
\* on to cancel the process goroutine.
Stopped(g) ==
    /\ go[g].pc = "stopped"
    /\ lifeMu' = "none"
    /\ IF g = "Life" THEN Goto(g, "exited") /\ UNCHANGED frame ELSE Handled(g)
    /\ procStop' = (procStop \/ g = "Life")
    /\ UNCHANGED <<unsent, todo, bufVars, loopVars, audioCancel,
                   drainVars, floorVars>>

Cleanup ==
    /\ CanCleanup /\ go["Life"].pc = "free"
    /\ Call("Life", "floor", "stop")
    /\ UNCHANGED <<lineVars, bufVars, loopVars, stopVars, drainVars, floorVars>>

(***************************************************************************)
(* System frames, on the input goroutine.  An interruption spares an       *)
(* uninterruptible frame being handled; otherwise, and on a cancel, the    *)
(* process goroutine is stopped and waited for.                            *)
(***************************************************************************)
Spared == frame # NoFrame /\ ~Interruptible(frame)

TakeSystem(f) ==
    /\ f \in unsent /\ Kind[f] \in SystemKinds
    /\ go["Input"].pc = "free" /\ ~baseDone
    /\ unsent' = unsent \ {f}
    /\ IF Kind[f] = "interruption" /\ Spared
         THEN Goto("Input", "spared") /\ UNCHANGED procStop
         ELSE Goto("Input", Kind[f]) /\ procStop' = TRUE
    /\ UNCHANGED <<todo, frame, bufVars, loopVars, stopVars, drainVars, floorVars>>

\* The end of Base's part of an interruption: the interruptible frames queued
\* are dropped, and a process goroutine that was stopped is replaced.
startInterruption ==
    /\ \/ go["Input"].pc = "spared" /\ UNCHANGED procStop
       \/ go["Input"].pc = "interruption" /\ frame = NoFrame /\ procStop' = baseDone
    /\ todo' = Pick(todo, Uninterruptible(todo))
    /\ Goto("Input", "reset")
    /\ UNCHANGED <<unsent, frame, bufVars, loopVars, stopVars, drainVars, floorVars>>

CancelJoined ==
    /\ go["Input"].pc = "cancel" /\ frame = NoFrame
    /\ Call("Input", "floor", "stop")
    /\ UNCHANGED <<lineVars, bufVars, loopVars, stopVars, drainVars, floorVars>>

ResetQueue ==
    /\ go["Input"].pc = "reset"
    /\ audioOut' = reset(audioOut)
    /\ cutDrain' = (cutDrain \/ \E i \in DOMAIN audioOut : audioOut[i] = drainMarker)
    /\ Goto("Input", "resetBuffer")
    /\ UNCHANGED <<lineVars, bufVars, audioDone, stopVars, drainWait, drained,
                   floorVars>>

ResetBuffer ==
    /\ go["Input"].pc = "resetBuffer"
    /\ audioRuns' = keepUninterruptibleAudio(audioRuns)
    /\ Goto("Input", IF audioRuns' = <<>> THEN "audioLeft" ELSE "free")
    /\ UNCHANGED <<lineVars, cut, loopVars, stopVars, drainVars, floorVars>>

AudioLeft ==
    /\ go["Input"].pc = "audioLeft"
    /\ IF hasAudio(audioOut) THEN Goto("Input", "free") ELSE Call("Input", "floor", "free")
    /\ UNCHANGED <<lineVars, bufVars, loopVars, stopVars, drainVars, floorVars>>

(***************************************************************************)
(* The audio loop (audioLoopWithoutMixer, handleQueuedFrame).              *)
(***************************************************************************)
LoopUnchanged == UNCHANGED <<lineVars, bufVars, stopVars, drainVars>>

CheckContext ==
    /\ go["Audio"].pc = "check"
    /\ Goto("Audio", IF audioDone THEN "exited" ELSE "get")
    /\ UNCHANGED <<loopVars, floorVars>> /\ LoopUnchanged

PlayPc(x) == CASE x.what = "marker" -> "drained"
               [] x.what = "chunk" -> "speech"
               [] x.what = "frame" -> "ttsStopped"

tryGet ==
    /\ go["Audio"].pc = "get" /\ audioOut # <<>>
    /\ audioOut' = Tail(audioOut)
    /\ Goto("Audio", PlayPc(Head(audioOut)))
    /\ UNCHANGED <<audioDone, floorVars>> /\ LoopUnchanged

NothingQueued ==
    /\ go["Audio"].pc = "get" /\ audioOut = <<>>
    /\ Goto("Audio", "idle")
    /\ UNCHANGED <<loopVars, floorVars>> /\ LoopUnchanged

Wake ==
    /\ go["Audio"].pc = "idle"
    /\ \/ audioOut # <<>> /\ Goto("Audio", "check")
       \/ audioDone /\ Goto("Audio", "exited")
    /\ UNCHANGED <<loopVars, floorVars>> /\ LoopUnchanged

IdleTimer_none ==
    /\ go["Audio"].pc = "idle"
    /\ Goto("Audio", "check")
    /\ UNCHANGED <<loopVars, floorVars>> /\ LoopUnchanged

\* botVADStopFallback has passed with nothing played, though something may have
\* been queued at that very moment.
IdleTimer ==
    /\ go["Audio"].pc = "idle"
    /\ Call("Audio", "floor", "check")
    /\ UNCHANGED <<loopVars, floorVars>> /\ LoopUnchanged

handleBotSpeech ==
    /\ go["Audio"].pc = "speech"
    /\ ttsAudioReceived' = TRUE
    /\ Goto("Audio", "start")
    /\ UNCHANGED <<loopVars, botSpeaking, told>> /\ LoopUnchanged

botStartedSpeaking ==
    /\ go["Audio"].pc = "start"
    /\ botSpeaking' = TRUE
    /\ Goto("Audio", IF botSpeaking THEN "write" ELSE "tellStart")
    /\ UNCHANGED <<loopVars, ttsAudioReceived, told>> /\ LoopUnchanged

BroadcastStarted ==
    /\ go["Audio"].pc = "tellStart"
    /\ told' = told + 1
    /\ Goto("Audio", "write")
    /\ UNCHANGED <<loopVars, botSpeaking, ttsAudioReceived>>
    /\ LoopUnchanged

\* The transport has sent the chunk, or failed to.
WriteAudio ==
    /\ go["Audio"].pc = "write"
    /\ Goto("Audio", "forward")
    /\ UNCHANGED <<loopVars, floorVars>> /\ LoopUnchanged

writeAudio_unbounded ==
    /\ go["Audio"].pc = "write" /\ audioDone
    /\ Goto("Audio", "forward")
    /\ UNCHANGED <<loopVars, floorVars>> /\ LoopUnchanged

\* The peer has stopped reading: the write ends with its timeout, after which the
\* transport is not usable and writes are skipped, or with the loop's context.
writeAudio ==
    /\ go["Audio"].pc = "write"
    /\ Goto("Audio", "forward")
    /\ UNCHANGED <<loopVars, floorVars>> /\ LoopUnchanged

ttsStopped ==
    /\ go["Audio"].pc = "ttsStopped"
    /\ IF ttsAudioReceived THEN Call("Audio", "floor", "forward")
                           ELSE Goto("Audio", "forward")
    /\ UNCHANGED <<loopVars, floorVars>> /\ LoopUnchanged

\* The frame is forwarded unless the loop was canceled, which ends it.
Forward ==
    /\ go["Audio"].pc = "forward"
    /\ Goto("Audio", IF audioDone THEN "exited" ELSE "check")
    /\ UNCHANGED <<loopVars, floorVars>> /\ LoopUnchanged

signalDrained ==
    /\ go["Audio"].pc = "drained"
    /\ drained' = (drained \/ drainWait) /\ drainWait' = FALSE
    /\ Goto("Audio", "check")
    /\ UNCHANGED <<lineVars, bufVars, loopVars, stopVars, cutDrain, floorVars>>

(***************************************************************************)
(* The specification.                                                      *)
(***************************************************************************)
GiveUpFloor(g) == botStoppedSpeaking(g) \/ clearAudioBuffer(g) \/ BroadcastStopped(g)
StopStep(g) == stop(g) \/ JoinLoop(g) \/ Stopped(g)

ProcStep ==
    \/ TakeFrame \/ handleAudioFrame \/ enqueueFlushedAudioBuffer
    \/ PushChunk \/ ChunksPushed \/ QueueBehind
    \/ drainAudio \/ PushMarker \/ DrainOver
    \/ GiveUpFloor("Proc") \/ StopStep("Proc")

InputStep ==
    \/ startInterruption \/ CancelJoined \/ ResetQueue \/ ResetBuffer \/ AudioLeft
    \/ GiveUpFloor("Input") \/ StopStep("Input")

AudioStep ==
    \/ CheckContext \/ tryGet \/ NothingQueued \/ Wake \/ IdleTimer
    \/ handleBotSpeech \/ botStartedSpeaking \/ BroadcastStarted \/ writeAudio
    \/ ttsStopped \/ Forward \/ signalDrained \/ GiveUpFloor("Audio")

LifeStep == GiveUpFloor("Life") \/ StopStep("Life")

Next ==
    \/ \E f \in Frame : QueueFrame(f) \/ TakeSystem(f)
    \/ Cleanup \/ WriteAudio
    \/ ProcStep \/ InputStep \/ AudioStep \/ LifeStep

Spec == Init /\ [][Next]_vars

\* Every goroutine that can run does, a write into the transport returns (it is
\* bounded by a timeout), and the idle timer fires when nothing is queued.
\* Nothing obliges anyone to send a frame or to tear the transport down.
Fairness == /\ WF_vars(ProcStep) /\ WF_vars(InputStep)
            /\ WF_vars(AudioStep) /\ WF_vars(LifeStep)

FairSpec == Spec /\ Fairness

-----------------------------------------------------------------------------
(***************************************************************************)
(* Properties.                                                             *)
(***************************************************************************)
StopPcs == {"floor", "clear", "tell", "stop", "join", "stopped"}
Pcs == StopPcs \cup {"free", "exited", "audio", "push", "queue", "flush", "drain",
                     "mark", "draining", "interruption", "spared", "cancel", "reset",
                     "resetBuffer", "audioLeft", "check", "get", "idle", "speech",
                     "start", "tellStart", "write", "ttsStopped", "forward",
                     "drained"}

\* Every variable has its type, and the buffer never holds a whole chunk:
\* whoever adds to it cuts it before letting go of bufMu.
TypeOK ==
    /\ unsent \subseteq Frame /\ todo \in Seq(Frame)
    /\ frame \in Frame \cup {NoFrame}
    /\ go \in [Goroutines -> [pc : Pcs, back : {"free", "stop", "check", "forward"}]]
    /\ audioRuns \in Seq(Frame) /\ Len(audioRuns) < ChunkSize
    /\ cut \in Seq(Item) /\ audioOut \in Seq(Item)
    /\ lifeMu \in {"none", "Proc", "Input", "Life"}
    /\ told \in Int
    /\ {procStop, audioCancel, audioDone, drainWait, drained, botSpeaking,
        ttsAudioReceived, cutDrain} \subseteq BOOLEAN

\* The goroutines that have changed the flag and not yet said so.
Telling == {g \in Goroutines : go[g].pc \in {"clear", "tell"}}
Saying(b) == IF b THEN 1 ELSE 0

\* Every run of speech is told of once when it begins and once when it ends,
\* although the audio loop, an interruption, the end and Cleanup may end it at
\* the same moment (botSpeaking is tested and set under botMu).
FloorTold ==
    told + Saying(go["Audio"].pc = "tellStart") - Cardinality(Telling)
        = Saying(botSpeaking)

\* When the drain of an EndFrame returns because its marker came round, no audio
\* is left: not in the buffer, not queued, not in the audio loop's hands.
DrainCovers ==
    (frame # NoFrame /\ Kind[frame] = "end" /\ drained) =>
        /\ audioRuns = <<>> /\ cut = <<>>
        /\ \A i \in DOMAIN audioOut : audioOut[i].what # "chunk"
        /\ go["Audio"].pc \notin {"speech", "start", "tellStart", "write"}

\* Once any of the stops has returned the audio loop is gone, so what comes next
\* (closing the filter, the resampler and the connection) races with nothing.
StoppedSilent ==
    (go["Life"].pc = "exited" \/ \E g \in Goroutines : go[g].pc = "stopped")
        => go["Audio"].pc = "exited"

\* The bot gives up the floor sooner or later, also when no TTSStoppedFrame
\* follows its audio (botVADStopFallback), as long as the audio loop runs: stop
\* gives up the floor and then cancels the loop, which may take it in between.
FloorGivenUp == botSpeaking ~> (~botSpeaking \/ audioDone)

Draining == go["Proc"].pc = "draining"

\* An EndFrame gets through the output: its drain ends, whether the audio plays
\* out, the peer has stopped reading, or it is canceled or torn down meanwhile;
\* unless an interruption dropped its marker.
EndLeaves == Draining ~> (~Draining \/ cutDrain)
=============================================================================
