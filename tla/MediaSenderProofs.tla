------------------------- MODULE MediaSenderProofs -------------------------
(***************************************************************************)
(* Proofs about MediaSender, for any frames, any amount of audio in each   *)
(* and any size of a chunk: its type invariant, that the floor is told of  *)
(* once, that what follows a stop finds the audio loop gone, and that the  *)
(* drain of an EndFrame covers all audio ahead of it.                      *)
(***************************************************************************)
EXTENDS MediaSender, SubsequenceProofs

Go == [Goroutines -> [pc : Pcs, back : {"free", "stop", "check", "forward"}]]

(***************************************************************************)
(* Where a goroutine goes.                                                 *)
(***************************************************************************)
\* Goto and Call move one goroutine and leave the others.
Moves(g, pc, back) ==
    /\ go'[g].pc = pc /\ go'[g].back = back
    /\ \A h \in Goroutines \ {g} : go'[h] = go[h]

LEMMA GotoMoves ==
  ASSUME go \in Go, NEW g \in Goroutines, NEW pc \in Pcs, Goto(g, pc)
  PROVE  go' \in Go /\ Moves(g, pc, go[g].back)
  BY DEF Goto, Go, Moves

LEMMA CallMoves ==
  ASSUME go \in Go, NEW g \in Goroutines, NEW pc \in Pcs,
         NEW back \in {"free", "stop", "check", "forward"}, Call(g, pc, back)
  PROVE  go' \in Go /\ Moves(g, pc, back)
  BY DEF Call, Go, Moves

\* A goroutine that returns from giving up the floor is back where it came from.
LEMMA ReturnMoves ==
  ASSUME go \in Go, NEW g \in Goroutines, Return(g)
  PROVE  go' \in Go /\ Moves(g, go[g].back, "free")
<1>1. go[g].back \in {"free", "stop", "check", "forward"}
  BY DEF Go
<1>2. {"free", "stop", "check", "forward"} \subseteq Pcs
  BY DEF Pcs, StopPcs
<1>3. Call(g, go[g].back, "free")
  BY DEF Return, Handled
<1> QED BY <1>1, <1>2, <1>3, CallMoves

(***************************************************************************)
(* Cutting audio into chunks.                                              *)
(***************************************************************************)
LEMMA AudioOf ==
  ASSUME NEW f \in Frame, NEW n \in Nat
  PROVE  [i \in 1..n |-> f] \in Seq(Frame)
  OBVIOUS

LEMMA WholeChunks ==
  ASSUME NEW runs \in Seq(Frame)
  PROVE  /\ whole(runs) \in Nat
         /\ whole(runs) * ChunkSize \in Nat
         /\ whole(runs) * ChunkSize <= Len(runs)
         /\ Len(runs) - whole(runs) * ChunkSize < ChunkSize
<1>1. Len(runs) \in Nat
  OBVIOUS
<1> QED BY <1>1, ChunkAssumption DEF whole

LEMMA ChunkItem ==
  ASSUME NEW audio \in Seq(Frame)
  PROVE  chunk(audio) \in Item /\ chunk(audio).what = "chunk"
  BY DEF chunk, Item

\* What is cut off is a sequence of chunks, and what is left less than one.
LEMMA CutAudio ==
  ASSUME NEW runs \in Seq(Frame)
  PROVE  /\ chunks(runs) \in Seq(Item)
         /\ \A i \in 1..Len(chunks(runs)) : chunks(runs)[i].what = "chunk"
         /\ rest(runs) \in Seq(Frame) /\ Len(rest(runs)) < ChunkSize
<1> DEFINE w == whole(runs)
           piece(i) == SubSeq(runs, (i - 1) * ChunkSize + 1, i * ChunkSize)
<1>1. /\ w \in Nat /\ w * ChunkSize \in Nat /\ w * ChunkSize <= Len(runs)
      /\ Len(runs) - w * ChunkSize < ChunkSize /\ Len(runs) \in Nat /\ ChunkSize \in Nat
  BY WholeChunks, ChunkAssumption
<1>2. ASSUME NEW i \in 1..w PROVE piece(i) \in Seq(Frame)
  <2>1. i * ChunkSize <= w * ChunkSize /\ i * ChunkSize \in Nat /\ (i - 1) * ChunkSize \in Nat
    BY <1>1
  <2> QED BY <1>1, <2>1
<1>3. chunks(runs) = [i \in 1..w |-> chunk(piece(i))]
  BY DEF chunks
<1> HIDE DEF piece, w
<1>4. \A i \in 1..w : chunk(piece(i)) \in Item /\ chunk(piece(i)).what = "chunk"
  BY <1>2, ChunkItem
<1>5. chunks(runs) \in Seq(Item) /\ Len(chunks(runs)) = w
  BY <1>1, <1>3, <1>4
<1>6. rest(runs) \in Seq(Frame) /\ Len(rest(runs)) = Len(runs) - w * ChunkSize
  BY <1>1 DEF rest, w
<1> QED BY <1>1, <1>3, <1>4, <1>5, <1>6

LEMMA FlushedAudio ==
  ASSUME NEW runs \in Seq(Frame)
  PROVE  /\ flushed(runs) \in Seq(Item)
         /\ \A i \in 1..Len(flushed(runs)) : flushed(runs)[i].what = "chunk"
<1> DEFINE tail == IF rest(runs) = <<>> THEN <<>> ELSE <<chunk(rest(runs))>>
<1>1. /\ chunks(runs) \in Seq(Item)
      /\ \A i \in 1..Len(chunks(runs)) : chunks(runs)[i].what = "chunk"
      /\ rest(runs) \in Seq(Frame)
  BY CutAudio
<1>2. tail \in Seq(Item) /\ \A i \in 1..Len(tail) : tail[i].what = "chunk"
  <2>1. CASE rest(runs) = <<>>
    BY <2>1
  <2>2. CASE rest(runs) # <<>>
    <3>1. chunk(rest(runs)) \in Item /\ chunk(rest(runs)).what = "chunk"
      BY <1>1, ChunkItem
    <3> QED BY <2>2, <3>1
  <2> QED BY <2>1, <2>2
<1>3. flushed(runs) = chunks(runs) \o tail
  BY DEF flushed
<1> HIDE DEF tail
<1>4. /\ chunks(runs) \o tail \in Seq(Item)
      /\ Len(chunks(runs) \o tail) = Len(chunks(runs)) + Len(tail)
      /\ \A i \in 1..Len(chunks(runs)) + Len(tail) :
           (chunks(runs) \o tail)[i] = IF i <= Len(chunks(runs)) THEN chunks(runs)[i]
                                       ELSE tail[i - Len(chunks(runs))]
  BY <1>1, <1>2, ConcatProperties
<1>5. Len(chunks(runs)) \in Nat /\ Len(tail) \in Nat
  BY <1>1, <1>2
<1> QED BY <1>1, <1>2, <1>3, <1>4, <1>5

(***************************************************************************)
(* The type invariant needs to know whose hands a frame is in: the process *)
(* goroutine has one exactly when it is not free.                          *)
(***************************************************************************)
HandOK == IF go["Proc"].pc = "free" THEN frame = NoFrame ELSE frame \in Frame

TypeInv == TypeOK /\ HandOK

LEMMA Kinds ==
  /\ Kind \in [Frame -> InOrderKinds \cup SystemKinds] /\ Size \in [Frame -> Nat]
  /\ NoFrame \notin Frame /\ {"Proc", "Input", "Audio", "Life"} = Goroutines
  BY FrameAssumption DEF Goroutines

LEMMA TypeInit == Init => TypeInv
<1> SUFFICES ASSUME Init PROVE TypeInv
  OBVIOUS
<1>1. go \in Go /\ go["Proc"].pc = "free"
  BY DEF Init, Go, Pcs, Goroutines
<1>2. Len(audioRuns) < ChunkSize
  BY ChunkAssumption DEF Init
<1>3. /\ todo \in Seq(Frame) /\ audioRuns \in Seq(Frame)
      /\ cut \in Seq(Item) /\ audioOut \in Seq(Item)
  <2>1. <<>> \in Seq(Frame) /\ <<>> \in Seq(Item)
    BY EmptySeq
  <2> QED BY <2>1 DEF Init
<1>4. unsent \subseteq Frame /\ frame = NoFrame /\ lifeMu = "none" /\ told \in Int
  BY DEF Init
<1>5. {procStop, audioCancel, audioDone, drainWait, drained, botSpeaking,
       ttsAudioReceived, cutDrain} \subseteq BOOLEAN
  <2>1. /\ procStop = FALSE /\ audioDone = FALSE /\ audioCancel = TRUE /\ drainWait = FALSE
        /\ drained = FALSE /\ cutDrain = FALSE /\ botSpeaking = FALSE
        /\ ttsAudioReceived = FALSE
    BY Zenon DEF Init
  <2> QED BY <2>1
<1> QED BY <1>1, <1>2, <1>3, <1>4, <1>5 DEF Go, TypeInv, TypeOK, HandOK

\* Frames the process goroutine is handed and takes.
LEMMA TypeLine ==
  ASSUME TypeInv,
         \/ \E f \in Frame : QueueFrame(f) \/ TakeSystem(f)
         \/ TakeFrame \/ Cleanup
  PROVE  TypeInv'
<1>0. go \in Go
  BY DEF TypeInv, TypeOK, Go
<1> USE Kinds DEF TypeInv, TypeOK, HandOK, bufVars, loopVars, stopVars, drainVars, floorVars,
                  lineVars
<1>1. ASSUME NEW f \in Frame, QueueFrame(f) PROVE TypeInv'
  BY <1>1 DEF QueueFrame
<1>2. CASE TakeFrame
  <2>1. Head(todo) \in Frame /\ Tail(todo) \in Seq(Frame)
    BY <1>2 DEF TakeFrame
  <2>2. PICK pc \in {"audio", "flush"} : Goto("Proc", pc)
    BY <1>2 DEF TakeFrame
  <2>3. pc \in Pcs /\ pc # "free"
    BY <2>2 DEF Pcs
  <2>4. go' \in Go /\ go'["Proc"].pc = pc
    BY <1>0, <2>2, <2>3, GotoMoves DEF Moves
  <2> QED BY <1>2, <2>1, <2>3, <2>4 DEF TakeFrame, Go
<1>3. ASSUME NEW f \in Frame, TakeSystem(f) PROVE TypeInv'
  <2>1. PICK pc \in {"spared", "interruption", "cancel"} : Goto("Input", pc)
    BY <1>3 DEF TakeSystem, SystemKinds
  <2>2. pc \in Pcs
    BY <2>1 DEF Pcs
  <2>3. go' \in Go /\ go'["Proc"] = go["Proc"]
    BY <1>0, <2>1, <2>2, GotoMoves DEF Moves
  <2> QED BY <1>3, <2>3 DEF TakeSystem, Go
<1>4. CASE Cleanup
  <2>1. "floor" \in Pcs /\ Call("Life", "floor", "stop")
    BY <1>4 DEF Cleanup, Pcs, StopPcs
  <2>2. go' \in Go /\ go'["Proc"] = go["Proc"]
    BY <1>0, <2>1, CallMoves DEF Moves
  <2> QED BY <1>4, <2>2 DEF Cleanup, Go
<1> QED BY <1>1, <1>2, <1>3, <1>4

\* The process goroutine handling a frame.
LEMMA TypeProc ==
  ASSUME TypeInv,
         \/ handleAudioFrame \/ enqueueFlushedAudioBuffer \/ PushChunk \/ ChunksPushed
         \/ QueueBehind \/ drainAudio \/ PushMarker \/ DrainOver
  PROVE  TypeInv'
<1>0. go \in Go /\ audioRuns \in Seq(Frame) /\ cut \in Seq(Item) /\ audioOut \in Seq(Item)
  BY DEF TypeInv, TypeOK, Go
<1>a. ASSUME NEW pc \in Pcs \ {"free"}, Goto("Proc", pc) \/ Call("Proc", pc, "stop")
      PROVE  go' \in Go /\ go'["Proc"].pc = pc
  BY <1>0, <1>a, GotoMoves, CallMoves, Kinds DEF Moves
<1>b. {"push", "queue", "drain", "mark", "draining", "floor"} \subseteq Pcs \ {"free"}
  BY DEF Pcs, StopPcs
<1> USE Kinds DEF TypeInv, TypeOK, HandOK, bufVars, loopVars, stopVars, drainVars, floorVars,
                  lineVars
<1>1. CASE handleAudioFrame
  <2> DEFINE more == [i \in 1..Size[frame] |-> frame]
             runs == audioRuns \o more
  <2>1. frame \in Frame /\ Size[frame] \in Nat
    BY <1>1 DEF handleAudioFrame
  <2>2. more \in Seq(Frame)
    BY <2>1, AudioOf
  <2> HIDE DEF more
  <2>3. runs \in Seq(Frame)
    BY <1>0, <2>2, ConcatProperties
  <2>4. audioRuns' = rest(runs) /\ cut' = chunks(runs)
    BY <1>1 DEF handleAudioFrame, more
  <2> HIDE DEF runs
  <2>5. audioRuns' \in Seq(Frame) /\ Len(audioRuns') < ChunkSize /\ cut' \in Seq(Item)
    BY <2>3, <2>4, CutAudio
  <2>6. go' \in Go /\ go'["Proc"].pc = "push"
    BY <1>1, <1>a, <1>b DEF handleAudioFrame
  <2> QED BY <1>1, <2>1, <2>5, <2>6 DEF handleAudioFrame, Go
<1>2. CASE enqueueFlushedAudioBuffer
  <2>1. go' \in Go /\ go'["Proc"].pc = "push"
    BY <1>2, <1>a, <1>b DEF enqueueFlushedAudioBuffer
  <2>2. cut' \in Seq(Item) /\ audioRuns' \in Seq(Frame) /\ Len(audioRuns') < ChunkSize
    BY <1>0, <1>2, FlushedAudio, ChunkAssumption DEF enqueueFlushedAudioBuffer
  <2> QED BY <1>2, <2>1, <2>2 DEF enqueueFlushedAudioBuffer, Go
<1>3. CASE PushChunk
  <2>1. Head(cut) \in Item /\ Tail(cut) \in Seq(Item)
    BY <1>0, <1>3 DEF PushChunk
  <2> QED BY <1>0, <1>3, <2>1 DEF PushChunk
<1>4. CASE ChunksPushed
  <2>1. CASE Handled("Proc")
    <3>1. "free" \in Pcs
      BY DEF Pcs
    <3>2. go' \in Go /\ go'["Proc"].pc = "free"
      BY <1>0, <2>1, <3>1, CallMoves DEF Handled, Moves
    <3> QED BY <1>4, <2>1, <3>2 DEF ChunksPushed, Handled, Go
  <2>2. ASSUME NEW pc \in {"queue", "drain"}, Goto("Proc", pc), UNCHANGED frame PROVE TypeInv'
    <3>1. go' \in Go /\ go'["Proc"].pc = pc /\ pc # "free"
      BY <1>a, <1>b, <2>2
    <3> QED BY <1>4, <2>2, <3>1 DEF ChunksPushed, Go
  <2> QED BY <1>4, <2>1, <2>2 DEF ChunksPushed
<1>5. CASE QueueBehind
  <2>1. frame \in Frame
    BY <1>5 DEF QueueBehind
  <2>2. queued(frame) \in Item
    BY <2>1 DEF queued, Item
  <2>3. audioOut' \in Seq(Item)
    BY <1>0, <1>5, <2>2 DEF QueueBehind
  <2>4. "free" \in Pcs
    BY DEF Pcs
  <2>5. go' \in Go /\ go'["Proc"].pc = "free" /\ frame' = NoFrame
    BY <1>0, <1>5, <2>4, CallMoves DEF QueueBehind, Handled, Moves
  <2> QED BY <1>5, <2>3, <2>5 DEF QueueBehind, Go
<1>6. CASE drainAudio
  <2>1. go' \in Go /\ go'["Proc"].pc = "mark"
    BY <1>6, <1>a, <1>b DEF drainAudio
  <2> QED BY <1>6, <2>1 DEF drainAudio, Go
<1>7. CASE PushMarker
  <2>1. go' \in Go /\ go'["Proc"].pc = "draining"
    BY <1>7, <1>a, <1>b DEF PushMarker
  <2>2. drainMarker \in Item
    BY DEF drainMarker, Item
  <2>3. audioOut' \in Seq(Item)
    BY <1>0, <1>7, <2>2 DEF PushMarker
  <2> QED BY <1>7, <2>1, <2>3 DEF PushMarker, Go
<1>8. CASE DrainOver
  <2>1. go' \in Go /\ go'["Proc"].pc = "floor"
    BY <1>8, <1>a, <1>b DEF DrainOver
  <2> QED BY <1>8, <2>1 DEF DrainOver, Go
<1> QED BY <1>1, <1>2, <1>3, <1>4, <1>5, <1>6, <1>7, <1>8

\* Giving up the floor and stopping, by whichever goroutine.
LEMMA TypeStop ==
  ASSUME TypeInv, NEW g \in Goroutines, GiveUpFloor(g) \/ (g # "Audio" /\ StopStep(g))
  PROVE  TypeInv'
<1>0. go \in Go /\ go[g] \in [pc : Pcs, back : {"free", "stop", "check", "forward"}]
  BY DEF TypeInv, TypeOK, Go
<1>a. ASSUME NEW pc \in Pcs \ {"free"}, Goto(g, pc), UNCHANGED frame, go[g].pc # "free"
      PROVE  go' \in Go /\ HandOK'
  <2>1. go' \in Go /\ Moves(g, pc, go[g].back)
    BY <1>0, <1>a, GotoMoves
  <2> QED BY <1>a, <2>1, Kinds DEF Moves, TypeInv, HandOK
<1>b. ASSUME Return(g), go[g].pc # "free" PROVE go' \in Go /\ HandOK'
  <2>1. go' \in Go /\ Moves(g, go[g].back, "free")
    BY <1>0, <1>b, ReturnMoves
  <2>2. (g = "Proc" /\ go[g].back = "free" /\ frame' = NoFrame) \/ UNCHANGED frame
    BY <1>b DEF Return, Handled
  <2>3. go[g].back # "free" => UNCHANGED frame
    BY <1>b DEF Return
  <2>4. g = "Proc" /\ go[g].back = "free" => frame' = NoFrame
    BY <1>b DEF Return, Handled
  <2> QED BY <1>b, <2>1, <2>2, <2>3, <2>4, Kinds DEF Moves, TypeInv, HandOK
<1>c. {"clear", "tell", "join", "stopped"} \subseteq Pcs \ {"free"}
  BY DEF Pcs, StopPcs
<1>d. go' \in Go /\ HandOK' => HandOK' /\ go' \in [Goroutines -> [pc : Pcs, back : {"free", "stop", "check", "forward"}]]
  BY DEF Go
<1> USE DEF bufVars, loopVars, stopVars, drainVars, floorVars, lineVars
<1>1. CASE botStoppedSpeaking(g)
  <2>1. go' \in Go /\ HandOK'
    BY <1>1, <1>a, <1>b, <1>c DEF botStoppedSpeaking
  <2>2. frame' \in Frame \cup {NoFrame}
    BY <1>1 DEF botStoppedSpeaking, TypeInv, TypeOK, Return, Handled
  <2> QED BY <1>1, <1>d, <2>1, <2>2 DEF botStoppedSpeaking, TypeInv, TypeOK
<1>2. CASE clearAudioBuffer(g)
  <2>1. go' \in Go /\ HandOK'
    BY <1>2, <1>a, <1>c DEF clearAudioBuffer
  <2>2. audioRuns' \in Seq(Frame) /\ Len(audioRuns') < ChunkSize
    BY <1>2, ChunkAssumption DEF clearAudioBuffer
  <2> QED BY <1>2, <1>d, <2>1, <2>2 DEF clearAudioBuffer, TypeInv, TypeOK
<1>3. CASE BroadcastStopped(g)
  <2>1. go' \in Go /\ HandOK'
    BY <1>3, <1>b DEF BroadcastStopped
  <2>2. frame' \in Frame \cup {NoFrame}
    BY <1>3 DEF BroadcastStopped, TypeInv, TypeOK, Return, Handled
  <2> QED BY <1>3, <1>d, <2>1, <2>2 DEF BroadcastStopped, TypeInv, TypeOK
<1>4. CASE g # "Audio" /\ stop(g)
  <2>1. go' \in Go /\ HandOK'
    BY <1>4, <1>a, <1>c DEF stop
  <2> QED BY <1>4, <1>d, <2>1, Kinds DEF stop, TypeInv, TypeOK
<1>5. CASE JoinLoop(g)
  <2>1. go' \in Go /\ HandOK'
    BY <1>5, <1>a, <1>c DEF JoinLoop
  <2> QED BY <1>5, <1>d, <2>1 DEF JoinLoop, TypeInv, TypeOK
<1>6. CASE Stopped(g)
  <2>1. go' \in Go /\ HandOK'
    <3>1. CASE g = "Life"
      <4>1. "exited" \in Pcs /\ Goto(g, "exited") /\ UNCHANGED frame
        BY <1>6, <3>1 DEF Stopped, Pcs
      <4>2. go' \in Go /\ Moves(g, "exited", go[g].back)
        BY <1>0, <4>1, GotoMoves
      <4> QED BY <3>1, <4>1, <4>2, Kinds DEF Moves, TypeInv, HandOK
    <3>2. CASE g # "Life"
      <4>1. "free" \in Pcs /\ Handled(g)
        BY <1>6, <3>2 DEF Stopped, Pcs
      <4>2. go' \in Go /\ Moves(g, "free", "free")
        BY <1>0, <4>1, CallMoves DEF Handled
      <4> QED BY <3>2, <4>1, <4>2, Kinds DEF Moves, Handled, TypeInv, HandOK
    <3> QED BY <3>1, <3>2
  <2>2. frame' \in Frame \cup {NoFrame}
    BY <1>6 DEF Stopped, TypeInv, TypeOK, Handled
  <2> QED BY <1>6, <1>d, <2>1, <2>2 DEF Stopped, TypeInv, TypeOK
<1> QED BY <1>1, <1>2, <1>3, <1>4, <1>5, <1>6 DEF GiveUpFloor, StopStep

\* What an interruption keeps of the queue and of the buffer.
LEMMA ResetKeeps ==
  ASSUME audioOut \in Seq(Item)
  PROVE  /\ reset(audioOut) \in Seq(Item)
         /\ \E from \in [1..Len(reset(audioOut)) -> 1..Len(audioOut)] :
              \A k \in 1..Len(reset(audioOut)) :
                 reset(audioOut)[k] = audioOut[from[k]] /\ audioOut[from[k]].keep
<1> DEFINE K == {i \in 1..Len(audioOut) : audioOut[i].keep}
<1>1. K \in SUBSET (1..Len(audioOut)) /\ \A i \in K : audioOut[i].keep
  OBVIOUS
<1>2. reset(audioOut) = Pick(audioOut, K)
  BY DEF reset
<1> HIDE DEF K
<1>3. /\ reset(audioOut) \in Seq(Item)
      /\ \E from \in [1..Len(reset(audioOut)) -> K] :
           \A k \in 1..Len(reset(audioOut)) : reset(audioOut)[k] = audioOut[from[k]]
  <2> DEFINE p == Pick(audioOut, K)
  <2>1. /\ p \in Seq(Item) /\ Len(p) <= Len(audioOut)
        /\ \E from \in [1..Len(p) -> K] :
             /\ \A k \in 1..Len(p) : p[k] = audioOut[from[k]]
             /\ \A k, l \in 1..Len(p) : k < l => from[k] < from[l]
    BY <1>1, PickProperties
  <2> HIDE DEF p
  <2>2. reset(audioOut) = p
    BY <1>2 DEF p
  <2> QED BY <2>1, <2>2
<1>4. PICK from \in [1..Len(reset(audioOut)) -> K] :
         \A k \in 1..Len(reset(audioOut)) : reset(audioOut)[k] = audioOut[from[k]]
  BY <1>3
<1>5. from \in [1..Len(reset(audioOut)) -> 1..Len(audioOut)]
  BY <1>1
<1>6. \A k \in 1..Len(reset(audioOut)) : audioOut[from[k]].keep
  BY <1>1
<1> QED BY <1>3, <1>4, <1>5, <1>6

LEMMA UninterruptibleKept ==
  ASSUME NEW s \in Seq(Frame)
  PROVE  LET p == Pick(s, Uninterruptible(s)) IN
         /\ p \in Seq(Frame) /\ Len(p) <= Len(s)
         /\ \E from \in [1..Len(p) -> 1..Len(s)] :
              /\ \A k \in 1..Len(p) : p[k] = s[from[k]]
              /\ \A k, l \in 1..Len(p) : k < l => from[k] < from[l]
<1> DEFINE K == Uninterruptible(s)
           p == Pick(s, K)
<1>1. K \in SUBSET (1..Len(s))
  BY DEF Uninterruptible
<1> HIDE DEF K
<1>2. /\ p \in Seq(Frame) /\ Len(p) <= Len(s)
      /\ \E from \in [1..Len(p) -> K] :
           /\ \A k \in 1..Len(p) : p[k] = s[from[k]]
           /\ \A k, l \in 1..Len(p) : k < l => from[k] < from[l]
  BY <1>1, PickProperties
<1>3. [1..Len(p) -> K] \subseteq [1..Len(p) -> 1..Len(s)]
  BY <1>1
<1> QED BY <1>2, <1>3 DEF K

\* The input goroutine handling a system frame.
LEMMA TypeInput ==
  ASSUME TypeInv, startInterruption \/ CancelJoined \/ ResetQueue \/ ResetBuffer \/ AudioLeft
  PROVE  TypeInv'
<1>0. /\ go \in Go /\ todo \in Seq(Frame) /\ audioRuns \in Seq(Frame)
      /\ audioOut \in Seq(Item) /\ Len(audioRuns) < ChunkSize
  BY DEF TypeInv, TypeOK, Go
<1>a. ASSUME NEW pc \in Pcs, NEW back \in {"free", "stop", "check", "forward"},
             Goto("Input", pc) \/ Call("Input", pc, back), UNCHANGED frame
      PROVE  HandOK' /\ go' \in [Goroutines -> [pc : Pcs, back : {"free", "stop", "check", "forward"}]]
  <2>1. go' \in Go /\ go'["Proc"] = go["Proc"]
    <3>1. CASE Goto("Input", pc)
      BY <1>0, <3>1, GotoMoves, Kinds DEF Moves
    <3>2. CASE Call("Input", pc, back)
      <4>1. "Input" \in Goroutines /\ "Proc" \in Goroutines \ {"Input"}
        BY DEF Goroutines
      <4>2. go' \in Go /\ Moves("Input", pc, back)
        BY <1>0, <3>2, <4>1, CallMoves
      <4> QED BY <4>1, <4>2 DEF Moves
    <3> QED BY <1>a, <3>1, <3>2
  <2> QED BY <1>a, <2>1 DEF Go, TypeInv, HandOK
<1>b. {"reset", "floor", "resetBuffer", "audioLeft", "free"} \subseteq Pcs
  BY DEF Pcs, StopPcs
<1> USE DEF bufVars, loopVars, stopVars, drainVars, floorVars, lineVars
<1>1. CASE startInterruption
  <2>1. todo' \in Seq(Frame)
    BY <1>0, <1>1, UninterruptibleKept DEF startInterruption
  <2>2. HandOK' /\ go' \in [Goroutines -> [pc : Pcs, back : {"free", "stop", "check", "forward"}]]
    BY <1>1, <1>a, <1>b DEF startInterruption
  <2>3. procStop' \in BOOLEAN
    BY <1>1 DEF startInterruption, baseDone, TypeInv, TypeOK
  <2> QED BY <1>1, <2>1, <2>2, <2>3 DEF startInterruption, TypeInv, TypeOK
<1>2. CASE CancelJoined
  <2>1. HandOK' /\ go' \in [Goroutines -> [pc : Pcs, back : {"free", "stop", "check", "forward"}]]
    BY <1>2, <1>a, <1>b DEF CancelJoined
  <2> QED BY <1>2, <2>1 DEF CancelJoined, TypeInv, TypeOK
<1>3. CASE ResetQueue
  <2>1. audioOut' \in Seq(Item)
    BY <1>0, <1>3, ResetKeeps DEF ResetQueue
  <2>2. HandOK' /\ go' \in [Goroutines -> [pc : Pcs, back : {"free", "stop", "check", "forward"}]]
    BY <1>3, <1>a, <1>b DEF ResetQueue
  <2>3. cutDrain' \in BOOLEAN
    BY <1>3 DEF ResetQueue, TypeInv, TypeOK
  <2> QED BY <1>3, <2>1, <2>2, <2>3 DEF ResetQueue, TypeInv, TypeOK
<1>4. CASE ResetBuffer
  <2>1. audioRuns' \in Seq(Frame) /\ Len(audioRuns') <= Len(audioRuns)
    BY <1>0, <1>4, UninterruptibleKept DEF ResetBuffer, keepUninterruptibleAudio
  <2>2. Len(audioRuns') < ChunkSize
    BY <1>0, <2>1, ChunkAssumption
  <2>3. HandOK' /\ go' \in [Goroutines -> [pc : Pcs, back : {"free", "stop", "check", "forward"}]]
    BY <1>4, <1>a, <1>b DEF ResetBuffer
  <2> QED BY <1>4, <2>1, <2>2, <2>3 DEF ResetBuffer, TypeInv, TypeOK
<1>5. CASE AudioLeft
  <2>1. HandOK' /\ go' \in [Goroutines -> [pc : Pcs, back : {"free", "stop", "check", "forward"}]]
    BY <1>5, <1>a, <1>b DEF AudioLeft
  <2> QED BY <1>5, <2>1 DEF AudioLeft, TypeInv, TypeOK
<1> QED BY <1>1, <1>2, <1>3, <1>4, <1>5

\* The steps of the audio loop itself.
LoopStep ==
    \/ CheckContext \/ tryGet \/ NothingQueued \/ Wake \/ IdleTimer
    \/ handleBotSpeech \/ botStartedSpeaking \/ BroadcastStarted \/ writeAudio \/ WriteAudio
    \/ ttsStopped \/ Forward \/ signalDrained

LEMMA TypeLoop == TypeInv /\ LoopStep => TypeInv'
<1> SUFFICES ASSUME TypeInv, LoopStep PROVE TypeInv'
  OBVIOUS
<1>0. go \in Go /\ audioOut \in Seq(Item) /\ told \in Int
  BY DEF TypeInv, TypeOK, Go
<1>a. ASSUME NEW pc \in Pcs, NEW back \in {"free", "stop", "check", "forward"},
             Goto("Audio", pc) \/ Call("Audio", pc, back), UNCHANGED frame
      PROVE  HandOK' /\ go' \in [Goroutines -> [pc : Pcs, back : {"free", "stop", "check", "forward"}]]
  <2>1. go' \in Go /\ go'["Proc"] = go["Proc"]
    BY <1>0, <1>a, GotoMoves, CallMoves, Kinds DEF Moves
  <2> QED BY <1>a, <2>1 DEF Go, TypeInv, HandOK
<1>b. {"check", "get", "idle", "exited", "floor", "drained", "speech", "ttsStopped", "start",
       "write", "tellStart", "forward"} \subseteq Pcs
  BY DEF Pcs, StopPcs
<1> USE DEF bufVars, loopVars, stopVars, drainVars, floorVars, lineVars, LoopUnchanged
<1>1. CASE CheckContext
  <2>1. HandOK' /\ go' \in [Goroutines -> [pc : Pcs, back : {"free", "stop", "check", "forward"}]]
    BY <1>1, <1>a, <1>b DEF CheckContext
  <2> QED BY <1>1, <2>1 DEF CheckContext, TypeInv, TypeOK
<1>2. CASE tryGet
  <2>1. Head(audioOut) \in Item /\ Tail(audioOut) \in Seq(Item)
    BY <1>0, <1>2 DEF tryGet
  <2>2. PlayPc(Head(audioOut)) \in {"drained", "speech", "ttsStopped"}
    BY <2>1 DEF PlayPc, Item
  <2>3. HandOK' /\ go' \in [Goroutines -> [pc : Pcs, back : {"free", "stop", "check", "forward"}]]
    BY <1>2, <1>a, <1>b, <2>2 DEF tryGet
  <2> QED BY <1>2, <2>1, <2>3 DEF tryGet, TypeInv, TypeOK
<1>3. CASE NothingQueued
  <2>1. HandOK' /\ go' \in [Goroutines -> [pc : Pcs, back : {"free", "stop", "check", "forward"}]]
    BY <1>3, <1>a, <1>b DEF NothingQueued
  <2> QED BY <1>3, <2>1 DEF NothingQueued, TypeInv, TypeOK
<1>4. CASE Wake
  <2>1. HandOK' /\ go' \in [Goroutines -> [pc : Pcs, back : {"free", "stop", "check", "forward"}]]
    BY <1>4, <1>a, <1>b DEF Wake
  <2> QED BY <1>4, <2>1 DEF Wake, TypeInv, TypeOK
<1>5. CASE IdleTimer
  <2>1. HandOK' /\ go' \in [Goroutines -> [pc : Pcs, back : {"free", "stop", "check", "forward"}]]
    BY <1>5, <1>a, <1>b DEF IdleTimer
  <2> QED BY <1>5, <2>1 DEF IdleTimer, TypeInv, TypeOK
<1>6. CASE handleBotSpeech
  <2>1. HandOK' /\ go' \in [Goroutines -> [pc : Pcs, back : {"free", "stop", "check", "forward"}]]
    BY <1>6, <1>a, <1>b DEF handleBotSpeech
  <2> QED BY <1>6, <2>1 DEF handleBotSpeech, TypeInv, TypeOK
<1>7. CASE botStartedSpeaking
  <2>1. HandOK' /\ go' \in [Goroutines -> [pc : Pcs, back : {"free", "stop", "check", "forward"}]]
    BY <1>7, <1>a, <1>b DEF botStartedSpeaking
  <2> QED BY <1>7, <2>1 DEF botStartedSpeaking, TypeInv, TypeOK
<1>8. CASE BroadcastStarted
  <2>1. HandOK' /\ go' \in [Goroutines -> [pc : Pcs, back : {"free", "stop", "check", "forward"}]]
    BY <1>8, <1>a, <1>b DEF BroadcastStarted
  <2> QED BY <1>8, <2>1 DEF BroadcastStarted, TypeInv, TypeOK
<1>9. CASE writeAudio \/ WriteAudio
  <2>1. HandOK' /\ go' \in [Goroutines -> [pc : Pcs, back : {"free", "stop", "check", "forward"}]]
    BY <1>9, <1>a, <1>b DEF writeAudio, WriteAudio
  <2> QED BY <1>9, <2>1 DEF writeAudio, WriteAudio, TypeInv, TypeOK
<1>10. CASE ttsStopped
  <2>1. HandOK' /\ go' \in [Goroutines -> [pc : Pcs, back : {"free", "stop", "check", "forward"}]]
    BY <1>10, <1>a, <1>b DEF ttsStopped
  <2> QED BY <1>10, <2>1 DEF ttsStopped, TypeInv, TypeOK
<1>11. CASE Forward
  <2>1. HandOK' /\ go' \in [Goroutines -> [pc : Pcs, back : {"free", "stop", "check", "forward"}]]
    BY <1>11, <1>a, <1>b DEF Forward
  <2> QED BY <1>11, <2>1 DEF Forward, TypeInv, TypeOK
<1>12. CASE signalDrained
  <2>1. HandOK' /\ go' \in [Goroutines -> [pc : Pcs, back : {"free", "stop", "check", "forward"}]]
    BY <1>12, <1>a, <1>b DEF signalDrained
  <2> QED BY <1>12, <2>1 DEF signalDrained, TypeInv, TypeOK
<1> QED BY <1>1, <1>2, <1>3, <1>4, <1>5, <1>6, <1>7, <1>8, <1>9, <1>10, <1>11, <1>12 DEF LoopStep

LEMMA TypeNext == TypeInv /\ [Next]_vars => TypeInv'
<1> SUFFICES ASSUME TypeInv, [Next]_vars PROVE TypeInv'
  OBVIOUS
<1>1. CASE UNCHANGED vars
  BY <1>1 DEF vars, TypeInv, TypeOK, HandOK, lineVars, bufVars, loopVars, stopVars, drainVars,
     floorVars
<1>2. CASE ProcStep
  BY <1>2, TypeProc, TypeStop, TypeLine, Kinds DEF ProcStep
<1>3. CASE InputStep
  BY <1>3, TypeInput, TypeStop, Kinds DEF InputStep
<1>4. CASE AudioStep \/ WriteAudio
  BY <1>4, TypeLoop, TypeStop, Kinds DEF AudioStep, LoopStep
<1>5. CASE LifeStep
  BY <1>5, TypeStop, Kinds DEF LifeStep
<1>6. CASE Cleanup \/ \E f \in Frame : QueueFrame(f) \/ TakeSystem(f)
  BY <1>6, TypeLine
<1> QED BY <1>1, <1>2, <1>3, <1>4, <1>5, <1>6 DEF Next

\* Every variable keeps its type, and the buffer never holds a whole chunk
\* between two critical sections of bufMu, whatever the amount of audio a frame
\* carries (handleAudioFrame, takeAudioChunk).
THEOREM TypeCorrect == Spec => []TypeOK
<1>1. TypeInv => TypeOK
  BY DEF TypeInv
<1> QED BY <1>1, TypeInit, TypeNext, PTL DEF Spec
(***************************************************************************)
(* Stopping.  Whoever is in stop holds lifeMu, and once audioCancel is nil *)
(* and nobody is in stop the audio loop has ended: so the caller that      *)
(* finds nothing to cancel may return at once.  The audio loop itself      *)
(* gives up the floor but never stops, or it would wait for itself.        *)
(***************************************************************************)
LoopNeverStops ==
    go["Audio"].pc \notin {"stop", "join", "stopped"} /\ go["Audio"].back # "stop"
StopHolds ==
    \A g \in Goroutines : go[g].pc \in {"join", "stopped"} => lifeMu = g /\ ~audioCancel
CanceledEnds == ~audioCancel /\ lifeMu = "none" => go["Audio"].pc = "exited"

StopInv == LoopNeverStops /\ StopHolds /\ CanceledEnds /\ StoppedSilent

LEMMA StopInit == Init => StopInv
  BY DEF Init, StopInv, LoopNeverStops, StopHolds, CanceledEnds, StoppedSilent, Goroutines

\* A goroutine that moves elsewhere than inside stop.
Elsewhere(g, pc, back) ==
    /\ Moves(g, pc, back) /\ pc \notin {"join", "stopped"}
    /\ g = "Life" => pc # "exited"
    /\ g = "Audio" => go[g].pc # "exited" /\ pc # "stop" /\ back # "stop"

LEMMA StopKept ==
  ASSUME StopInv, UNCHANGED stopVars, NEW g \in Goroutines, NEW pc, NEW back,
         Elsewhere(g, pc, back)
  PROVE  StopInv'
<1>1. lifeMu' = lifeMu /\ audioCancel' = audioCancel
  BY DEF stopVars
<1>2. /\ go'[g].pc = pc /\ go'[g].back = back /\ \A h \in Goroutines \ {g} : go'[h] = go[h]
      /\ pc \notin {"join", "stopped"} /\ (g = "Life" => pc # "exited")
      /\ (g = "Audio" => go[g].pc # "exited" /\ pc # "stop" /\ back # "stop")
  BY DEF Elsewhere, Moves
<1>3. LoopNeverStops'
  BY <1>2, Kinds DEF StopInv, LoopNeverStops
<1>4. StopHolds'
  BY <1>1, <1>2, Kinds DEF StopInv, StopHolds
<1>5. CASE g = "Audio"
  <2>1. go["Life"].pc # "exited" /\ \A h \in Goroutines : go[h].pc # "stopped"
    BY <1>2, <1>5 DEF StopInv, StoppedSilent
  <2>2. go'["Life"].pc # "exited" /\ \A h \in Goroutines : go'[h].pc # "stopped"
    BY <1>2, <1>5, <2>1, Kinds
  <2>3. ~(~audioCancel /\ lifeMu = "none")
    BY <1>2, <1>5 DEF StopInv, CanceledEnds
  <2> QED BY <1>1, <1>3, <1>4, <2>2, <2>3 DEF StopInv, StoppedSilent, CanceledEnds
<1>6. CASE g # "Audio"
  <2>1. go'["Audio"] = go["Audio"]
    BY <1>2, <1>6, Kinds
  <2>2. \A h \in Goroutines : go'[h].pc = "stopped" => go[h].pc = "stopped"
    BY <1>2
  <2>3. go'["Life"].pc = "exited" => go["Life"].pc = "exited"
    BY <1>2, Kinds
  <2> QED BY <1>1, <1>3, <1>4, <2>1, <2>2, <2>3 DEF StopInv, StoppedSilent, CanceledEnds
<1> QED BY <1>5, <1>6

LEMMA StopSteps ==
  ASSUME TypeInv, StopInv, NEW g \in Goroutines \ {"Audio"}, StopStep(g)
  PROVE  StopInv'
<1>0. go \in Go /\ {"join", "stopped", "exited", "free"} \subseteq Pcs
  BY DEF TypeInv, TypeOK, Go, Pcs, StopPcs
<1>1. CASE stop(g)
  <2>1. /\ lifeMu = "none" /\ lifeMu' = g /\ audioCancel' = FALSE /\ g # "none"
    BY <1>1 DEF stop, Goroutines
  <2>2. PICK pc \in {"join", "stopped"} :
           Goto(g, pc) /\ (pc = "stopped" => ~audioCancel)
    BY <1>1 DEF stop
  <2>3. Moves(g, pc, go[g].back)
    BY <1>0, <2>2, GotoMoves
  <2>4. go'["Audio"] = go["Audio"] /\ g # "Audio" /\ "Life" \in Goroutines
    BY <2>3, Kinds DEF Moves
  <2>5. \A h \in Goroutines \ {g} : go'[h].pc \notin {"join", "stopped"}
    BY <2>1, <2>3 DEF Moves, StopInv, StopHolds, Goroutines
  <2>6. pc = "stopped" => go["Audio"].pc = "exited"
    BY <2>1, <2>2 DEF StopInv, CanceledEnds
  <2>7. go'["Life"].pc = "exited" => go["Audio"].pc = "exited"
    BY <2>2, <2>3, <2>4 DEF Moves, StopInv, StoppedSilent
  <2>8. LoopNeverStops' /\ StopHolds' /\ CanceledEnds'
    BY <2>1, <2>3, <2>4, <2>5 DEF Moves, StopInv, LoopNeverStops, StopHolds, CanceledEnds
  <2>9. StoppedSilent'
    BY <2>3, <2>4, <2>5, <2>6, <2>7 DEF Moves, StoppedSilent
  <2> QED BY <2>8, <2>9 DEF StopInv
<1>2. CASE JoinLoop(g)
  <2>1. Moves(g, "stopped", go[g].back) /\ go[g].pc = "join" /\ go["Audio"].pc = "exited"
    BY <1>0, <1>2, GotoMoves DEF JoinLoop
  <2>2. go'["Audio"] = go["Audio"] /\ g # "Audio"
    BY <2>1, Kinds DEF Moves
  <2>3. audioCancel' = audioCancel /\ lifeMu' = lifeMu
    BY <1>2 DEF JoinLoop, stopVars
  <2>4. StopHolds'
    BY <2>1, <2>3 DEF Moves, StopInv, StopHolds
  <2> QED BY <2>1, <2>2, <2>4 DEF StopInv, LoopNeverStops, CanceledEnds, StoppedSilent
<1>3. CASE Stopped(g)
  <2>1. lifeMu = g /\ go["Audio"].pc = "exited" /\ lifeMu' = "none"
    BY <1>3 DEF Stopped, StopInv, StopHolds, StoppedSilent
  <2>2. \E pc \in {"exited", "free"}, back \in {"free", go[g].back} : Moves(g, pc, back)
    <3>1. CASE g = "Life"
      BY <1>0, <1>3, <3>1, GotoMoves DEF Stopped
    <3>2. CASE g # "Life"
      BY <1>0, <1>3, <3>2, CallMoves DEF Stopped, Handled
    <3> QED BY <3>1, <3>2
  <2>3. go'["Audio"] = go["Audio"] /\ go'[g].pc \notin {"join", "stopped"}
    BY <2>2, Kinds DEF Moves
  <2>4. \A h \in Goroutines \ {g} : go'[h].pc \notin {"join", "stopped"}
    BY <2>1, <2>2 DEF Moves, StopInv, StopHolds
  <2>5. StopHolds'
    BY <2>3, <2>4 DEF StopHolds
  <2> QED BY <2>1, <2>3, <2>5 DEF StopInv, LoopNeverStops, CanceledEnds, StoppedSilent
<1> QED BY <1>1, <1>2, <1>3 DEF StopStep

\* Giving up the floor leads back to where the goroutine came from.
LEMMA FloorMoves ==
  ASSUME TypeInv, NEW g \in Goroutines, GiveUpFloor(g)
  PROVE  /\ UNCHANGED stopVars
         /\ go[g].pc \in {"floor", "clear", "tell"}
         /\ \/ Moves(g, "clear", go[g].back) \/ Moves(g, "tell", go[g].back)
            \/ Moves(g, go[g].back, "free")
<1>0. go \in Go /\ {"clear", "tell"} \subseteq Pcs
  BY DEF TypeInv, TypeOK, Go, Pcs, StopPcs
<1>1. CASE botStoppedSpeaking(g)
  <2>1. Goto(g, "clear") \/ Return(g)
    BY <1>1 DEF botStoppedSpeaking
  <2> QED BY <1>0, <1>1, <2>1, GotoMoves, ReturnMoves DEF botStoppedSpeaking, stopVars
<1>2. CASE clearAudioBuffer(g)
  BY <1>0, <1>2, GotoMoves DEF clearAudioBuffer, stopVars
<1>3. CASE BroadcastStopped(g)
  BY <1>0, <1>3, ReturnMoves DEF BroadcastStopped, stopVars
<1> QED BY <1>1, <1>2, <1>3 DEF GiveUpFloor

\* Where the audio loop goes in its own steps.
LoopPcs == {"check", "get", "idle", "exited", "floor", "drained", "speech", "ttsStopped",
            "start", "write", "tellStart", "forward"}

LEMMA LoopMoves ==
  ASSUME TypeInv, LoopStep
  PROVE  /\ UNCHANGED stopVars
         /\ go["Audio"].pc \in LoopPcs \ {"exited", "floor"}
         /\ \E pc \in LoopPcs, back \in {go["Audio"].back, "check", "forward"} :
               Moves("Audio", pc, back)
<1>0. go \in Go /\ LoopPcs \subseteq Pcs /\ audioOut \in Seq(Item)
  BY DEF TypeInv, TypeOK, Go, Pcs, StopPcs, LoopPcs
<1>a. ASSUME NEW pc \in LoopPcs, Goto("Audio", pc) PROVE Moves("Audio", pc, go["Audio"].back)
  BY <1>0, <1>a, GotoMoves, Kinds
<1>b. ASSUME NEW pc \in LoopPcs, NEW back \in {"check", "forward"}, Call("Audio", pc, back)
      PROVE  Moves("Audio", pc, back)
  BY <1>0, <1>b, CallMoves, Kinds
<1>c. tryGet => PlayPc(Head(audioOut)) \in LoopPcs
  <2> SUFFICES ASSUME tryGet PROVE PlayPc(Head(audioOut)) \in LoopPcs
    OBVIOUS
  <2>1. Head(audioOut) \in Item
    BY <1>0 DEF tryGet
  <2> QED BY <2>1 DEF PlayPc, LoopPcs, Item
<1> USE DEF LoopUnchanged
<1>1. CASE CheckContext
  BY <1>1, <1>a, <1>b, <1>c DEF CheckContext, LoopPcs
<1>2. CASE tryGet
  BY <1>2, <1>a, <1>b, <1>c DEF tryGet, LoopPcs
<1>3. CASE NothingQueued
  BY <1>3, <1>a, <1>b, <1>c DEF NothingQueued, LoopPcs
<1>4. CASE Wake
  BY <1>4, <1>a, <1>b, <1>c DEF Wake, LoopPcs
<1>5. CASE IdleTimer
  BY <1>5, <1>a, <1>b, <1>c DEF IdleTimer, LoopPcs
<1>6. CASE handleBotSpeech
  BY <1>6, <1>a, <1>b, <1>c DEF handleBotSpeech, LoopPcs
<1>7. CASE botStartedSpeaking
  BY <1>7, <1>a, <1>b, <1>c DEF botStartedSpeaking, LoopPcs
<1>8. CASE BroadcastStarted
  BY <1>8, <1>a, <1>b, <1>c DEF BroadcastStarted, LoopPcs
<1>9. CASE writeAudio \/ WriteAudio
  BY <1>9, <1>a, <1>b, <1>c DEF writeAudio, WriteAudio, LoopPcs
<1>10. CASE ttsStopped
  BY <1>10, <1>a, <1>b, <1>c DEF ttsStopped, LoopPcs
<1>11. CASE Forward
  BY <1>11, <1>a, <1>b, <1>c DEF Forward, LoopPcs
<1>12. CASE signalDrained
  BY <1>12, <1>a, <1>b, <1>c DEF signalDrained, LoopPcs
<1> QED BY <1>1, <1>2, <1>3, <1>4, <1>5, <1>6, <1>7, <1>8, <1>9, <1>10, <1>11, <1>12 DEF LoopStep

LEMMA StopNext == TypeInv /\ StopInv /\ [Next]_vars => StopInv'
<1> SUFFICES ASSUME TypeInv, StopInv, [Next]_vars PROVE StopInv'
  OBVIOUS
<1>0. go \in Go
  BY DEF TypeInv, TypeOK, Go
<1>1. CASE UNCHANGED vars
  BY <1>1 DEF vars, stopVars, StopInv, LoopNeverStops, StopHolds, CanceledEnds, StoppedSilent
<1>2. ASSUME NEW g \in Goroutines, GiveUpFloor(g) PROVE StopInv'
  <2>1. /\ UNCHANGED stopVars /\ go[g].pc \in {"floor", "clear", "tell"}
        /\ \/ Moves(g, "clear", go[g].back) \/ Moves(g, "tell", go[g].back)
           \/ Moves(g, go[g].back, "free")
    BY <1>2, FloorMoves
  <2>2. go[g].back \in {"free", "stop", "check", "forward"}
    BY <1>0 DEF Go
  <2>3. g = "Audio" => go[g].back # "stop"
    BY DEF StopInv, LoopNeverStops
  <2>4. \E pc \in Pcs, back \in {"free", go[g].back} : Elsewhere(g, pc, back)
    BY <2>1, <2>2, <2>3 DEF Elsewhere, Pcs, StopPcs
  <2> QED BY <2>1, <2>4, StopKept
<1>3. CASE LoopStep
  <2>1. /\ UNCHANGED stopVars /\ go["Audio"].pc \in LoopPcs \ {"exited", "floor"}
        /\ \E pc \in LoopPcs, back \in {go["Audio"].back, "check", "forward"} :
               Moves("Audio", pc, back)
    BY <1>3, LoopMoves
  <2>2. \E pc \in LoopPcs, back \in {go["Audio"].back, "check", "forward"} :
           Elsewhere("Audio", pc, back)
    BY <2>1 DEF Elsewhere, LoopPcs, StopInv, LoopNeverStops
  <2> QED BY <2>1, <2>2, StopKept, Kinds
<1>4. ASSUME NEW g \in Goroutines \ {"Audio"}, StopStep(g) PROVE StopInv'
  BY <1>4, StopSteps
<1>5. ASSUME NEW g \in {"Proc", "Input"}, NEW pc \in Pcs \ {"join", "stopped"},
             NEW back \in {"free", "stop", "check", "forward"},
             Goto(g, pc) \/ Call(g, pc, back), UNCHANGED stopVars
      PROVE  StopInv'
  <2>1. g \in Goroutines /\ g # "Audio" /\ g # "Life" /\ pc \in Pcs
    BY Kinds
  <2>2. Moves(g, pc, go[g].back) \/ Moves(g, pc, back)
    BY <1>0, <1>5, <2>1, GotoMoves, CallMoves
  <2>3. \E b \in {back, go[g].back} : Elsewhere(g, pc, b)
    BY <2>1, <2>2 DEF Elsewhere
  <2> QED BY <1>5, <2>1, <2>3, StopKept
<1>6. {"free", "audio", "push", "queue", "flush", "drain", "mark", "draining", "floor",
       "interruption", "spared", "cancel", "reset", "resetBuffer", "audioLeft"}
          \subseteq Pcs \ {"join", "stopped"}
  BY DEF Pcs, StopPcs
<1> USE DEF lineVars, bufVars, loopVars, drainVars, floorVars
<1>7. CASE TakeFrame
  BY <1>5, <1>6, <1>7 DEF TakeFrame
<1>8. CASE handleAudioFrame
  BY <1>5, <1>6, <1>8 DEF handleAudioFrame
<1>9. CASE enqueueFlushedAudioBuffer
  BY <1>5, <1>6, <1>9 DEF enqueueFlushedAudioBuffer
<1>10. CASE ChunksPushed
  BY <1>5, <1>6, <1>10 DEF ChunksPushed, Handled
<1>11. CASE QueueBehind
  BY <1>5, <1>6, <1>11 DEF QueueBehind, Handled
<1>12. CASE drainAudio
  BY <1>5, <1>6, <1>12 DEF drainAudio
<1>13. CASE PushMarker
  BY <1>5, <1>6, <1>13 DEF PushMarker
<1>14. CASE DrainOver
  BY <1>5, <1>6, <1>14 DEF DrainOver
<1>15. CASE PushChunk \/ \E f \in Frame : QueueFrame(f)
  BY <1>15 DEF PushChunk, QueueFrame, stopVars, StopInv, LoopNeverStops, StopHolds,
     CanceledEnds, StoppedSilent
<1>16. ASSUME NEW f \in Frame, TakeSystem(f) PROVE StopInv'
  BY <1>5, <1>6, <1>16 DEF TakeSystem, SystemKinds
<1>17. CASE startInterruption
  BY <1>5, <1>6, <1>17 DEF startInterruption
<1>18. CASE CancelJoined
  BY <1>5, <1>6, <1>18 DEF CancelJoined
<1>19. CASE ResetQueue
  BY <1>5, <1>6, <1>19 DEF ResetQueue
<1>20. CASE ResetBuffer
  BY <1>5, <1>6, <1>20 DEF ResetBuffer
<1>21. CASE AudioLeft
  BY <1>5, <1>6, <1>21 DEF AudioLeft
<1>22. CASE Cleanup
  <2>1. Moves("Life", "floor", "stop") /\ UNCHANGED stopVars
    <3>1. Call("Life", "floor", "stop") /\ UNCHANGED stopVars /\ "floor" \in Pcs
      BY <1>6, <1>22 DEF Cleanup
    <3> QED BY <1>0, <3>1, CallMoves, Kinds
  <2>2. Elsewhere("Life", "floor", "stop")
    BY <2>1 DEF Elsewhere
  <2> QED BY <2>1, <2>2, StopKept, Kinds
<1> HIDE DEF lineVars, bufVars, loopVars, drainVars, floorVars
<1>23. CASE ProcStep
  BY <1>2, <1>4, <1>7, <1>8, <1>9, <1>10, <1>11, <1>12, <1>13, <1>14, <1>15, <1>23, Kinds
     DEF ProcStep
<1>24. CASE InputStep
  BY <1>2, <1>4, <1>17, <1>18, <1>19, <1>20, <1>21, <1>24, Kinds DEF InputStep
<1>25. CASE AudioStep \/ WriteAudio
  BY <1>2, <1>3, <1>25, Kinds DEF AudioStep, LoopStep
<1>26. CASE LifeStep
  BY <1>2, <1>4, <1>26, Kinds DEF LifeStep
<1> QED BY <1>1, <1>15, <1>16, <1>22, <1>23, <1>24, <1>25, <1>26 DEF Next

\* Once a stop has returned, to the EndFrame, to the CancelFrame or to Cleanup,
\* the audio loop has ended: also for a caller that came second and found
\* audioCancel nil already (mediaSender.stop).
THEOREM StoppedSilentHolds == Spec => []StoppedSilent
<1>1. StopInv => StoppedSilent
  BY DEF StopInv
<1> QED BY <1>1, TypeInit, TypeNext, StopInit, StopNext, PTL DEF Spec

(***************************************************************************)
(* Who has the floor.  FloorTold is inductive: the flag changes and the    *)
(* goroutine that changed it is from then on among those that have still   *)
(* to say so, in one critical section of botMu.                            *)
(***************************************************************************)
Tells == {"clear", "tell"}

LEMMA TellingFinite == IsFiniteSet(Telling) /\ Cardinality(Telling) \in Nat
<1>1. IsFiniteSet(Goroutines)
  <2>1. Goroutines = ((({} \cup {"Proc"}) \cup {"Input"}) \cup {"Audio"}) \cup {"Life"}
    BY DEF Goroutines
  <2>2. IsFiniteSet({} \cup {"Proc"})
    BY FS_EmptySet, FS_AddElement
  <2>3. IsFiniteSet(({} \cup {"Proc"}) \cup {"Input"})
    BY <2>2, FS_AddElement
  <2>4. IsFiniteSet((({} \cup {"Proc"}) \cup {"Input"}) \cup {"Audio"})
    BY <2>3, FS_AddElement
  <2> QED BY <2>1, <2>4, FS_AddElement
<1>2. Telling \subseteq Goroutines
  BY DEF Telling
<1> QED BY <1>1, <1>2, FS_Subset, FS_CardinalityType

LEMMA TellingSame ==
  ASSUME NEW g \in Goroutines, NEW pc, NEW back, Moves(g, pc, back),
         pc \in Tells <=> go[g].pc \in Tells
  PROVE  Telling' = Telling
<1>1. \A h \in Goroutines : go'[h].pc \in Tells <=> go[h].pc \in Tells
  BY DEF Moves
<1> QED BY <1>1 DEF Telling, Tells

LEMMA TellingAdds ==
  ASSUME NEW g \in Goroutines, NEW pc \in Tells, NEW back, Moves(g, pc, back),
         go[g].pc \notin Tells
  PROVE  Cardinality(Telling') = Cardinality(Telling) + 1
<1>1. Telling' = Telling \cup {g} /\ g \notin Telling
  BY DEF Moves, Telling, Tells
<1> QED BY <1>1, TellingFinite, FS_AddElement

LEMMA TellingLoses ==
  ASSUME NEW g \in Goroutines, NEW pc, NEW back, Moves(g, pc, back),
         go[g].pc \in Tells, pc \notin Tells
  PROVE  Cardinality(Telling') = Cardinality(Telling) - 1
<1>1. Telling' = Telling \ {g} /\ g \in Telling
  BY DEF Moves, Telling, Tells
<1> QED BY <1>1, TellingFinite, FS_RemoveElement

LEMMA FloorInit == Init => FloorTold
<1> SUFFICES ASSUME Init PROVE FloorTold
  OBVIOUS
<1>1. Telling = {}
  BY DEF Init, Telling, Goroutines
<1>2. told = 0 /\ botSpeaking = FALSE /\ go["Audio"].pc = "check"
  BY DEF Init, Goroutines
<1> QED BY <1>1, <1>2, FS_EmptySet DEF FloorTold, Saying

\* A step that neither changes the flag nor says that it was changed.
LEMMA FloorKept ==
  ASSUME FloorTold, UNCHANGED <<botSpeaking, told>>, NEW g \in Goroutines, NEW pc, NEW back,
         Moves(g, pc, back), pc \in Tells <=> go[g].pc \in Tells,
         g = "Audio" => (pc = "tellStart" <=> go[g].pc = "tellStart")
  PROVE  FloorTold'
<1>1. Telling' = Telling
  BY TellingSame
<1>2. go'["Audio"].pc = "tellStart" <=> go["Audio"].pc = "tellStart"
  BY Kinds DEF Moves
<1> QED BY <1>1, <1>2 DEF FloorTold, Saying

LEMMA FloorGivesUp ==
  ASSUME TypeInv, FloorTold, NEW g \in Goroutines, GiveUpFloor(g)
  PROVE  FloorTold'
<1>0. go \in Go /\ {"clear", "tell"} \subseteq Pcs /\ told \in Int
  BY DEF TypeInv, TypeOK, Go, Pcs, StopPcs
<1>1. go[g].back \notin Tells /\ go[g].back # "tellStart"
  BY <1>0 DEF Go, Tells
<1>2. Cardinality(Telling) \in Nat /\ Saying(go["Audio"].pc = "tellStart") \in Int
  BY TellingFinite DEF Saying
<1>3. CASE botStoppedSpeaking(g) /\ botSpeaking
  <2>1. Moves(g, "clear", go[g].back) /\ go[g].pc = "floor" /\ told' = told
    BY <1>0, <1>3, GotoMoves DEF botStoppedSpeaking
  <2>2. botSpeaking' = FALSE
    BY <1>3 DEF botStoppedSpeaking
  <2>3. Cardinality(Telling') = Cardinality(Telling) + 1
    BY <2>1, TellingAdds DEF Tells
  <2>4. go'["Audio"].pc = "tellStart" <=> go["Audio"].pc = "tellStart"
    BY <2>1, Kinds DEF Moves
  <2> QED BY <1>0, <1>2, <1>3, <2>1, <2>2, <2>3, <2>4 DEF FloorTold, Saying
<1>4. CASE botStoppedSpeaking(g) /\ ~botSpeaking
  <2>1. Moves(g, go[g].back, "free") /\ go[g].pc = "floor"
    BY <1>0, <1>4, ReturnMoves DEF botStoppedSpeaking
  <2>2. UNCHANGED <<botSpeaking, told>>
    BY <1>4 DEF botStoppedSpeaking
  <2> QED BY <1>1, <2>1, <2>2, FloorKept DEF Tells
<1>5. CASE clearAudioBuffer(g)
  <2>1. Moves(g, "tell", go[g].back) /\ go[g].pc = "clear" /\ UNCHANGED <<botSpeaking, told>>
    BY <1>0, <1>5, GotoMoves DEF clearAudioBuffer, floorVars
  <2> QED BY <2>1, FloorKept DEF Tells
<1>6. CASE BroadcastStopped(g)
  <2>1. Moves(g, go[g].back, "free") /\ go[g].pc = "tell" /\ told' = told - 1
    BY <1>0, <1>6, ReturnMoves DEF BroadcastStopped
  <2>2. botSpeaking' = botSpeaking
    BY <1>6 DEF BroadcastStopped
  <2>3. Cardinality(Telling') = Cardinality(Telling) - 1
    BY <1>1, <2>1, TellingLoses DEF Tells
  <2>4. go'["Audio"].pc = "tellStart" <=> go["Audio"].pc = "tellStart"
    BY <1>1, <2>1, Kinds DEF Moves
  <2> QED BY <1>0, <1>2, <2>1, <2>2, <2>3, <2>4 DEF FloorTold, Saying
<1> QED BY <1>3, <1>4, <1>5, <1>6 DEF GiveUpFloor

LEMMA FloorLoop ==
  ASSUME TypeInv, FloorTold, LoopStep
  PROVE  FloorTold'
<1>0. go \in Go /\ LoopPcs \subseteq Pcs /\ audioOut \in Seq(Item) /\ told \in Int
  BY DEF TypeInv, TypeOK, Go, Pcs, StopPcs, LoopPcs
<1>1. Cardinality(Telling) \in Nat
  BY TellingFinite
<1>a. ASSUME NEW pc \in LoopPcs \ {"tellStart"}, NEW back \in {"check", "forward"},
             Goto("Audio", pc) \/ Call("Audio", pc, back),
             UNCHANGED <<botSpeaking, told>>, go["Audio"].pc \notin Tells \cup {"tellStart"}
      PROVE  FloorTold'
  <2>1. Moves("Audio", pc, go["Audio"].back) \/ Moves("Audio", pc, back)
    BY <1>0, <1>a, GotoMoves, CallMoves, Kinds
  <2>2. pc \notin Tells \cup {"tellStart"}
    BY DEF Tells, LoopPcs
  <2> QED BY <1>a, <2>1, <2>2, FloorKept, Kinds
<1>2. CASE botStartedSpeaking
  <2>1. PICK pc \in {"write", "tellStart"} :
           Goto("Audio", pc) /\ (pc = "write" <=> botSpeaking)
    BY <1>2 DEF botStartedSpeaking
  <2>2. Moves("Audio", pc, go["Audio"].back)
    BY <1>0, <2>1, GotoMoves, Kinds DEF LoopPcs
  <2>3. go["Audio"].pc = "start" /\ botSpeaking' = TRUE /\ told' = told
    BY <1>2 DEF botStartedSpeaking
  <2>4. Telling' = Telling
    BY <2>1, <2>2, <2>3, TellingSame, Kinds DEF Tells
  <2>5. go'["Audio"].pc = pc
    BY <2>2 DEF Moves
  <2> QED BY <1>0, <1>1, <2>1, <2>3, <2>4, <2>5 DEF FloorTold, Saying
<1>3. CASE BroadcastStarted
  <2>1. /\ Moves("Audio", "write", go["Audio"].back) /\ go["Audio"].pc = "tellStart"
        /\ told' = told + 1 /\ botSpeaking' = botSpeaking
    BY <1>0, <1>3, GotoMoves, Kinds DEF BroadcastStarted, LoopPcs
  <2>2. Telling' = Telling
    BY <2>1, TellingSame, Kinds DEF Tells
  <2>3. go'["Audio"].pc = "write"
    BY <2>1 DEF Moves
  <2> QED BY <1>0, <1>1, <2>1, <2>2, <2>3 DEF FloorTold, Saying
<1>4. CASE tryGet
  <2>1. Head(audioOut) \in Item
    BY <1>0, <1>4 DEF tryGet
  <2>2. PlayPc(Head(audioOut)) \in LoopPcs \ {"tellStart"}
    BY <2>1 DEF PlayPc, LoopPcs, Item
  <2> QED BY <1>4, <1>a, <2>2 DEF tryGet, floorVars, Tells
<1>5. CASE CheckContext
  BY <1>5, <1>a DEF CheckContext, floorVars, LoopPcs, Tells
<1>6. CASE NothingQueued
  BY <1>6, <1>a DEF NothingQueued, floorVars, LoopPcs, Tells
<1>7. CASE Wake
  BY <1>7, <1>a DEF Wake, floorVars, LoopPcs, Tells
<1>8. CASE IdleTimer
  BY <1>8, <1>a DEF IdleTimer, floorVars, LoopPcs, Tells
<1>9. CASE handleBotSpeech
  BY <1>9, <1>a DEF handleBotSpeech, LoopPcs, Tells
<1>10. CASE writeAudio \/ WriteAudio
  BY <1>10, <1>a DEF writeAudio, WriteAudio, floorVars, LoopPcs, Tells
<1>11. CASE ttsStopped
  BY <1>11, <1>a DEF ttsStopped, floorVars, LoopPcs, Tells
<1>12. CASE Forward
  BY <1>12, <1>a DEF Forward, floorVars, LoopPcs, Tells
<1>13. CASE signalDrained
  BY <1>13, <1>a DEF signalDrained, floorVars, LoopPcs, Tells
<1> QED BY <1>2, <1>3, <1>4, <1>5, <1>6, <1>7, <1>8, <1>9, <1>10, <1>11, <1>12, <1>13
        DEF LoopStep

LEMMA FloorNext == TypeInv /\ FloorTold /\ [Next]_vars => FloorTold'
<1> SUFFICES ASSUME TypeInv, FloorTold, [Next]_vars PROVE FloorTold'
  OBVIOUS
<1>0. go \in Go
  BY DEF TypeInv, TypeOK, Go
<1>1. CASE UNCHANGED <<go, botSpeaking, told>>
  BY <1>1 DEF FloorTold, Telling, Goroutines
<1>2. ASSUME NEW g \in Goroutines, GiveUpFloor(g) PROVE FloorTold'
  BY <1>2, FloorGivesUp
<1>3. CASE LoopStep
  BY <1>3, FloorLoop
<1>4. ASSUME NEW g \in {"Proc", "Input", "Life"}, NEW pc \in Pcs \ Tells,
             NEW back \in {"free", "stop", "check", "forward"},
             Goto(g, pc) \/ Call(g, pc, back), UNCHANGED floorVars, go[g].pc \notin Tells
      PROVE  FloorTold'
  <2>1. g \in Goroutines /\ g # "Audio" /\ pc \in Pcs
    BY Kinds
  <2>2. Moves(g, pc, go[g].back) \/ Moves(g, pc, back)
    BY <1>0, <1>4, <2>1, GotoMoves, CallMoves
  <2>3. UNCHANGED <<botSpeaking, told>>
    BY <1>4 DEF floorVars
  <2> QED BY <1>4, <2>1, <2>2, <2>3, FloorKept
<1>5. {"free", "audio", "push", "queue", "flush", "drain", "mark", "draining", "floor",
       "interruption", "spared", "cancel", "reset", "resetBuffer", "audioLeft",
       "join", "stopped", "exited"} \subseteq Pcs \ Tells
  BY DEF Pcs, StopPcs, Tells
<1>6. ASSUME NEW g \in {"Proc", "Input", "Life"}, StopStep(g) PROVE FloorTold'
  <2>1. CASE stop(g)
    BY <1>4, <1>5, <2>1 DEF stop, Tells
  <2>2. CASE JoinLoop(g)
    BY <1>4, <1>5, <2>2 DEF JoinLoop, Tells
  <2>3. CASE Stopped(g)
    BY <1>4, <1>5, <2>3 DEF Stopped, Handled, Tells
  <2> QED BY <1>6, <2>1, <2>2, <2>3 DEF StopStep
<1>7. CASE TakeFrame
  BY <1>4, <1>5, <1>7 DEF TakeFrame, Tells
<1>8. CASE handleAudioFrame
  BY <1>4, <1>5, <1>8 DEF handleAudioFrame, Tells
<1>9. CASE enqueueFlushedAudioBuffer
  BY <1>4, <1>5, <1>9 DEF enqueueFlushedAudioBuffer, Tells
<1>10. CASE ChunksPushed
  BY <1>4, <1>5, <1>10 DEF ChunksPushed, Handled, Tells
<1>11. CASE QueueBehind
  BY <1>4, <1>5, <1>11 DEF QueueBehind, Handled, Tells
<1>12. CASE drainAudio
  BY <1>4, <1>5, <1>12 DEF drainAudio, Tells
<1>13. CASE PushMarker
  BY <1>4, <1>5, <1>13 DEF PushMarker, Tells
<1>14. CASE DrainOver
  BY <1>4, <1>5, <1>14 DEF DrainOver, Tells
<1>15. CASE startInterruption
  BY <1>4, <1>5, <1>15 DEF startInterruption, Tells
<1>16. CASE CancelJoined
  BY <1>4, <1>5, <1>16 DEF CancelJoined, Tells
<1>17. CASE ResetQueue
  BY <1>4, <1>5, <1>17 DEF ResetQueue, Tells
<1>18. CASE ResetBuffer
  BY <1>4, <1>5, <1>18 DEF ResetBuffer, Tells
<1>19. CASE AudioLeft
  BY <1>4, <1>5, <1>19 DEF AudioLeft, Tells
<1>20. CASE Cleanup
  BY <1>4, <1>5, <1>20 DEF Cleanup, Tells
<1>21. CASE PushChunk \/ \E f \in Frame : QueueFrame(f)
  BY <1>1, <1>21 DEF PushChunk, QueueFrame, floorVars
<1>22. ASSUME NEW f \in Frame, TakeSystem(f) PROVE FloorTold'
  BY <1>4, <1>5, <1>22 DEF TakeSystem, SystemKinds, Tells
<1>23. CASE ProcStep
  BY <1>2, <1>6, <1>7, <1>8, <1>9, <1>10, <1>11, <1>12, <1>13, <1>14, <1>21,
     <1>23, Kinds DEF ProcStep
<1>24. CASE InputStep
  BY <1>2, <1>6, <1>15, <1>16, <1>17, <1>18, <1>19, <1>24, Kinds DEF InputStep
<1>25. CASE AudioStep \/ WriteAudio
  BY <1>2, <1>3, <1>25, Kinds DEF AudioStep, LoopStep
<1>26. CASE LifeStep
  BY <1>2, <1>6, <1>26, Kinds DEF LifeStep
<1>27. CASE UNCHANGED vars
  BY <1>1, <1>27 DEF vars, floorVars
<1> QED BY <1>20, <1>21, <1>22, <1>23, <1>24, <1>25, <1>26, <1>27 DEF Next

\* Every start and every end of the bot's speech is broadcast once, whichever of
\* the audio loop, an interruption, the end and Cleanup get to the end of it at
\* the same moment: botStartedSpeaking and botStoppedSpeaking test and set the
\* flag under botMu, and whoever changes it is the one that says so.
THEOREM FloorToldHolds == Spec => []FloorTold
<1> QED BY TypeInit, TypeNext, FloorInit, FloorNext, PTL DEF Spec

(***************************************************************************)
(* The drain of an EndFrame.  There is one EndFrame, and a marker is only  *)
(* queued for it, after the buffer was flushed: so from the time a marker  *)
(* exists (queued, in the audio loop's hands, or come round) no EndFrame   *)
(* is on its way and the process goroutine, as long as it handles the      *)
(* EndFrame, queues nothing more; the marker is the last of the queue.     *)
(***************************************************************************)
IsEnd(f) == Kind[f] = "end"
Ending == frame # NoFrame /\ IsEnd(frame)
EndWaits == \E i \in 1..Len(todo) : IsEnd(todo[i])
Marker(x) == x.what = "marker"
Marked == \/ \E i \in 1..Len(audioOut) : Marker(audioOut[i])
          \/ go["Audio"].pc = "drained"
          \/ drained
Flushing == {"flush", "push", "drain", "mark"}
Playing == {"speech", "start", "tellStart", "write"}

EndOnce ==
    /\ EndWaits \/ Ending => \A f \in unsent : ~IsEnd(f)
    /\ Ending => ~EndWaits
    /\ \A i, j \in 1..Len(todo) : IsEnd(todo[i]) /\ IsEnd(todo[j]) => i = j
PcKinds ==
    /\ go["Proc"].pc = "audio" => Kind[frame] \in {"audio", "keptAudio"}
    /\ go["Proc"].pc = "queue" => Kind[frame] = "stopped"
    /\ go["Proc"].pc \in {"drain", "mark"} => Kind[frame] = "end"
MarkersPlain ==
    /\ \A i \in 1..Len(audioOut) : Marker(audioOut[i]) => ~audioOut[i].keep
    /\ \A i \in 1..Len(cut) : ~Marker(cut[i])
MarkedLate ==
    Marked => /\ \A f \in unsent : ~IsEnd(f)
              /\ ~EndWaits
              /\ Ending => go["Proc"].pc \notin Flushing
CutPushed == go["Proc"].pc # "push" => cut = <<>>
BufferFlushed == Ending /\ go["Proc"].pc # "flush" => audioRuns = <<>>
MarkerLast == Ending => \A i \in 1..Len(audioOut) : Marker(audioOut[i]) => i = Len(audioOut)
DrainedClean ==
    Ending /\ (drained \/ go["Audio"].pc = "drained") =>
        /\ \A i \in 1..Len(audioOut) : audioOut[i].what # "chunk"
        /\ go["Audio"].pc \notin Playing

DrainInv ==
    /\ EndOnce /\ PcKinds /\ MarkersPlain /\ MarkedLate
    /\ CutPushed /\ BufferFlushed /\ MarkerLast /\ DrainedClean

LEMMA DrainInit == Init => DrainInv
<1> SUFFICES ASSUME Init PROVE DrainInv
  OBVIOUS
<1>1. /\ frame = NoFrame /\ todo = <<>> /\ audioOut = <<>> /\ cut = <<>> /\ drained = FALSE
      /\ go["Proc"].pc = "free" /\ go["Audio"].pc = "check"
  BY DEF Init, Goroutines
<1>2. ~Ending /\ ~EndWaits /\ ~Marked
  BY <1>1 DEF Ending, EndWaits, Marked
<1> QED BY <1>1, <1>2 DEF DrainInv, EndOnce, PcKinds, MarkersPlain, MarkedLate, CutPushed,
        BufferFlushed, MarkerLast, DrainedClean

\* A step of any goroutine outside the handling of a frame, and one that ends it.
LEMMA DrainKept ==
  ASSUME DrainInv, UNCHANGED <<todo, audioOut, cut, drained>>, unsent' \subseteq unsent,
         audioRuns = <<>> => audioRuns' = <<>>,
         NEW g \in Goroutines, NEW pc, NEW back, Moves(g, pc, back),
         frame' = frame \/ (g = "Proc" /\ frame' = NoFrame),
         g = "Proc" => /\ pc \notin Flushing \cup {"audio", "queue"}
                       /\ go[g].pc # "flush"
                       /\ cut = <<>>,
         g = "Audio" => pc # "drained" /\ (pc \in Playing => go[g].pc \in Playing)
  PROVE  DrainInv'
<1>1. todo' = todo /\ audioOut' = audioOut /\ cut' = cut /\ drained' = drained
  OBVIOUS
<1>2. /\ Ending' => Ending
      /\ EndWaits' <=> EndWaits
      /\ Ending' => frame' = frame
  BY <1>1 DEF Ending, EndWaits
<1>3. CASE g = "Proc"
  <2>1. go'["Proc"].pc = pc /\ go'["Audio"] = go["Audio"]
    BY <1>3, Kinds DEF Moves
  <2>2. Marked' <=> Marked
    BY <1>1, <2>1 DEF Marked
  <2>3. EndOnce' /\ PcKinds' /\ MarkersPlain' /\ MarkedLate'
    BY <1>1, <1>2, <1>3, <2>1, <2>2 DEF DrainInv, EndOnce, PcKinds, MarkersPlain, MarkedLate,
       Flushing
  <2>4. CutPushed' /\ BufferFlushed' /\ MarkerLast' /\ DrainedClean'
    BY <1>1, <1>2, <1>3, <2>1 DEF DrainInv, CutPushed, BufferFlushed, MarkerLast, DrainedClean
  <2> QED BY <2>3, <2>4 DEF DrainInv
<1>4. CASE g # "Proc"
  <2>1. go'["Proc"] = go["Proc"] /\ frame' = frame
    BY <1>4, Kinds DEF Moves
  <2>2. /\ go'["Audio"].pc = "drained" => go["Audio"].pc = "drained"
        /\ go'["Audio"].pc \in Playing => go["Audio"].pc \in Playing
    BY Kinds DEF Moves
  <2>3. Marked' => Marked
    BY <1>1, <2>2 DEF Marked
  <2>4. EndOnce' /\ PcKinds' /\ MarkersPlain' /\ MarkedLate'
    BY <1>1, <1>2, <2>1, <2>3 DEF DrainInv, EndOnce, PcKinds, MarkersPlain, MarkedLate
  <2>5. CutPushed' /\ BufferFlushed' /\ MarkerLast'
    BY <1>1, <1>2, <2>1 DEF DrainInv, CutPushed, BufferFlushed, MarkerLast
  <2>6. DrainedClean'
    BY <1>1, <1>2, <2>2 DEF DrainInv, DrainedClean
  <2> QED BY <2>4, <2>5, <2>6 DEF DrainInv
<1> QED BY <1>3, <1>4

LEMMA OneEnd ==
  ASSUME NEW f \in Frame, NEW h \in Frame, IsEnd(f), IsEnd(h)
  PROVE  f = h
  BY FrameAssumption DEF IsEnd

\* Frames arriving, and the process goroutine taking the next.
LEMMA DrainLine ==
  ASSUME TypeInv, DrainInv, TakeFrame \/ \E f \in Frame : QueueFrame(f)
  PROVE  DrainInv'
<1>0. todo \in Seq(Frame) /\ go \in Go /\ unsent \subseteq Frame /\ Len(todo) \in Nat
  BY DEF TypeInv, TypeOK, Go
<1>1. ASSUME NEW f \in Frame, QueueFrame(f) PROVE DrainInv'
  <2>1. /\ f \in unsent /\ unsent' = unsent \ {f} /\ todo' = Append(todo, f)
        /\ UNCHANGED <<frame, go, audioRuns, cut, audioOut, drained>>
    BY <1>1 DEF QueueFrame, bufVars, loopVars, drainVars
  <2>2. /\ Len(todo') = Len(todo) + 1 /\ todo'[Len(todo) + 1] = f
        /\ \A i \in 1..Len(todo) : todo'[i] = todo[i]
    BY <1>0, <2>1, AppendProperties
  <2>3. (Ending' <=> Ending) /\ (Marked' <=> Marked)
    BY <2>1 DEF Ending, Marked
  <2>4. /\ EndWaits' => EndWaits \/ IsEnd(f)
        /\ EndWaits => EndWaits'
    BY <1>0, <2>2 DEF EndWaits
  <2>5. EndOnce'
    <3>1. EndWaits' \/ Ending' => \A h \in unsent' : ~IsEnd(h)
      BY <1>0, <2>1, <2>3, <2>4, OneEnd DEF DrainInv, EndOnce
    <3>2. Ending' => ~EndWaits'
      BY <2>1, <2>3, <2>4 DEF DrainInv, EndOnce
    <3>3. ASSUME NEW i \in 1..Len(todo'), NEW j \in 1..Len(todo'),
                 IsEnd(todo'[i]), IsEnd(todo'[j])
          PROVE  i = j
      <4>1. CASE i \in 1..Len(todo) /\ j \in 1..Len(todo)
        BY <2>2, <3>3, <4>1 DEF DrainInv, EndOnce
      <4>2. CASE i = Len(todo) + 1 /\ j \in 1..Len(todo)
        BY <2>1, <2>2, <3>3, <4>2 DEF DrainInv, EndOnce, EndWaits
      <4>3. CASE j = Len(todo) + 1 /\ i \in 1..Len(todo)
        BY <2>1, <2>2, <3>3, <4>3 DEF DrainInv, EndOnce, EndWaits
      <4> QED BY <1>0, <2>2, <4>1, <4>2, <4>3
    <3> QED BY <3>1, <3>2, <3>3 DEF EndOnce
  <2>6. MarkedLate'
    BY <2>1, <2>3, <2>4 DEF DrainInv, MarkedLate
  <2> QED BY <2>1, <2>3, <2>5, <2>6 DEF DrainInv, PcKinds, MarkersPlain, CutPushed,
          BufferFlushed, MarkerLast, DrainedClean
<1>2. CASE TakeFrame
  <2>1. /\ todo # <<>> /\ frame' = Head(todo) /\ todo' = Tail(todo)
        /\ go["Proc"].pc = "free"
        /\ UNCHANGED <<unsent, audioRuns, cut, audioOut, drained>>
    BY <1>2 DEF TakeFrame, bufVars, loopVars, drainVars
  <2>2. /\ Head(todo) = todo[1] /\ Head(todo) \in Frame /\ Len(todo) >= 1
        /\ Len(todo') = Len(todo) - 1 /\ \A i \in 1..Len(todo') : todo'[i] = todo[i + 1]
    BY <1>0, <2>1
  <2>3. PICK pc \in {"audio", "flush"} :
           Goto("Proc", pc) /\ (pc = "audio" => Kind[Head(todo)] \in {"audio", "keptAudio"})
    BY <1>2 DEF TakeFrame
  <2>4. go'["Proc"].pc = pc /\ go'["Audio"] = go["Audio"]
    BY <1>0, <2>3, GotoMoves, Kinds DEF Moves, Pcs
  <2>5. (Ending' => IsEnd(todo[1])) /\ (Marked' <=> Marked)
    BY <2>1, <2>2, <2>4 DEF Ending, Marked
  <2>6. IsEnd(todo[1]) => EndWaits /\ ~EndWaits'
    BY <1>0, <2>2 DEF EndWaits, DrainInv, EndOnce
  <2>7. EndWaits' => EndWaits
    BY <1>0, <2>2 DEF EndWaits
  <2>8. EndOnce'
    <3>1. ASSUME NEW i \in 1..Len(todo'), NEW j \in 1..Len(todo'),
                 IsEnd(todo'[i]), IsEnd(todo'[j])
          PROVE  i = j
      <4>1. i + 1 \in 1..Len(todo) /\ j + 1 \in 1..Len(todo)
        BY <1>0, <2>2
      <4>2. i + 1 = j + 1
        BY <2>2, <3>1, <4>1 DEF DrainInv, EndOnce
      <4> QED BY <1>0, <4>2
    <3> QED BY <2>1, <2>5, <2>6, <2>7, <3>1 DEF DrainInv, EndOnce
  <2>9. Ending' => ~Marked
    BY <2>5, <2>6 DEF DrainInv, MarkedLate
  <2>10. PcKinds'
    BY <2>1, <2>3, <2>4 DEF PcKinds
  <2>11. MarkedLate' /\ MarkerLast' /\ DrainedClean'
    BY <2>1, <2>4, <2>5, <2>7, <2>9 DEF DrainInv, MarkedLate, MarkerLast, DrainedClean, Marked
  <2>12. CutPushed'
    BY <2>1, <2>3, <2>4 DEF DrainInv, CutPushed
  <2>13. BufferFlushed'
    <3>1. pc = "audio" => ~Ending'
      BY <2>1, <2>3 DEF Ending, IsEnd
    <3> QED BY <2>3, <2>4, <3>1 DEF BufferFlushed
  <2> QED BY <2>1, <2>8, <2>10, <2>11, <2>12, <2>13 DEF DrainInv, MarkersPlain
<1> QED BY <1>1, <1>2

\* The process goroutine cutting audio and queueing.
LEMMA DrainProc ==
  ASSUME TypeInv, DrainInv,
         \/ handleAudioFrame \/ enqueueFlushedAudioBuffer \/ PushChunk \/ ChunksPushed
         \/ QueueBehind \/ drainAudio \/ PushMarker
  PROVE  DrainInv'
<1>0. /\ go \in Go /\ audioRuns \in Seq(Frame) /\ cut \in Seq(Item) /\ audioOut \in Seq(Item)
      /\ Len(audioOut) \in Nat /\ Len(cut) \in Nat
      /\ {"push", "queue", "drain", "mark", "draining", "free"} \subseteq Pcs
  BY DEF TypeInv, TypeOK, Go, Pcs
<1>a. ASSUME NEW pc \in {"push", "queue", "drain", "mark", "draining"}, Goto("Proc", pc)
      PROVE  go'["Proc"].pc = pc /\ go'["Audio"] = go["Audio"]
  BY <1>0, <1>a, GotoMoves, Kinds DEF Moves
<1>b. frame # NoFrame \/ go["Proc"].pc = "free"
  BY Kinds DEF TypeInv, HandOK
<1>1. CASE handleAudioFrame \/ enqueueFlushedAudioBuffer
  <2>1. /\ go'["Proc"].pc = "push" /\ go'["Audio"] = go["Audio"]
        /\ go["Proc"].pc \in {"audio", "flush"}
        /\ UNCHANGED <<unsent, todo, frame, audioOut, drained>>
    BY <1>1, <1>a DEF handleAudioFrame, enqueueFlushedAudioBuffer, lineVars, loopVars, drainVars
  <2>2. \A i \in 1..Len(cut') : ~Marker(cut'[i])
    <3>1. CASE handleAudioFrame
      <4> DEFINE more == [i \in 1..Size[frame] |-> frame]
                 runs == audioRuns \o more
      <4>1. frame \in Frame /\ Size[frame] \in Nat
        BY <3>1, Kinds DEF handleAudioFrame, TypeInv, HandOK
      <4>2. more \in Seq(Frame)
        BY <4>1, AudioOf
      <4> HIDE DEF more
      <4>3. runs \in Seq(Frame)
        BY <1>0, <4>2, ConcatProperties
      <4>4. cut' = chunks(runs)
        BY <3>1 DEF handleAudioFrame, more
      <4> HIDE DEF runs
      <4> QED BY <4>3, <4>4, CutAudio DEF Marker
    <3>2. CASE enqueueFlushedAudioBuffer
      BY <1>0, <3>2, FlushedAudio DEF enqueueFlushedAudioBuffer, Marker
    <3> QED BY <1>1, <3>1, <3>2
  <2>3. (Ending' <=> Ending) /\ (EndWaits' <=> EndWaits) /\ (Marked' <=> Marked)
    BY <2>1 DEF Ending, EndWaits, Marked
  <2>4. Ending' => go["Proc"].pc = "flush" /\ audioRuns' = <<>>
    <3>1. CASE handleAudioFrame
      BY <2>3, <3>1 DEF handleAudioFrame, DrainInv, PcKinds, Ending, IsEnd
    <3>2. CASE enqueueFlushedAudioBuffer
      BY <3>2 DEF enqueueFlushedAudioBuffer
    <3> QED BY <1>1, <3>1, <3>2
  <2>5. EndOnce' /\ PcKinds' /\ MarkersPlain'
    BY <2>1, <2>2, <2>3 DEF DrainInv, EndOnce, PcKinds, MarkersPlain
  <2>6. MarkedLate'
    BY <2>1, <2>3, <2>4 DEF DrainInv, MarkedLate, Flushing
  <2>7. CutPushed' /\ BufferFlushed' /\ MarkerLast' /\ DrainedClean'
    BY <2>1, <2>3, <2>4 DEF DrainInv, CutPushed, BufferFlushed, MarkerLast, DrainedClean
  <2> QED BY <2>5, <2>6, <2>7 DEF DrainInv
<1>2. CASE PushChunk
  <2>1. /\ go["Proc"].pc = "push" /\ cut # <<>>
        /\ audioOut' = Append(audioOut, Head(cut)) /\ cut' = Tail(cut)
        /\ UNCHANGED <<unsent, todo, frame, audioRuns, drained, go>>
    BY <1>2 DEF PushChunk, lineVars, drainVars
  <2>2. /\ Len(audioOut') = Len(audioOut) + 1 /\ audioOut'[Len(audioOut) + 1] = Head(cut)
        /\ \A i \in 1..Len(audioOut) : audioOut'[i] = audioOut[i]
        /\ Head(cut) = cut[1] /\ Len(cut) >= 1
        /\ Len(cut') = Len(cut) - 1 /\ \A i \in 1..Len(cut') : cut'[i] = cut[i + 1]
    BY <1>0, <2>1
  <2>3. ~Marker(Head(cut)) /\ \A i \in 1..Len(cut') : ~Marker(cut'[i])
    BY <1>0, <2>2 DEF DrainInv, MarkersPlain
  <2>4. \A i \in 1..Len(audioOut') : Marker(audioOut'[i]) =>
            i \in 1..Len(audioOut) /\ audioOut'[i] = audioOut[i]
    BY <1>0, <2>2, <2>3
  <2>5. (Ending' <=> Ending) /\ (EndWaits' <=> EndWaits) /\ (Marked' => Marked)
    BY <2>1, <2>4 DEF Ending, EndWaits, Marked
  <2>6. Ending => ~Marked
    BY <2>1 DEF DrainInv, MarkedLate, Flushing
  <2>7. Ending' => ~Marked'
    BY <2>5, <2>6
  <2>8. EndOnce' /\ PcKinds' /\ MarkersPlain' /\ CutPushed' /\ BufferFlushed'
    BY <2>1, <2>3, <2>4, <2>5 DEF DrainInv, EndOnce, PcKinds, MarkersPlain, CutPushed,
       BufferFlushed
  <2>9. MarkedLate' /\ MarkerLast' /\ DrainedClean'
    BY <2>1, <2>5, <2>7 DEF DrainInv, MarkedLate, MarkerLast, DrainedClean, Marked
  <2> QED BY <2>8, <2>9 DEF DrainInv
<1>3. CASE ChunksPushed
  <2>1. /\ go["Proc"].pc = "push" /\ cut = <<>>
        /\ UNCHANGED <<unsent, todo, audioRuns, cut, audioOut, drained>>
    BY <1>3 DEF ChunksPushed, bufVars, loopVars, drainVars
  <2>2. CASE Handled("Proc")
    <3>1. Moves("Proc", "free", "free") /\ frame' = NoFrame
      BY <1>0, <2>2, CallMoves, Kinds DEF Handled
    <3> QED BY <2>1, <3>1, DrainKept, Kinds DEF Flushing
  <2>3. ASSUME NEW pc \in {"queue", "drain"}, Goto("Proc", pc), UNCHANGED frame,
               pc = "queue" => Kind[frame] = "stopped", pc = "drain" => Kind[frame] = "end"
        PROVE  DrainInv'
    <3>1. go'["Proc"].pc = pc /\ go'["Audio"] = go["Audio"]
      BY <1>a, <2>3
    <3>2. (Ending' <=> Ending) /\ (EndWaits' <=> EndWaits) /\ (Marked' <=> Marked)
      BY <2>1, <2>3, <3>1 DEF Ending, EndWaits, Marked
    <3>3. EndOnce' /\ PcKinds' /\ MarkersPlain' /\ MarkedLate'
      BY <2>1, <2>3, <3>1, <3>2 DEF DrainInv, EndOnce, PcKinds, MarkersPlain, MarkedLate,
         Flushing
    <3>4. CutPushed' /\ BufferFlushed' /\ MarkerLast' /\ DrainedClean'
      BY <2>1, <3>1, <3>2 DEF DrainInv, CutPushed, BufferFlushed, MarkerLast, DrainedClean
    <3> QED BY <3>3, <3>4 DEF DrainInv
  <2> QED BY <1>3, <2>2, <2>3 DEF ChunksPushed
<1>4. CASE QueueBehind
  <2>1. /\ go["Proc"].pc = "queue" /\ frame' = NoFrame
        /\ audioOut' = Append(audioOut, queued(frame))
        /\ UNCHANGED <<unsent, todo, audioRuns, cut, drained>>
    BY <1>4 DEF QueueBehind, Handled, bufVars, drainVars
  <2>2. go'["Proc"].pc = "free" /\ go'["Audio"] = go["Audio"]
    BY <1>0, <1>4, CallMoves, Kinds DEF QueueBehind, Handled, Moves
  <2>3. queued(frame) \in Item /\ ~Marker(queued(frame))
    <3>1. frame \in Frame
      BY <2>1 DEF TypeInv, HandOK
    <3> QED BY <3>1 DEF queued, Item, Marker
  <2>4. \A i \in 1..Len(audioOut') : Marker(audioOut'[i]) =>
            i \in 1..Len(audioOut) /\ audioOut'[i] = audioOut[i]
    BY <1>0, <2>1, <2>3, AppendProperties
  <2>5. ~Ending' /\ (EndWaits' <=> EndWaits) /\ (Marked' => Marked)
    BY <2>1, <2>2, <2>4 DEF Ending, EndWaits, Marked
  <2>6. EndOnce' /\ PcKinds' /\ MarkersPlain' /\ MarkedLate'
    BY <2>1, <2>2, <2>4, <2>5 DEF DrainInv, EndOnce, PcKinds, MarkersPlain, MarkedLate
  <2>7. CutPushed' /\ BufferFlushed' /\ MarkerLast' /\ DrainedClean'
    BY <2>1, <2>2, <2>5 DEF DrainInv, CutPushed, BufferFlushed, MarkerLast, DrainedClean
  <2> QED BY <2>6, <2>7 DEF DrainInv
<1>5. CASE drainAudio
  <2>1. /\ go["Proc"].pc = "drain" /\ go'["Proc"].pc = "mark" /\ go'["Audio"] = go["Audio"]
        /\ UNCHANGED <<unsent, todo, frame, audioRuns, cut, audioOut, drained>>
    BY <1>5, <1>a DEF drainAudio, lineVars, bufVars, loopVars
  <2>2. (Ending' <=> Ending) /\ (EndWaits' <=> EndWaits) /\ (Marked' <=> Marked)
    BY <2>1 DEF Ending, EndWaits, Marked
  <2>3. EndOnce' /\ PcKinds' /\ MarkersPlain' /\ MarkedLate'
    BY <2>1, <2>2 DEF DrainInv, EndOnce, PcKinds, MarkersPlain, MarkedLate, Flushing
  <2>4. CutPushed' /\ BufferFlushed' /\ MarkerLast' /\ DrainedClean'
    BY <2>1, <2>2 DEF DrainInv, CutPushed, BufferFlushed, MarkerLast, DrainedClean
  <2> QED BY <2>3, <2>4 DEF DrainInv
<1>6. CASE PushMarker
  <2>1. /\ go["Proc"].pc = "mark" /\ go'["Proc"].pc = "draining" /\ go'["Audio"] = go["Audio"]
        /\ audioOut' = Append(audioOut, drainMarker)
        /\ UNCHANGED <<unsent, todo, frame, audioRuns, cut, drained>>
    BY <1>6, <1>a DEF PushMarker, lineVars, bufVars, drainVars
  <2>2. drainMarker \in Item /\ Marker(drainMarker) /\ ~drainMarker.keep
    BY DEF drainMarker, Item, Marker
  <2>3. /\ Len(audioOut') = Len(audioOut) + 1 /\ audioOut'[Len(audioOut) + 1] = drainMarker
        /\ \A i \in 1..Len(audioOut) : audioOut'[i] = audioOut[i]
    BY <1>0, <2>1, <2>2, AppendProperties
  <2>4. Ending /\ ~Marked
    BY <1>b, <2>1 DEF DrainInv, PcKinds, MarkedLate, Flushing, Ending, IsEnd
  <2>5. Ending' /\ (EndWaits' <=> EndWaits)
    BY <2>1, <2>4 DEF Ending, EndWaits
  <2>6. ~EndWaits /\ \A f \in unsent : ~IsEnd(f)
    BY <2>4 DEF DrainInv, EndOnce
  <2>7. \A i \in 1..Len(audioOut) : ~Marker(audioOut'[i])
    BY <2>3, <2>4 DEF Marked
  <2>8. \A i \in 1..Len(audioOut') : Marker(audioOut'[i]) =>
           i = Len(audioOut') /\ audioOut'[i] = drainMarker
    BY <1>0, <2>3, <2>7
  <2>9. EndOnce' /\ PcKinds' /\ MarkersPlain' /\ MarkedLate'
    BY <2>1, <2>2, <2>5, <2>6, <2>8 DEF DrainInv, EndOnce, PcKinds, MarkersPlain, MarkedLate,
       Flushing
  <2>10. CutPushed' /\ BufferFlushed' /\ MarkerLast' /\ DrainedClean'
    BY <2>1, <2>4, <2>8 DEF DrainInv, CutPushed, BufferFlushed, MarkerLast, DrainedClean, Marked
  <2> QED BY <2>9, <2>10 DEF DrainInv
<1> QED BY <1>1, <1>2, <1>3, <1>4, <1>5, <1>6

\* An interruption: what it keeps is in the order it was, and no marker is kept.
LEMMA DrainInput ==
  ASSUME TypeInv, DrainInv, startInterruption \/ ResetQueue
  PROVE  DrainInv'
<1>0. /\ go \in Go /\ todo \in Seq(Frame) /\ audioOut \in Seq(Item)
      /\ {"reset", "resetBuffer"} \subseteq Pcs
  BY DEF TypeInv, TypeOK, Go, Pcs
<1>1. CASE startInterruption
  <2> DEFINE p == Pick(todo, Uninterruptible(todo))
  <2>1. /\ todo' = p
        /\ UNCHANGED <<unsent, frame, audioRuns, cut, audioOut, drained>>
    BY <1>1 DEF startInterruption, bufVars, loopVars, drainVars
  <2>2. PICK from \in [1..Len(p) -> 1..Len(todo)] :
          /\ \A k \in 1..Len(p) : p[k] = todo[from[k]]
          /\ \A k, l \in 1..Len(p) : k < l => from[k] < from[l]
    BY <1>0, UninterruptibleKept
  <2>3. p \in Seq(Frame)
    BY <1>0, UninterruptibleKept
  <2> HIDE DEF p
  <2>4. go'["Proc"] = go["Proc"] /\ go'["Audio"] = go["Audio"]
    BY <1>0, <1>1, GotoMoves, Kinds DEF startInterruption, Moves
  <2>5. (Ending' <=> Ending) /\ (EndWaits' => EndWaits) /\ (Marked' <=> Marked)
    BY <2>1, <2>2, <2>4 DEF Ending, EndWaits, Marked
  <2>6. ASSUME NEW i \in 1..Len(todo'), NEW j \in 1..Len(todo'),
               IsEnd(todo'[i]), IsEnd(todo'[j])
        PROVE  i = j
    <3>1. i \in 1..Len(p) /\ j \in 1..Len(p) /\ Len(p) \in Nat /\ Len(todo) \in Nat
      BY <1>0, <2>1, <2>3
    <3>2. from[i] \in 1..Len(todo) /\ from[j] \in 1..Len(todo)
      BY <2>2, <3>1
    <3>3. from[i] = from[j]
      BY <2>1, <2>2, <2>6, <3>1, <3>2 DEF DrainInv, EndOnce
    <3>4. ~(i < j) /\ ~(j < i)
      BY <2>2, <3>1, <3>2, <3>3
    <3> QED BY <3>1, <3>4
  <2>7. EndOnce' /\ MarkedLate'
    BY <2>1, <2>4, <2>5, <2>6 DEF DrainInv, EndOnce, MarkedLate
  <2>8. PcKinds' /\ MarkersPlain' /\ CutPushed' /\ BufferFlushed' /\ MarkerLast' /\ DrainedClean'
    BY <2>1, <2>4, <2>5 DEF DrainInv, PcKinds, MarkersPlain, CutPushed, BufferFlushed,
       MarkerLast, DrainedClean
  <2> QED BY <2>7, <2>8 DEF DrainInv
<1>2. CASE ResetQueue
  <2>1. /\ audioOut' = reset(audioOut)
        /\ UNCHANGED <<unsent, todo, frame, audioRuns, cut, drained>>
    BY <1>2 DEF ResetQueue, lineVars, bufVars
  <2>2. go'["Proc"] = go["Proc"] /\ go'["Audio"] = go["Audio"]
    BY <1>0, <1>2, GotoMoves, Kinds DEF ResetQueue, Moves
  <2>3. PICK from \in [1..Len(reset(audioOut)) -> 1..Len(audioOut)] :
          \A k \in 1..Len(reset(audioOut)) :
             reset(audioOut)[k] = audioOut[from[k]] /\ audioOut[from[k]].keep
    BY <1>0, ResetKeeps
  <2>4. \A k \in 1..Len(audioOut') : ~Marker(audioOut'[k])
    BY <2>1, <2>3 DEF DrainInv, MarkersPlain
  <2>5. (\A k \in 1..Len(audioOut) : audioOut[k].what # "chunk") =>
           \A k \in 1..Len(audioOut') : audioOut'[k].what # "chunk"
    BY <2>1, <2>3
  <2>6. (Ending' <=> Ending) /\ (EndWaits' <=> EndWaits) /\ (Marked' => Marked)
    BY <2>1, <2>2, <2>4 DEF Ending, EndWaits, Marked
  <2>7. EndOnce' /\ PcKinds' /\ MarkersPlain' /\ MarkedLate'
    BY <2>1, <2>2, <2>4, <2>6 DEF DrainInv, EndOnce, PcKinds, MarkersPlain, MarkedLate
  <2>8. CutPushed' /\ BufferFlushed' /\ MarkerLast'
    BY <2>1, <2>2, <2>4, <2>6 DEF DrainInv, CutPushed, BufferFlushed, MarkerLast
  <2>9. DrainedClean'
    BY <2>1, <2>2, <2>5, <2>6 DEF DrainInv, DrainedClean
  <2> QED BY <2>7, <2>8, <2>9 DEF DrainInv
<1> QED BY <1>1, <1>2

\* The audio loop taking the head of the queue, and finding the marker.
LEMMA DrainLoop ==
  ASSUME TypeInv, DrainInv, LoopStep
  PROVE  DrainInv'
<1>0. go \in Go /\ LoopPcs \subseteq Pcs /\ audioOut \in Seq(Item) /\ Len(audioOut) \in Nat
  BY DEF TypeInv, TypeOK, Go, Pcs, StopPcs, LoopPcs
<1>a. ASSUME NEW pc \in LoopPcs \ {"drained"}, NEW back \in {"check", "forward"},
             Goto("Audio", pc) \/ Call("Audio", pc, back), UNCHANGED loopVars, LoopUnchanged,
             pc \in Playing => go["Audio"].pc \in Playing
      PROVE  DrainInv'
  <2>1. Moves("Audio", pc, go["Audio"].back) \/ Moves("Audio", pc, back)
    BY <1>0, <1>a, GotoMoves, CallMoves, Kinds
  <2>2. UNCHANGED <<unsent, todo, frame, audioRuns, cut, audioOut, drained>>
    BY <1>a DEF LoopUnchanged, lineVars, bufVars, loopVars, drainVars
  <2> QED BY <1>a, <2>1, <2>2, DrainKept, Kinds
<1>1. CASE tryGet
  <2>1. /\ audioOut # <<>> /\ audioOut' = Tail(audioOut)
        /\ UNCHANGED <<unsent, todo, frame, audioRuns, cut, drained>>
    BY <1>1 DEF tryGet, LoopUnchanged, lineVars, bufVars, drainVars
  <2>2. /\ Head(audioOut) = audioOut[1] /\ Head(audioOut) \in Item /\ 1 \in 1..Len(audioOut)
        /\ Len(audioOut') = Len(audioOut) - 1
        /\ \A i \in 1..Len(audioOut') : i + 1 \in 1..Len(audioOut) /\ audioOut'[i] = audioOut[i + 1]
    BY <1>0, <2>1
  <2> DEFINE pc == PlayPc(Head(audioOut))
  <2>3. /\ pc \in {"drained", "speech", "ttsStopped"}
        /\ pc = "drained" <=> Marker(audioOut[1])
        /\ pc = "speech" <=> audioOut[1].what = "chunk"
    BY <2>2 DEF PlayPc, Item, Marker
  <2>4. Goto("Audio", pc) /\ go["Audio"].pc = "get"
    BY <1>1 DEF tryGet
  <2> HIDE DEF pc
  <2>5. go'["Audio"].pc = pc /\ go'["Proc"] = go["Proc"]
    BY <1>0, <2>3, <2>4, GotoMoves, Kinds DEF Moves, LoopPcs
  <2>6. (Ending' <=> Ending) /\ (EndWaits' <=> EndWaits)
    BY <2>1 DEF Ending, EndWaits
  <2>7. Marked' => Marked
    BY <2>1, <2>2, <2>3, <2>5 DEF Marked
  <2>8. EndOnce' /\ PcKinds' /\ MarkersPlain' /\ MarkedLate'
    BY <2>1, <2>2, <2>5, <2>6, <2>7 DEF DrainInv, EndOnce, PcKinds, MarkersPlain, MarkedLate
  <2>9. CutPushed' /\ BufferFlushed'
    BY <2>1, <2>5, <2>6 DEF DrainInv, CutPushed, BufferFlushed
  <2>10. MarkerLast'
    <3> SUFFICES ASSUME Ending', NEW i \in 1..Len(audioOut'), Marker(audioOut'[i])
                 PROVE  i = Len(audioOut')
      BY DEF MarkerLast
    <3>1. i + 1 = Len(audioOut)
      BY <2>2, <2>6 DEF DrainInv, MarkerLast
    <3> QED BY <1>0, <2>2, <3>1
  <2>11. DrainedClean'
    <3> SUFFICES ASSUME Ending', drained' \/ pc = "drained"
                 PROVE  /\ \A i \in 1..Len(audioOut') : audioOut'[i].what # "chunk"
                        /\ pc \notin Playing
      BY <2>5 DEF DrainedClean
    <3>1. CASE drained
      <4>1. \A i \in 1..Len(audioOut) : audioOut[i].what # "chunk"
        BY <2>6, <3>1 DEF DrainInv, DrainedClean
      <4> QED BY <2>2, <2>3, <4>1 DEF Playing
    <3>2. CASE pc = "drained"
      <4>1. Len(audioOut) = 1
        BY <2>2, <2>3, <2>6, <3>2 DEF DrainInv, MarkerLast
      <4> QED BY <2>2, <3>2, <4>1 DEF Playing
    <3> QED BY <2>1, <3>1, <3>2
  <2> QED BY <2>8, <2>9, <2>10, <2>11 DEF DrainInv
<1>2. CASE signalDrained
  <2>1. /\ go["Audio"].pc = "drained" /\ Goto("Audio", "check")
        /\ UNCHANGED <<unsent, todo, frame, audioRuns, cut, audioOut>>
    BY <1>2 DEF signalDrained, lineVars, bufVars, loopVars
  <2>2. go'["Audio"].pc = "check" /\ go'["Proc"] = go["Proc"]
    BY <1>0, <2>1, GotoMoves, Kinds DEF Moves, LoopPcs
  <2>3. (Ending' <=> Ending) /\ (EndWaits' <=> EndWaits) /\ Marked
    BY <2>1 DEF Ending, EndWaits, Marked
  <2>4. EndOnce' /\ PcKinds' /\ MarkersPlain' /\ MarkedLate'
    BY <2>1, <2>2, <2>3 DEF DrainInv, EndOnce, PcKinds, MarkersPlain, MarkedLate
  <2>5. CutPushed' /\ BufferFlushed' /\ MarkerLast'
    BY <2>1, <2>2, <2>3 DEF DrainInv, CutPushed, BufferFlushed, MarkerLast
  <2>6. DrainedClean'
    BY <2>1, <2>2, <2>3 DEF DrainInv, DrainedClean, Playing
  <2> QED BY <2>4, <2>5, <2>6 DEF DrainInv
<1>3. CASE CheckContext
  BY <1>3, <1>a DEF CheckContext, LoopPcs, Playing
<1>4. CASE NothingQueued
  BY <1>4, <1>a DEF NothingQueued, LoopPcs, Playing
<1>5. CASE Wake
  BY <1>5, <1>a DEF Wake, LoopPcs, Playing
<1>6. CASE IdleTimer
  BY <1>6, <1>a DEF IdleTimer, LoopPcs, Playing
<1>7. CASE handleBotSpeech
  BY <1>7, <1>a DEF handleBotSpeech, LoopPcs, Playing
<1>8. CASE botStartedSpeaking
  BY <1>8, <1>a DEF botStartedSpeaking, LoopPcs, Playing
<1>9. CASE BroadcastStarted
  BY <1>9, <1>a DEF BroadcastStarted, LoopPcs, Playing
<1>10. CASE writeAudio \/ WriteAudio
  BY <1>10, <1>a DEF writeAudio, WriteAudio, LoopPcs, Playing
<1>11. CASE ttsStopped
  BY <1>11, <1>a DEF ttsStopped, LoopPcs, Playing
<1>12. CASE Forward
  BY <1>12, <1>a DEF Forward, LoopPcs, Playing
<1> QED BY <1>1, <1>2, <1>3, <1>4, <1>5, <1>6, <1>7, <1>8, <1>9, <1>10, <1>11, <1>12
        DEF LoopStep

\* Giving up the floor and stopping.
LEMMA DrainStop ==
  ASSUME TypeInv, DrainInv, NEW g \in Goroutines, GiveUpFloor(g) \/ (g # "Audio" /\ StopStep(g))
  PROVE  DrainInv'
<1>0. go \in Go /\ {"join", "stopped", "exited", "free"} \subseteq Pcs
  BY DEF TypeInv, TypeOK, Go, Pcs, StopPcs
<1>1. go[g].back \in {"free", "stop", "check", "forward"}
  BY <1>0 DEF Go
<1>a. ASSUME UNCHANGED <<unsent, todo, cut, audioOut, drained>>,
             audioRuns = <<>> => audioRuns' = <<>>,
             frame' = frame \/ (g = "Proc" /\ frame' = NoFrame),
             NEW pc \in {"clear", "tell", "free", "stop", "check", "forward", "join",
                         "stopped", "exited"},
             NEW back, Moves(g, pc, back), go[g].pc \notin {"push", "flush"}
      PROVE  DrainInv'
  <2>1. g = "Proc" => cut = <<>>
    BY <1>a DEF DrainInv, CutPushed
  <2>2. pc \notin Flushing \cup {"audio", "queue", "drained"} \cup Playing
    BY DEF Flushing, Playing
  <2> QED BY <1>a, <2>1, <2>2, DrainKept
<1>2. CASE GiveUpFloor(g)
  <2>1. /\ go[g].pc \in {"floor", "clear", "tell"}
        /\ \/ Moves(g, "clear", go[g].back) \/ Moves(g, "tell", go[g].back)
           \/ Moves(g, go[g].back, "free")
    BY <1>2, FloorMoves
  <2>2. UNCHANGED <<unsent, todo, cut, audioOut, drained>> /\ (audioRuns = <<>> => audioRuns' = <<>>)
    BY <1>2 DEF GiveUpFloor, botStoppedSpeaking, clearAudioBuffer, BroadcastStopped,
       lineVars, bufVars, loopVars, drainVars
  <2>3. frame' = frame \/ (g = "Proc" /\ frame' = NoFrame)
    BY <1>2 DEF GiveUpFloor, botStoppedSpeaking, clearAudioBuffer, BroadcastStopped,
       lineVars, Return, Handled
  <2> QED BY <1>1, <1>a, <2>1, <2>2, <2>3
<1>3. CASE g # "Audio" /\ stop(g)
  <2>1. Goto(g, "join") \/ Goto(g, "stopped")
    BY <1>3 DEF stop
  <2>2. Moves(g, "join", go[g].back) \/ Moves(g, "stopped", go[g].back)
    BY <1>0, <2>1, GotoMoves
  <2>3. UNCHANGED <<unsent, todo, frame, cut, audioRuns, audioOut, drained>> /\ go[g].pc = "stop"
    BY <1>3 DEF stop, lineVars, bufVars, drainVars
  <2> QED BY <1>a, <2>2, <2>3
<1>4. CASE JoinLoop(g)
  <2>1. Moves(g, "stopped", go[g].back) /\ go[g].pc = "join"
    BY <1>0, <1>4, GotoMoves DEF JoinLoop
  <2>2. UNCHANGED <<unsent, todo, frame, cut, audioRuns, audioOut, drained>>
    BY <1>4 DEF JoinLoop, lineVars, bufVars, loopVars, drainVars
  <2> QED BY <1>a, <2>1, <2>2
<1>5. CASE Stopped(g)
  <2>1. UNCHANGED <<unsent, todo, cut, audioRuns, audioOut, drained>> /\ go[g].pc = "stopped"
    BY <1>5 DEF Stopped, bufVars, loopVars, drainVars
  <2>2. CASE g = "Life"
    <3>1. Moves(g, "exited", go[g].back) /\ frame' = frame
      BY <1>0, <1>5, <2>2, GotoMoves DEF Stopped
    <3> QED BY <1>a, <2>1, <3>1
  <2>3. CASE g # "Life"
    <3>1. Moves(g, "free", "free") /\ (frame' = frame \/ (g = "Proc" /\ frame' = NoFrame))
      BY <1>0, <1>5, <2>3, CallMoves DEF Stopped, Handled
    <3> QED BY <1>a, <2>1, <3>1
  <2> QED BY <2>2, <2>3
<1> QED BY <1>2, <1>3, <1>4, <1>5 DEF StopStep

LEMMA DrainNext == TypeInv /\ DrainInv /\ [Next]_vars => DrainInv'
<1> SUFFICES ASSUME TypeInv, DrainInv, [Next]_vars PROVE DrainInv'
  OBVIOUS
<1>0. /\ go \in Go /\ audioRuns \in Seq(Frame)
      /\ {"floor", "free", "audioLeft", "spared", "interruption", "cancel"} \subseteq Pcs
  BY DEF TypeInv, TypeOK, Go, Pcs, StopPcs
<1>1. CASE UNCHANGED vars
  <2>1. UNCHANGED <<unsent, todo, frame, go, audioRuns, cut, audioOut, drained>>
    BY <1>1 DEF vars, lineVars, bufVars, loopVars, drainVars
  <2>2. (Ending' <=> Ending) /\ (EndWaits' <=> EndWaits) /\ (Marked' <=> Marked)
    BY <2>1 DEF Ending, EndWaits, Marked
  <2> QED BY <2>1, <2>2 DEF DrainInv, EndOnce, PcKinds, MarkersPlain, MarkedLate,
          CutPushed, BufferFlushed, MarkerLast, DrainedClean
<1>a. ASSUME NEW g \in {"Proc", "Input", "Life"}, NEW pc \in Pcs,
             NEW back \in {"free", "stop", "check", "forward"},
             Goto(g, pc) \/ Call(g, pc, back),
             UNCHANGED <<todo, frame, cut, audioOut, drained>>, unsent' \subseteq unsent,
             audioRuns = <<>> => audioRuns' = <<>>,
             g = "Proc" => pc = "floor" /\ go[g].pc = "draining"
      PROVE  DrainInv'
  <2>1. g \in Goroutines /\ g # "Audio"
    BY Kinds
  <2>2. Moves(g, pc, go[g].back) \/ Moves(g, pc, back)
    BY <1>0, <1>a, <2>1, GotoMoves, CallMoves
  <2>3. g = "Proc" => cut = <<>> /\ pc \notin Flushing \cup {"audio", "queue"}
    BY <1>a DEF DrainInv, CutPushed, Flushing
  <2> QED BY <1>a, <2>1, <2>2, <2>3, DrainKept
<1> USE DEF lineVars, bufVars, loopVars, drainVars
<1>2. CASE DrainOver
  BY <1>0, <1>2, <1>a DEF DrainOver
<1>3. CASE CancelJoined
  BY <1>0, <1>3, <1>a DEF CancelJoined
<1>4. CASE AudioLeft
  BY <1>0, <1>4, <1>a DEF AudioLeft
<1>5. CASE Cleanup
  BY <1>0, <1>5, <1>a DEF Cleanup
<1>6. ASSUME NEW f \in Frame, TakeSystem(f) PROVE DrainInv'
  BY <1>0, <1>6, <1>a DEF TakeSystem, SystemKinds
<1>7. CASE ResetBuffer
  <2>1. audioRuns = <<>> => audioRuns' = <<>>
    <3>1. audioRuns' \in Seq(Frame) /\ Len(audioRuns') <= Len(audioRuns)
      BY <1>0, <1>7, UninterruptibleKept DEF ResetBuffer, keepUninterruptibleAudio
    <3> QED BY <3>1
  <2> QED BY <1>0, <1>7, <1>a, <2>1 DEF ResetBuffer
<1> HIDE DEF lineVars, bufVars, loopVars, drainVars
<1>8. CASE ProcStep
  BY <1>2, <1>8, DrainLine, DrainProc, DrainStop, Kinds DEF ProcStep
<1>9. CASE InputStep
  BY <1>3, <1>4, <1>7, <1>9, DrainInput, DrainStop, Kinds DEF InputStep
<1>10. CASE AudioStep \/ WriteAudio
  BY <1>10, DrainLoop, DrainStop, Kinds DEF AudioStep, LoopStep
<1>11. CASE LifeStep
  BY <1>11, DrainStop, Kinds DEF LifeStep
<1>12. CASE \E f \in Frame : QueueFrame(f)
  BY <1>12, DrainLine
<1> QED BY <1>1, <1>5, <1>6, <1>8, <1>9, <1>10, <1>11, <1>12 DEF Next

\* When the drain of an EndFrame ends because its marker came round, all audio
\* that came before the EndFrame was played: none is in the buffer, queued or in
\* the audio loop's hands, for any frames and sizes, whatever interruptions,
\* cancels and Cleanup run meanwhile (drainAudio, signalDrained).
THEOREM DrainCoversHolds == Spec => []DrainCovers
<1>1. TypeInv /\ DrainInv => DrainCovers
  <2> SUFFICES ASSUME TypeInv, DrainInv, Ending, drained PROVE DrainCovers
    BY DEF DrainCovers, Ending, IsEnd
  <2>1. audioOut \in Seq(Item) /\ DOMAIN audioOut = 1..Len(audioOut)
    BY LenProperties DEF TypeInv, TypeOK
  <2>2. go["Proc"].pc \notin Flushing
    BY DEF DrainInv, MarkedLate, Marked
  <2>3. audioRuns = <<>> /\ cut = <<>>
    BY <2>2 DEF DrainInv, CutPushed, BufferFlushed, Flushing
  <2> QED BY <2>1, <2>3 DEF DrainInv, DrainedClean, DrainCovers, Playing
<1> QED BY <1>1, TypeInit, TypeNext, DrainInit, DrainNext, PTL DEF Spec
=============================================================================
