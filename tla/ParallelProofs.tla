--------------------------- MODULE ParallelProofs ---------------------------
(***************************************************************************)
(* What holds of a parallel pipeline for any number of branches and any    *)
(* frames: type correctness, that a frame leaves it at most once, that the *)
(* StartFrame leaves first, that one branch at a time releases, and that   *)
(* the EndFrame leaves behind everything that was queued ahead of it.      *)
(***************************************************************************)
EXTENDS ParallelPipeline, FrameQueueProofs

(***************************************************************************)
(* Type correctness.  As in a processor, that the queues, the buffer and   *)
(* the history hold frames and never nil rests on what a goroutine holds.  *)
(***************************************************************************)
HandOK == \A g \in Goroutines :
              /\ go[g].pc # "idle" => go[g].frame \in Frame
              /\ go[g].pc = "pushBuffered" => go[g].item \in Frame

GoOK == go \in [Goroutines -> GoroutineType] /\ HandOK

TypeInv == TypeOK /\ HandOK

\* A new parallel pipeline (newParallelAs) is well typed.
LEMMA TypeInit == Init => TypeInv
<1> SUFFICES ASSUME Init PROVE TypeInv
  OBVIOUS
<1>1. N \in Nat \ {0} /\ Frame \cap {NoFrame} = {}
  BY ParallelAssumption, NoFrameAssumption
<1>2. newQueue \in Queue
  BY DEF newQueue, Queue
<1>3. NewNode \in NodeType
  BY <1>2 DEF NewNode, NodeType
<1>4. Idle \in GoroutineType /\ Idle.pc = "idle"
  BY <1>1 DEF Idle, GoroutineType, Pcs, Branch
<1>5. node \in [Node -> NodeType] /\ go \in [Goroutines -> GoroutineType]
  BY <1>3, <1>4 DEF Init
<1>6. HandOK
  BY <1>4 DEF HandOK, Init
<1>7. counter \in [Frame -> 0..N]
  BY <1>1 DEF Init
<1>8. buffered \in Seq(Frame) /\ arrived \in Seq(Frame) /\ out \in Seq(Frame)
  BY DEF Init
<1> QED BY <1>5, <1>6, <1>7, <1>8 DEF TypeInv, TypeOK, Init

\* One goroutine moves on to pc.
LEMMA GotoType ==
  ASSUME GoOK, NEW g \in Goroutines, NEW pc \in Pcs \ {"pushBuffered"},
         go[g].pc # "idle", Goto(g, pc)
  PROVE  GoOK'
<1>1. go[g] \in GoroutineType /\ go[g].frame \in Frame
  BY DEF GoOK, HandOK
<1>2. go' = [go EXCEPT ![g] = [go[g] EXCEPT !.pc = pc]]
  BY DEF Goto
<1>3. [go[g] EXCEPT !.pc = pc] \in GoroutineType
  BY <1>1 DEF GoroutineType
<1>4. go' \in [Goroutines -> GoroutineType]
  BY <1>2, <1>3 DEF GoOK
<1>5. \A h \in Goroutines : go'[h] = IF h = g THEN [go[g] EXCEPT !.pc = pc] ELSE go[h]
  BY <1>2 DEF GoOK
<1>6. HandOK'
  BY <1>1, <1>5 DEF HandOK, GoOK, GoroutineType
<1> QED BY <1>4, <1>6 DEF GoOK

\* A goroutine is done with its frame.
LEMMA DoneType ==
  ASSUME GoOK, NEW g \in Goroutines, Done(g)
  PROVE  GoOK'
<1>1. Idle \in GoroutineType /\ Idle.pc = "idle"
  BY ParallelAssumption DEF Idle, GoroutineType, Pcs, Branch
<1>2. go' \in [Goroutines -> GoroutineType]
  BY <1>1 DEF Done, GoOK
<1>3. \A h \in Goroutines : go'[h] = IF h = g THEN Idle ELSE go[h]
  BY DEF Done, GoOK
<1>4. HandOK'
  BY <1>1, <1>3 DEF HandOK, GoOK
<1> QED BY <1>2, <1>4 DEF GoOK

\* A goroutine takes up a frame.
LEMMA TakeType ==
  ASSUME GoOK, NEW g \in Goroutines, NEW pc \in Pcs \ {"pushBuffered"},
         NEW f \in Frame, Take(g, pc, f)
  PROVE  GoOK'
<1> DEFINE r == [Idle EXCEPT !.pc = pc, !.frame = f]
<1>0. Idle \in GoroutineType
  BY ParallelAssumption DEF Idle, GoroutineType, Pcs, Branch
<1>1. r \in GoroutineType /\ r.pc = pc /\ r.frame = f
  BY <1>0 DEF GoroutineType
<1>2. go' = [go EXCEPT ![g] = r]
  BY DEF Take
<1> HIDE DEF r
<1>3. go' \in [Goroutines -> GoroutineType]
  BY <1>1, <1>2 DEF GoOK
<1>4. \A h \in Goroutines : go'[h] = IF h = g THEN r ELSE go[h]
  BY <1>2 DEF GoOK
<1>5. HandOK'
  BY <1>1, <1>4 DEF HandOK, GoOK
<1> QED BY <1>3, <1>5 DEF GoOK

\* A node accepts a frame or refuses it.
LEMMA AcceptType ==
  ASSUME node \in [Node -> NodeType], NEW p \in Node, NEW f \in Frame, Accept(p, f)
  PROVE  node' \in [Node -> NodeType]
<1>1. node[p] \in NodeType /\ node[p].inputQueue \in Queue
  BY DEF NodeType
<1>2. push(node[p].inputQueue, f) \in Queue
  BY <1>1, PushProperties
<1> DEFINE q == push(node[p].inputQueue, f)
           b == (p \in Branch /\ Kind[f] = "cancel")
           r == [node[p] EXCEPT !.inputQueue = q, !.canceling = b]
<1>3. r \in NodeType
  BY <1>1, <1>2 DEF NodeType
<1>4. node' = node \/ node' = [node EXCEPT ![p] = r]
  BY DEF Accept
<1> QED BY <1>3, <1>4

\* What a goroutine of node p is called.
LEMMA LaneIn ==
  ASSUME NEW p \in Node, NEW l \in Lane
  PROVE  <<p, l>> \in Goroutines
  BY DEF Goroutines

\* The steps of a node's two goroutines that leave the merge alone.
LEMMA NodeStepType ==
  ASSUME TypeInv, NEW p \in Node,
         \/ HandOn(p) \/ TakeSystem(p) \/ Join(p) \/ HandleStart(p)
         \/ HandleCancel(p) \/ HandleInterruption(p) \/ TakeFrame(p)
         \/ (p = 0 /\ (Gate \/ GiveBack))
  PROVE  GoOK' /\ node' \in [Node -> NodeType] /\ heldFrames' \in BOOLEAN
<1> DEFINE i == <<p, "input">>
           l == <<p, "process">>
<1>1. GoOK /\ i \in Goroutines /\ l \in Goroutines
  BY LaneIn DEF TypeInv, TypeOK, GoOK, Lane
<1>2. /\ node \in [Node -> NodeType] /\ node[p] \in NodeType
      /\ node[p].inputQueue \in Queue /\ node[p].procQueue \in Queue
  BY DEF TypeInv, TypeOK, NodeType
<1>3. heldFrames \in BOOLEAN
  BY DEF TypeInv, TypeOK
<1>4. \A g \in Goroutines : go[g].pc # "idle" => go[g].frame \in Frame
  BY <1>1 DEF GoOK, HandOK
<1>5. reset(node[p].procQueue) \in Queue
  BY <1>2, ResetProperties
<1>6. CASE HandOn(p)
  <2> DEFINE f == head(node[p].inputQueue)
             a == get(node[p].inputQueue)
             b == push(node[p].procQueue, f)
             r == [node[p] EXCEPT !.inputQueue = a, !.procQueue = b]
  <2>1. f \in Frame /\ a \in Queue
    BY <1>2, <1>6, GetProperties DEF HandOn, InputReady
  <2>2. b \in Queue
    BY <1>2, <2>1, PushProperties
  <2>3. r \in NodeType
    BY <1>2, <2>1, <2>2 DEF NodeType
  <2>4. node' = [node EXCEPT ![p] = r]
    BY <1>2, <1>6 DEF HandOn, NodeType
  <2> QED BY <1>1, <1>2, <1>3, <1>6, <2>3, <2>4 DEF HandOn, gateVars, GoOK, HandOK
<1>7. CASE TakeSystem(p)
  <2> DEFINE f == head(node[p].inputQueue)
             a == get(node[p].inputQueue)
             r == [node[p] EXCEPT !.inputQueue = a]
  <2>1. f \in Frame /\ a \in Queue
    BY <1>2, <1>7, GetProperties DEF TakeSystem, InputReady
  <2>2. r \in NodeType
    BY <1>2, <2>1 DEF NodeType
  <2>3. node' = [node EXCEPT ![p] = r]
    BY <1>2, <1>7 DEF TakeSystem, NodeType
  <2>4. node' \in [Node -> NodeType]
    BY <1>2, <2>2, <2>3
  <2>5. Take(i, "handle", f)
    BY <1>7 DEF TakeSystem
  <2>6. GoOK'
    BY <1>1, <2>1, <2>5, TakeType DEF Pcs
  <2> QED BY <1>3, <1>7, <2>4, <2>6 DEF TakeSystem, gateVars
<1>8. CASE Join(p)
  <2> DEFINE b == reset(node[p].procQueue)
             r == [node[p] EXCEPT !.running = TRUE, !.procQueue = b]
  <2>1. r \in NodeType
    BY <1>2, <1>5 DEF NodeType
  <2>2. node' = node \/ node' = [node EXCEPT ![p] = r]
    BY <1>2, <1>8 DEF Join, NodeType
  <2>3. node' \in [Node -> NodeType]
    BY <1>2, <2>1, <2>2
  <2>4. GoOK'
    BY <1>1, <1>8, GotoType DEF Join, Pcs
  <2> QED BY <1>3, <1>8, <2>3, <2>4 DEF Join
<1>9. CASE HandleStart(p)
  <2> DEFINE r == [node[p] EXCEPT !.started = TRUE, !.running = TRUE]
  <2>1. r \in NodeType
    BY <1>2 DEF NodeType
  <2>2. node' = [node EXCEPT ![p] = r]
    BY <1>2, <1>9 DEF HandleStart, NodeType
  <2>3. node' \in [Node -> NodeType]
    BY <1>2, <2>1, <2>2
  <2>4. GoOK'
    BY <1>1, <1>9, GotoType DEF HandleStart, Handles, Pcs
  <2> QED BY <1>3, <1>9, <2>3, <2>4 DEF HandleStart, Handles, gateVars
<1>10. CASE HandleCancel(p)
  <2> DEFINE r == [node[p] EXCEPT !.canceling = TRUE, !.running = FALSE]
  <2>1. r \in NodeType
    BY <1>2 DEF NodeType
  <2>2. node' = [node EXCEPT ![p] = r]
    BY <1>2, <1>10 DEF HandleCancel, NodeType
  <2>3. node' \in [Node -> NodeType]
    BY <1>2, <2>1, <2>2
  <2>4. GoOK'
    BY <1>1, <1>10, GotoType DEF HandleCancel, Handles, Pcs
  <2> QED BY <1>3, <1>10, <2>3, <2>4 DEF HandleCancel, Handles, gateVars
<1>11. CASE HandleInterruption(p)
  <2> DEFINE b == reset(node[p].procQueue)
             r == [node[p] EXCEPT !.procQueue = b]
             t == [node[p] EXCEPT !.running = FALSE]
  <2>1. r \in NodeType /\ t \in NodeType
    BY <1>2, <1>5 DEF NodeType
  <2>2. node' = [node EXCEPT ![p] = r] \/ node' = [node EXCEPT ![p] = t]
    BY <1>2, <1>11 DEF HandleInterruption, NodeType
  <2>3. node' \in [Node -> NodeType]
    BY <1>2, <2>1, <2>2
  <2>4. Goto(i, "body") \/ Goto(i, "join")
    BY <1>11 DEF HandleInterruption
  <2>5. GoOK'
    BY <1>1, <1>11, <2>4, GotoType DEF HandleInterruption, Handles, Pcs
  <2> QED BY <1>3, <1>11, <2>3, <2>5 DEF HandleInterruption, Handles, gateVars
<1>12. CASE TakeFrame(p)
  <2> DEFINE f == head(node[p].procQueue)
             a == get(node[p].procQueue)
             r == [node[p] EXCEPT !.procQueue = a]
             pc == IF p = 0 THEN "gate" ELSE "body"
  <2>1. f \in Frame /\ a \in Queue
    BY <1>2, <1>12, GetProperties DEF TakeFrame
  <2>2. r \in NodeType
    BY <1>2, <2>1 DEF NodeType
  <2>3. node' = [node EXCEPT ![p] = r]
    BY <1>2, <1>12 DEF TakeFrame, NodeType
  <2>4. node' \in [Node -> NodeType]
    BY <1>2, <2>2, <2>3
  <2>5. Take(l, pc, f) /\ pc \in Pcs \ {"pushBuffered"}
    BY <1>12 DEF TakeFrame, Pcs
  <2>6. GoOK'
    BY <1>1, <2>1, <2>5, TakeType
  <2> QED BY <1>3, <1>12, <2>4, <2>6 DEF TakeFrame, gateVars
<1>13. CASE p = 0 /\ Gate
  <2>1. GoOK'
    BY <1>1, <1>13, GotoType DEF Gate, Pcs
  <2> QED BY <1>2, <1>3, <1>13, <2>1 DEF Gate, gateVars
<1>14. CASE p = 0 /\ GiveBack
  <2> DEFINE f == go[l].frame
             a == IF Interruptible(f) THEN node[p].procQueue
                  ELSE requeue(node[p].procQueue, f)
             r == [node[p] EXCEPT !.procQueue = a]
  <2>1. f \in Frame
    BY <1>1, <1>4, <1>14 DEF GiveBack
  <2>2. a \in Queue
    BY <1>2, <2>1, RequeueProperties
  <2>3. r \in NodeType
    BY <1>2, <2>2 DEF NodeType
  <2>4. node' = [node EXCEPT ![p] = r]
    BY <1>2, <1>14 DEF GiveBack, NodeType
  <2>5. node' \in [Node -> NodeType]
    BY <1>2, <2>3, <2>4
  <2>6. GoOK'
    BY <1>1, <1>14, DoneType DEF GiveBack
  <2> QED BY <1>3, <1>14, <2>5, <2>6 DEF GiveBack, gateVars
<1> QED BY <1>6, <1>7, <1>8, <1>9, <1>10, <1>11, <1>12, <1>13, <1>14

\* ProcessFrame of the parallel pipeline, on one of its goroutines.
LEMMA FanOutStepType ==
  ASSUME TypeInv, NEW g \in Goroutines, FanOutStep(g)
  PROVE  TypeInv'
<1>1. GoOK /\ N \in Nat \ {0}
  BY ParallelAssumption DEF TypeInv, TypeOK, GoOK
<1>2. go[g] \in GoroutineType /\ (go[g].pc # "idle" => go[g].frame \in Frame)
  BY <1>1 DEF GoOK, HandOK
<1>3. CASE Arm(g)
  <2>1. counter' \in [Frame -> 0..N] /\ syncing' \in BOOLEAN
    <3>1. counter \in [Frame -> 0..N] /\ syncing \in BOOLEAN /\ N \in 0..N
      BY <1>1 DEF TypeInv, TypeOK
    <3>2. CASE isLifecycle(go[g].frame)
      BY <1>3, <3>1, <3>2 DEF Arm
    <3>3. CASE ~isLifecycle(go[g].frame)
      BY <1>3, <3>1, <3>3 DEF Arm
    <3> QED BY <3>2, <3>3
  <2>2. Goto(g, "pauseSystem") \/ Goto(g, "fanOut")
    BY <1>3 DEF Arm
  <2>3. GoOK'
    BY <1>1, <1>3, <2>2, GotoType DEF Arm, Pcs
  <2> QED BY <1>3, <2>1, <2>3 DEF Arm, TypeInv, TypeOK, GoOK, gateVars
<1>4. CASE PauseSystem(g)
  <2>1. GoOK'
    BY <1>1, <1>4, GotoType DEF PauseSystem, Pcs
  <2> QED BY <1>4, <2>1 DEF PauseSystem, TypeInv, TypeOK, GoOK, ppVars
<1>5. CASE PauseFrames(g)
  <2>1. GoOK'
    BY <1>1, <1>5, GotoType DEF PauseFrames, Pcs
  <2> QED BY <1>5, <2>1 DEF PauseFrames, TypeInv, TypeOK, GoOK, ppVars
<1>6. CASE FanOut(g)
  <2>1. go[g].next \in Node /\ go[g].next \in Branch /\ go[g].frame \in Frame
    BY <1>1, <1>2, <1>6 DEF FanOut, GoroutineType, Branch, Node
  <2>2. node' \in [Node -> NodeType]
    BY <1>6, <2>1, AcceptType DEF FanOut, TypeInv, TypeOK
  <2>3. CASE go[g].next = N
    <3>1. GoOK'
      BY <1>1, <1>6, <2>3, DoneType DEF FanOut
    <3> QED BY <1>6, <2>2, <3>1 DEF FanOut, TypeInv, TypeOK, GoOK, gateVars, ppVars
  <2>4. CASE go[g].next # N
    <3> DEFINE r == [go[g] EXCEPT !.next = go[g].next + 1]
    <3>1. go[g].next + 1 \in Branch
      BY <1>1, <2>1, <2>4 DEF Branch
    <3>2. /\ r \in GoroutineType
          /\ r.pc = go[g].pc /\ r.frame = go[g].frame /\ r.item = go[g].item
      BY <1>2, <3>1 DEF GoroutineType
    <3>3. go' = [go EXCEPT ![g] = r]
      BY <1>1, <1>6, <2>4 DEF FanOut, GoOK
    <3> HIDE DEF r
    <3>4. go' \in [Goroutines -> GoroutineType]
      BY <1>1, <3>2, <3>3 DEF GoOK
    <3>5. \A h \in Goroutines : go'[h] = IF h = g THEN r ELSE go[h]
      BY <1>1, <3>3 DEF GoOK
    <3>6. HandOK'
      BY <1>1, <3>2, <3>5 DEF HandOK, GoOK
    <3> QED BY <1>6, <2>2, <3>4, <3>6
            DEF FanOut, TypeInv, TypeOK, gateVars, ppVars
  <2> QED BY <2>3, <2>4
<1> QED BY <1>3, <1>4, <1>5, <1>6 DEF FanOutStep

\* A goroutine takes the first of the buffered frames.
LEMMA UnbufferType ==
  ASSUME GoOK, NEW g \in Goroutines, NEW x \in Frame, go[g].pc # "idle",
         go' = [go EXCEPT ![g].pc = "pushBuffered", ![g].item = x]
  PROVE  GoOK'
<1> DEFINE r == [go[g] EXCEPT !.pc = "pushBuffered", !.item = x]
<1>1. go[g] \in GoroutineType /\ go[g].frame \in Frame
  BY DEF GoOK, HandOK
<1>2. r \in GoroutineType /\ r.frame = go[g].frame /\ r.item = x
  BY <1>1 DEF GoroutineType, Pcs
<1>3. go' = [go EXCEPT ![g] = r]
  BY DEF GoOK
<1> HIDE DEF r
<1>4. go' \in [Goroutines -> GoroutineType]
  BY <1>2, <1>3 DEF GoOK
<1>5. \A h \in Goroutines : go'[h] = IF h = g THEN r ELSE go[h]
  BY <1>3 DEF GoOK
<1>6. HandOK'
  BY <1>1, <1>2, <1>5 DEF HandOK, GoOK
<1> QED BY <1>4, <1>6 DEF GoOK

\* A goroutine has pushed a buffered frame and looks for the next.
LEMMA RebufferType ==
  ASSUME GoOK, NEW g \in Goroutines, go[g].pc # "idle",
         go' = [go EXCEPT ![g].pc = "flush", ![g].item = NoFrame]
  PROVE  GoOK'
<1> DEFINE r == [go[g] EXCEPT !.pc = "flush", !.item = NoFrame]
<1>1. go[g] \in GoroutineType /\ go[g].frame \in Frame
  BY DEF GoOK, HandOK
<1>2. r \in GoroutineType /\ r.frame = go[g].frame /\ r.pc = "flush"
  BY <1>1 DEF GoroutineType, Pcs
<1>3. go' = [go EXCEPT ![g] = r]
  BY DEF GoOK
<1> HIDE DEF r
<1>4. go' \in [Goroutines -> GoroutineType]
  BY <1>2, <1>3 DEF GoOK
<1>5. \A h \in Goroutines : go'[h] = IF h = g THEN r ELSE go[h]
  BY <1>3 DEF GoOK
<1>6. HandOK'
  BY <1>1, <1>2, <1>5 DEF HandOK, GoOK
<1> QED BY <1>4, <1>6 DEF GoOK

\* sinkPush and emit, on the goroutine of a branch.
LEMMA SinkStepType ==
  ASSUME TypeInv, NEW g \in Goroutines, SinkStep(g)
  PROVE  TypeInv'
<1>1. GoOK /\ N \in Nat \ {0}
  BY ParallelAssumption DEF TypeInv, TypeOK, GoOK
<1>2. /\ go[g] \in GoroutineType
      /\ go[g].pc # "idle" => go[g].frame \in Frame
      /\ go[g].pc = "pushBuffered" => go[g].item \in Frame
  BY <1>1 DEF GoOK, HandOK
<1>3. buffered \in Seq(Frame) /\ out \in Seq(Frame) /\ seen \subseteq Frame
  BY DEF TypeInv, TypeOK
<1>4. CASE emit(g)
  <2>1. go[g].frame \in Frame
    BY <1>2, <1>4 DEF emit
  <2>2. seen' \subseteq Frame /\ buffered' \in Seq(Frame)
    BY <1>3, <1>4, <2>1 DEF emit
  <2>3. Done(g) \/ Goto(g, "push")
    BY <1>4 DEF emit
  <2>4. GoOK'
    BY <1>1, <1>4, <2>3, GotoType, DoneType DEF emit, Pcs
  <2> QED BY <1>4, <2>2, <2>4 DEF emit, TypeInv, TypeOK, GoOK, gateVars
<1>5. CASE Push(g)
  <2>1. out' \in Seq(Frame)
    BY <1>2, <1>3, <1>5 DEF Push
  <2>2. GoOK'
    BY <1>1, <1>5, DoneType DEF Push
  <2> QED BY <1>5, <2>1, <2>2 DEF Push, TypeInv, TypeOK, GoOK, gateVars, ppVars
<1>6. CASE sinkPush(g)
  <2> DEFINE f == go[g].frame
  <2>1. f \in Frame /\ counter \in [Frame -> 0..N] /\ Reported(f) \in 0..N
    BY <1>1, <1>2, <1>6 DEF sinkPush, Reported, TypeInv, TypeOK
  <2>2. counter' \in [Frame -> 0..N]
    BY <1>6, <2>1 DEF sinkPush
  <2>3. Done(g) \/ Goto(g, "synchronized") \/ Goto(g, "flush")
    BY <1>6 DEF sinkPush, afterReport
  <2>4. GoOK'
    BY <1>1, <1>6, <2>3, GotoType, DoneType DEF sinkPush, Pcs
  <2> QED BY <1>6, <2>2, <2>4 DEF sinkPush, TypeInv, TypeOK, GoOK, gateVars
<1>7. CASE flushBuffered(g)
  <2>1. CASE buffered = <<>>
    <3>1. Goto(g, "resumeSystem") \/ Goto(g, "synchronized")
      BY <1>7, <2>1 DEF flushBuffered, afterFlush
    <3>2. GoOK'
      BY <1>1, <1>7, <3>1, GotoType DEF flushBuffered, Pcs
    <3> QED BY <1>7, <2>1, <3>2 DEF flushBuffered, TypeInv, TypeOK, GoOK, gateVars
  <2>2. CASE buffered # <<>>
    <3>a. buffered \in Seq(Frame) /\ buffered' = Tail(buffered)
      BY <1>3, <1>7, <2>2 DEF flushBuffered
    <3>1. Head(buffered) \in Frame /\ buffered' \in Seq(Frame)
      BY <2>2, <3>a, HeadAndTail
    <3>2. GoOK'
      BY <1>1, <1>7, <2>2, <3>1, UnbufferType DEF flushBuffered
    <3> QED BY <1>7, <2>2, <3>1, <3>2
            DEF flushBuffered, TypeInv, TypeOK, GoOK, gateVars
  <2> QED BY <2>1, <2>2
<1>8. CASE PushBuffered(g)
  <2>1. out' \in Seq(Frame)
    BY <1>2, <1>3, <1>8 DEF PushBuffered
  <2>2. GoOK'
    BY <1>1, <1>8, RebufferType DEF PushBuffered
  <2> QED BY <1>8, <2>1, <2>2
          DEF PushBuffered, TypeInv, TypeOK, GoOK, gateVars, ppVars
<1>9. CASE emitSynchronized(g)
  <2>1. seen' \subseteq Frame
    BY <1>2, <1>3, <1>9 DEF emitSynchronized
  <2>2. \/ Goto(g, "flush") \/ Goto(g, "resumeSystem")
        \/ Goto(g, "pushSynchronized")
    BY <1>9 DEF emitSynchronized, afterSync
  <2>3. GoOK'
    BY <1>1, <1>9, <2>2, GotoType DEF emitSynchronized, Pcs
  <2> QED BY <1>9, <2>1, <2>3 DEF emitSynchronized, TypeInv, TypeOK, GoOK, gateVars
<1>10. CASE PushSynchronized(g)
  <2>1. out' \in Seq(Frame)
    BY <1>2, <1>3, <1>10 DEF PushSynchronized
  <2>2. Goto(g, "flush") \/ Goto(g, "resumeSystem")
    BY <1>10 DEF PushSynchronized, afterSync
  <2>3. GoOK'
    BY <1>1, <1>10, <2>2, GotoType DEF PushSynchronized, Pcs
  <2> QED BY <1>10, <2>1, <2>3
          DEF PushSynchronized, TypeInv, TypeOK, GoOK, gateVars, ppVars
<1>11. CASE ResumeSystem(g)
  <2>1. GoOK'
    BY <1>1, <1>11, GotoType DEF ResumeSystem, Pcs
  <2> QED BY <1>11, <2>1 DEF ResumeSystem, TypeInv, TypeOK, GoOK, ppVars
<1>12. CASE ResumeFrames(g)
  <2>1. GoOK'
    BY <1>1, <1>12, DoneType DEF ResumeFrames
  <2> QED BY <1>12, <2>1 DEF ResumeFrames, TypeInv, TypeOK, GoOK, ppVars
<1> QED BY <1>4, <1>5, <1>6, <1>7, <1>8, <1>9, <1>10, <1>11, <1>12 DEF SinkStep

\* The steps of a node's two goroutines touch no more than the node, the
\* goroutine and, in Join, the gate of the process goroutine.
NodeStep(p) ==
    \/ HandOn(p) \/ TakeSystem(p) \/ Join(p) \/ HandleStart(p)
    \/ HandleCancel(p) \/ HandleInterruption(p) \/ TakeFrame(p)
    \/ (p = 0 /\ (Gate \/ GiveBack))

\* What a node's own steps leave alone: the merge and the histories.
LEMMA NodeStepFrame ==
  ASSUME NEW p \in Node, NodeStep(p)
  PROVE  UNCHANGED <<unsent, heldSystem, ppVars, arrived, out>>
  BY DEF NodeStep, HandOn, TakeSystem, Join, HandleStart, HandleCancel,
         HandleInterruption, Handles, TakeFrame, Gate, GiveBack, gateVars

\* The kinds of step Next is made of.
LEMMA NextSteps ==
  ASSUME Next
  PROVE  \/ \E f \in Frame : QueueFrame(f)
         \/ \E b \in Branch : Raise(b)
         \/ \E b \in Branch : Consume(b)
         \/ \E p \in Node : NodeStep(p)
         \/ \E g \in Goroutines : FanOutStep(g) \/ SinkStep(g)
<1>1. CASE \E g \in Goroutines : Step(g)
  <2> PICK g \in Goroutines : Step(g)
    BY <1>1
  <2>1. g[1] \in Node
    BY DEF Goroutines
  <2> QED BY <2>1 DEF Step, InputStep, NodeStep
<1> QED BY <1>1 DEF Next

\* Every step of the parallel pipeline and its branches keeps the types.
LEMMA TypeNext == TypeInv /\ [Next]_vars => TypeInv'
<1> SUFFICES ASSUME TypeInv, [Next]_vars PROVE TypeInv'
  OBVIOUS
<1>1. GoOK /\ 0 \in Node /\ Branch \subseteq Node
  BY ParallelAssumption DEF TypeInv, TypeOK, GoOK, Node, Branch
<1>2. CASE UNCHANGED vars
  BY <1>2 DEF vars, gateVars, ppVars, TypeInv, TypeOK, HandOK
<1>3. ASSUME NEW f \in Frame, QueueFrame(f) PROVE TypeInv'
  <2>1. node' \in [Node -> NodeType]
    BY <1>1, <1>3, AcceptType DEF QueueFrame, TypeInv, TypeOK
  <2>2. unsent' \subseteq Frame /\ arrived' \in Seq(Frame)
    BY <1>3 DEF QueueFrame, TypeInv, TypeOK
  <2> QED BY <1>3, <2>1, <2>2
          DEF QueueFrame, TypeInv, TypeOK, HandOK, gateVars, ppVars
<1>4. ASSUME NEW b \in Branch, Raise(b) PROVE TypeInv'
  <2>1. PICK f \in Own[b] \cap unsent :
             Take(<<b, "task">>, "body", f) /\ unsent' = unsent \ {f}
    BY <1>4 DEF Raise
  <2>2. f \in Frame /\ unsent' \subseteq Frame
    BY <2>1 DEF TypeInv, TypeOK
  <2>3. <<b, "task">> \in Goroutines
    BY <1>1, LaneIn DEF Lane
  <2>4. GoOK'
    BY <1>1, <2>1, <2>2, <2>3, TakeType DEF Pcs
  <2> QED BY <1>4, <2>2, <2>4 DEF Raise, TypeInv, TypeOK, GoOK, gateVars, ppVars
<1>5. ASSUME NEW b \in Branch, Consume(b) PROVE TypeInv'
  <2>1. <<b, "process">> \in Goroutines
    BY <1>1, LaneIn DEF Lane
  <2>2. GoOK'
    BY <1>1, <1>5, <2>1, DoneType DEF Consume
  <2> QED BY <1>5, <2>2 DEF Consume, TypeInv, TypeOK, GoOK, gateVars, ppVars
<1>6. ASSUME NEW p \in Node, NodeStep(p) PROVE TypeInv'
  <2>1. GoOK' /\ node' \in [Node -> NodeType] /\ heldFrames' \in BOOLEAN
    BY <1>6, NodeStepType DEF NodeStep
  <2> QED BY <1>6, <2>1, NodeStepFrame DEF TypeInv, TypeOK, GoOK, ppVars
<1> QED BY <1>2, <1>3, <1>4, <1>5, <1>6, NextSteps, FanOutStepType, SinkStepType

\* The parallel pipeline is type correct, and no goroutine pushes nil.
THEOREM TypeCorrect == Spec => []TypeOK
<1>1. TypeInv => TypeOK
  BY DEF TypeInv
<1> QED BY <1>1, TypeInit, TypeNext, PTL DEF Spec

(***************************************************************************)
(* A frame leaves at most once.  That the frames that have left differ is  *)
(* not inductive: a frame may also be on its way, in the buffer or in the  *)
(* hands of a goroutine between the critical section that put it in seen   *)
(* and the push.  OnceInv says that each frame of seen is in at most one   *)
(* of these places, once.                                                  *)
(***************************************************************************)
Carries(g) == go[g].pc \in {"push", "pushSynchronized", "pushBuffered"}
Carried(g) == IF go[g].pc = "pushBuffered" THEN go[g].item ELSE go[g].frame

AllSeen ==
    /\ \A i \in 1..Len(out) : out[i] \in seen
    /\ \A i \in 1..Len(buffered) : buffered[i] \in seen
    /\ \A g \in Goroutines : Carries(g) => Carried(g) \in seen

BufferedOnce ==
    /\ \A i, j \in 1..Len(buffered) : buffered[i] = buffered[j] => i = j
    /\ \A i \in 1..Len(buffered), j \in 1..Len(out) : buffered[i] # out[j]

CarriedOnce ==
    \A g \in Goroutines : Carries(g) =>
        /\ \A i \in 1..Len(out) : Carried(g) # out[i]
        /\ \A i \in 1..Len(buffered) : Carried(g) # buffered[i]
        /\ \A h \in Goroutines : (Carries(h) /\ Carried(h) = Carried(g)) => h = g

OnceInv == AllSeen /\ EscapesOnce /\ BufferedOnce /\ CarriedOnce

\* Goroutine g alone takes a step.
OnlyMoves(g) == \A h \in Goroutines : h # g => go'[h] = go[h]

\* Moving on is a step of one goroutine.
LEMMA GotoMoves ==
  ASSUME GoOK, NEW g \in Goroutines, NEW pc, Goto(g, pc)
  PROVE  OnlyMoves(g) /\ go'[g].pc = pc /\ go'[g].frame = go[g].frame
<1>1. go[g] \in GoroutineType
  BY DEF GoOK
<1>2. go'[g] = [go[g] EXCEPT !.pc = pc] /\ OnlyMoves(g)
  BY DEF Goto, GoOK, OnlyMoves
<1> QED BY <1>1, <1>2 DEF GoroutineType

\* Going idle is a step of one goroutine.
LEMMA DoneMoves ==
  ASSUME GoOK, NEW g \in Goroutines, Done(g)
  PROVE  OnlyMoves(g) /\ go'[g].pc = "idle"
  BY DEF Done, GoOK, OnlyMoves, Idle

\* Taking up a frame is a step of one goroutine.
LEMMA TakeMoves ==
  ASSUME GoOK, NEW g \in Goroutines, NEW pc, NEW f, Take(g, pc, f)
  PROVE  OnlyMoves(g) /\ go'[g].pc = pc
  BY DEF Take, GoOK, OnlyMoves, Idle

\* A step that pushes nothing out, buffers nothing and hands the goroutine
\* nothing to push.
LEMMA QuietStep ==
  ASSUME OnceInv, NEW g \in Goroutines, OnlyMoves(g), Carries(g)' = FALSE,
         seen \subseteq seen', out' = out, buffered' = buffered
  PROVE  OnceInv'
<1>1. \A h \in Goroutines : Carries(h)' => /\ Carries(h) /\ h # g
                                           /\ Carried(h)' = Carried(h)
  BY DEF OnlyMoves, Carries, Carried
<1>2. AllSeen'
  BY <1>1 DEF OnceInv, AllSeen
<1>3. EscapesOnce' /\ BufferedOnce'
  BY DEF OnceInv, EscapesOnce, BufferedOnce
<1>4. CarriedOnce'
  BY <1>1 DEF OnceInv, CarriedOnce
<1> QED BY <1>2, <1>3, <1>4 DEF OnceInv

\* A frame that was not in seen is put into the hands of a goroutine.
LEMMA CarryStep ==
  ASSUME OnceInv, NEW g \in Goroutines, OnlyMoves(g), NEW x,
         Carries(g)', Carried(g)' = x,
         x \notin seen, seen' = seen \cup {x}, out' = out, buffered' = buffered
  PROVE  OnceInv'
<1>1. \A h \in Goroutines : (h # g /\ Carries(h)') =>
          Carries(h) /\ Carried(h)' = Carried(h) /\ Carried(h) \in seen
  BY DEF OnlyMoves, Carries, Carried, OnceInv, AllSeen
<1>2. AllSeen'
  BY <1>1 DEF OnceInv, AllSeen
<1>3. EscapesOnce' /\ BufferedOnce'
  BY DEF OnceInv, EscapesOnce, BufferedOnce
<1>4. CarriedOnce'
  BY <1>1 DEF OnceInv, CarriedOnce, AllSeen
<1> QED BY <1>2, <1>3, <1>4 DEF OnceInv

\* A frame that was not in seen is buffered.
LEMMA BufferStep ==
  ASSUME OnceInv, NEW g \in Goroutines, OnlyMoves(g), Carries(g)' = FALSE,
         NEW x \in Frame, buffered \in Seq(Frame), x \notin seen,
         seen' = seen \cup {x}, out' = out, buffered' = Append(buffered, x)
  PROVE  OnceInv'
<1>1. \A h \in Goroutines : Carries(h)' => /\ Carries(h) /\ Carried(h)' = Carried(h)
                                           /\ Carried(h) \in seen
  BY DEF OnlyMoves, Carries, Carried, OnceInv, AllSeen
<1>2. /\ Len(buffered') = Len(buffered) + 1 /\ Len(buffered) \in Nat
      /\ \A i \in 1..Len(buffered') :
             \/ i \in 1..Len(buffered) /\ buffered'[i] = buffered[i]
             \/ i = Len(buffered) + 1 /\ buffered'[i] = x
  OBVIOUS
<1>3. AllSeen'
  BY <1>1, <1>2 DEF OnceInv, AllSeen
<1>4. EscapesOnce'
  BY DEF OnceInv, EscapesOnce
<1>5. BufferedOnce'
  BY <1>2 DEF OnceInv, BufferedOnce, AllSeen
<1>6. CarriedOnce'
  BY <1>1, <1>2 DEF OnceInv, CarriedOnce
<1> QED BY <1>3, <1>4, <1>5, <1>6 DEF OnceInv

\* A goroutine takes the first buffered frame into its hands.
LEMMA UnbufferStep ==
  ASSUME OnceInv, NEW g \in Goroutines, OnlyMoves(g),
         Carries(g)', Carried(g)' = Head(buffered),
         buffered \in Seq(Frame), buffered # <<>>,
         seen' = seen, out' = out, buffered' = Tail(buffered)
  PROVE  OnceInv'
<1>1. \A h \in Goroutines : (h # g /\ Carries(h)') =>
          Carries(h) /\ Carried(h)' = Carried(h)
  BY DEF OnlyMoves, Carries, Carried
<1>2. /\ Len(buffered) \in Nat \ {0} /\ Len(buffered') = Len(buffered) - 1
      /\ Head(buffered) = buffered[1]
      /\ \A i \in 1..Len(buffered') : buffered'[i] = buffered[i + 1]
  OBVIOUS
<1>3. \A i \in 1..Len(buffered') : i + 1 \in 1..Len(buffered) /\ i + 1 # 1
  BY <1>2
<1>4. 1 \in 1..Len(buffered)
  BY <1>2
<1>5. AllSeen'
  BY <1>1, <1>2, <1>3, <1>4 DEF OnceInv, AllSeen
<1>6. EscapesOnce'
  BY DEF OnceInv, EscapesOnce
<1>7. BufferedOnce'
  <2>1. \A i, j \in 1..Len(buffered') : buffered'[i] = buffered'[j] => i = j
    <3> SUFFICES ASSUME NEW i \in 1..Len(buffered'), NEW j \in 1..Len(buffered'),
                        buffered'[i] = buffered'[j]
                 PROVE  i = j
      OBVIOUS
    <3>1. i + 1 = j + 1
      BY <1>2, <1>3 DEF OnceInv, BufferedOnce
    <3> QED BY <1>2, <3>1
  <2>2. \A i \in 1..Len(buffered'), j \in 1..Len(out) : buffered'[i] # out[j]
    BY <1>2, <1>3 DEF OnceInv, BufferedOnce
  <2> QED BY <2>1, <2>2 DEF BufferedOnce
<1>8. CarriedOnce'
  <2>1. \A i \in 1..Len(out') : Carried(g)' # out'[i]
    BY <1>2, <1>4 DEF OnceInv, BufferedOnce
  <2>2. \A i \in 1..Len(buffered') : Carried(g)' # buffered'[i]
    BY <1>2, <1>3, <1>4 DEF OnceInv, BufferedOnce
  <2>3. ASSUME NEW h \in Goroutines, h # g, Carries(h)'
        PROVE  /\ \A i \in 1..Len(out') : Carried(h)' # out'[i]
               /\ \A i \in 1..Len(buffered') : Carried(h)' # buffered'[i]
               /\ Carried(h)' # Carried(g)'
               /\ \A k \in Goroutines :
                    (k # g /\ Carries(k)' /\ Carried(k)' = Carried(h)') => k = h
    BY <1>1, <1>2, <1>3, <1>4, <2>3 DEF OnceInv, CarriedOnce
  <2> QED BY <2>1, <2>2, <2>3 DEF CarriedOnce
<1> QED BY <1>5, <1>6, <1>7, <1>8 DEF OnceInv

\* A goroutine pushes out the frame it carries.
LEMMA EscapeStep ==
  ASSUME OnceInv, NEW g \in Goroutines, OnlyMoves(g), Carries(g), Carries(g)' = FALSE,
         Carried(g) \in Frame, out \in Seq(Frame),
         seen' = seen, buffered' = buffered, out' = Append(out, Carried(g))
  PROVE  OnceInv'
<1>1. \A h \in Goroutines : Carries(h)' => /\ Carries(h) /\ Carried(h)' = Carried(h)
                                           /\ h # g
  BY DEF OnlyMoves, Carries, Carried
<1>2. /\ Len(out') = Len(out) + 1 /\ Len(out) \in Nat
      /\ \A i \in 1..Len(out') :
             \/ i \in 1..Len(out) /\ out'[i] = out[i]
             \/ i = Len(out) + 1 /\ out'[i] = Carried(g)
  OBVIOUS
<1>3. AllSeen'
  BY <1>1, <1>2 DEF OnceInv, AllSeen
<1>4. EscapesOnce'
  BY <1>2 DEF OnceInv, EscapesOnce, CarriedOnce
<1>5. BufferedOnce'
  BY <1>2 DEF OnceInv, BufferedOnce, CarriedOnce
<1>6. CarriedOnce'
  BY <1>1, <1>2 DEF OnceInv, CarriedOnce
<1> QED BY <1>3, <1>4, <1>5, <1>6 DEF OnceInv

\* Nothing has left, and no goroutine runs, in a new parallel pipeline.
LEMMA OnceInit == Init => OnceInv
<1> SUFFICES ASSUME Init PROVE OnceInv
  OBVIOUS
<1>1. Len(out) = 0 /\ Len(buffered) = 0
  BY DEF Init
<1>2. \A g \in Goroutines : ~Carries(g)
  BY DEF Init, Carries, Idle
<1> QED BY <1>1, <1>2
        DEF OnceInv, AllSeen, EscapesOnce, BufferedOnce, CarriedOnce

\* A node's own steps push nothing out.
LEMMA NodeOnce ==
  ASSUME TypeInv, OnceInv, NEW p \in Node, NodeStep(p)
  PROVE  OnceInv'
<1> DEFINE i == <<p, "input">>
           l == <<p, "process">>
<1>1. GoOK /\ i \in Goroutines /\ l \in Goroutines
  BY LaneIn DEF TypeInv, TypeOK, GoOK, Lane
<1>2. out' = out /\ buffered' = buffered /\ seen \subseteq seen'
  BY NodeStepFrame DEF ppVars
<1>3. CASE HandOn(p)
  <2>1. go' = go
    BY <1>3 DEF HandOn
  <2>2. seen' = seen
    BY NodeStepFrame DEF ppVars
  <2> QED BY <1>2, <2>1, <2>2 DEF OnceInv, AllSeen, EscapesOnce, BufferedOnce,
                                  CarriedOnce, Carries, Carried
<1>4. CASE TakeSystem(p)
  <2>1. PICK f : Take(i, "handle", f)
    BY <1>4 DEF TakeSystem
  <2>2. OnlyMoves(i) /\ go'[i].pc = "handle"
    BY <1>1, <2>1, TakeMoves
  <2>3. Carries(i)' = FALSE
    BY <2>2 DEF Carries
  <2> QED BY <1>1, <1>2, <2>2, <2>3, QuietStep
<1>5. CASE Join(p) \/ HandleStart(p) \/ HandleCancel(p) \/ HandleInterruption(p)
  <2>1. Goto(i, "body") \/ Goto(i, "join")
    BY <1>5 DEF Join, HandleStart, HandleCancel, HandleInterruption
  <2>2. OnlyMoves(i) /\ go'[i].pc \in {"body", "join"}
    BY <1>1, <2>1, GotoMoves
  <2>3. Carries(i)' = FALSE
    BY <2>2 DEF Carries
  <2> QED BY <1>1, <1>2, <2>2, <2>3, QuietStep
<1>6. CASE TakeFrame(p)
  <2>1. PICK f : Take(l, IF p = 0 THEN "gate" ELSE "body", f)
    BY <1>6 DEF TakeFrame
  <2>2. OnlyMoves(l) /\ go'[l].pc \in {"gate", "body"}
    BY <1>1, <2>1, TakeMoves
  <2>3. Carries(l)' = FALSE
    BY <2>2 DEF Carries
  <2> QED BY <1>1, <1>2, <2>2, <2>3, QuietStep
<1>7. CASE p = 0 /\ Gate
  <2>1. OnlyMoves(l) /\ go'[l].pc = "body"
    BY <1>1, <1>7, GotoMoves DEF Gate
  <2>2. Carries(l)' = FALSE
    BY <2>1 DEF Carries
  <2> QED BY <1>1, <1>2, <2>1, <2>2, QuietStep
<1>8. CASE p = 0 /\ GiveBack
  <2>1. OnlyMoves(l) /\ go'[l].pc = "idle"
    BY <1>1, <1>8, DoneMoves DEF GiveBack
  <2>2. Carries(l)' = FALSE
    BY <2>1 DEF Carries
  <2> QED BY <1>1, <1>2, <2>1, <2>2, QuietStep
<1> QED BY <1>3, <1>4, <1>5, <1>6, <1>7, <1>8 DEF NodeStep

\* ProcessFrame of the parallel pipeline pushes nothing out.
LEMMA FanOutOnce ==
  ASSUME TypeInv, OnceInv, NEW g \in Goroutines, FanOutStep(g)
  PROVE  OnceInv'
<1>1. GoOK
  BY DEF TypeInv, TypeOK, GoOK
<1>2. out' = out /\ buffered' = buffered /\ seen \subseteq seen'
  BY DEF FanOutStep, Arm, PauseSystem, PauseFrames, FanOut, ppVars
<1>3. CASE Arm(g) \/ PauseSystem(g) \/ PauseFrames(g)
  <2>1. Goto(g, "pauseSystem") \/ Goto(g, "pauseFrames") \/ Goto(g, "fanOut")
    BY <1>3 DEF Arm, PauseSystem, PauseFrames
  <2>2. OnlyMoves(g) /\ go'[g].pc \in {"pauseSystem", "pauseFrames", "fanOut"}
    BY <1>1, <2>1, GotoMoves
  <2>3. Carries(g)' = FALSE
    BY <2>2 DEF Carries
  <2> QED BY <1>2, <2>2, <2>3, QuietStep
<1>4. CASE FanOut(g)
  <2>1. CASE go[g].next = N
    <3>1. OnlyMoves(g) /\ go'[g].pc = "idle"
      BY <1>1, <1>4, <2>1, DoneMoves DEF FanOut
    <3>2. Carries(g)' = FALSE
      BY <3>1 DEF Carries
    <3> QED BY <1>2, <3>1, <3>2, QuietStep
  <2>2. CASE go[g].next # N
    <3>1. go[g] \in GoroutineType /\ go' = [go EXCEPT ![g].next = @ + 1]
      BY <1>1, <1>4, <2>2 DEF FanOut, GoOK
    <3>2. OnlyMoves(g) /\ go'[g].pc = "fanOut"
      BY <1>1, <1>4, <3>1 DEF FanOut, OnlyMoves, GoOK, GoroutineType
    <3>3. Carries(g)' = FALSE
      BY <3>2 DEF Carries
    <3> QED BY <1>2, <3>2, <3>3, QuietStep
  <2> QED BY <2>1, <2>2
<1> QED BY <1>3, <1>4 DEF FanOutStep

\* emit and emitSynchronized let a frame pass into the buffer or the hands of
\* a goroutine only if it was not in seen; every push takes it from there.
LEMMA SinkOnce ==
  ASSUME TypeInv, OnceInv, NEW g \in Goroutines, SinkStep(g)
  PROVE  OnceInv'
<1>1. GoOK
  BY DEF TypeInv, TypeOK, GoOK
<1>2. buffered \in Seq(Frame) /\ out \in Seq(Frame)
  BY DEF TypeInv, TypeOK
<1>3. /\ go[g] \in GoroutineType
      /\ go[g].pc # "idle" => go[g].frame \in Frame
      /\ go[g].pc = "pushBuffered" => go[g].item \in Frame
  BY <1>1 DEF GoOK, HandOK
<1>4. CASE emit(g)
  <2> DEFINE x == go[g].frame
  <2>1. x \in Frame /\ seen' = seen \cup {x} /\ out' = out
    BY <1>3, <1>4 DEF emit
  <2>2. CASE x \in seen
    <3>1. OnlyMoves(g) /\ go'[g].pc = "idle" /\ buffered' = buffered
      BY <1>1, <1>4, <2>2, DoneMoves DEF emit
    <3>2. Carries(g)' = FALSE
      BY <3>1 DEF Carries
    <3> QED BY <2>1, <3>1, <3>2, QuietStep
  <2>3. CASE x \notin seen /\ syncing
    <3>1. OnlyMoves(g) /\ go'[g].pc = "idle" /\ buffered' = Append(buffered, x)
      BY <1>1, <1>4, <2>3, DoneMoves DEF emit
    <3>2. Carries(g)' = FALSE
      BY <3>1 DEF Carries
    <3> QED BY <1>2, <2>1, <2>3, <3>1, <3>2, BufferStep
  <2>4. CASE x \notin seen /\ ~syncing
    <3>1. /\ OnlyMoves(g) /\ go'[g].pc = "push" /\ go'[g].frame = x
          /\ buffered' = buffered
      BY <1>1, <1>4, <2>4, GotoMoves DEF emit
    <3>2. Carries(g)' /\ Carried(g)' = x
      BY <3>1 DEF Carries, Carried
    <3> QED BY <2>1, <2>4, <3>1, <3>2, CarryStep
  <2> QED BY <2>2, <2>3, <2>4
<1>5. CASE Push(g)
  <2>1. OnlyMoves(g) /\ go'[g].pc = "idle"
    BY <1>1, <1>5, DoneMoves DEF Push
  <2>2. Carries(g) /\ Carried(g) = go[g].frame /\ Carries(g)' = FALSE
    BY <1>5, <2>1 DEF Push, Carries, Carried
  <2>3. seen' = seen /\ buffered' = buffered /\ out' = Append(out, Carried(g))
    BY <1>5, <2>2 DEF Push, ppVars
  <2>4. Carried(g) \in Frame
    BY <1>3, <1>5, <2>2 DEF Push
  <2> QED BY <1>2, <2>1, <2>2, <2>3, <2>4, EscapeStep
<1>6. CASE sinkPush(g)
  <2>1. Done(g) \/ Goto(g, "synchronized") \/ Goto(g, "flush")
    BY <1>6 DEF sinkPush, afterReport
  <2>2. OnlyMoves(g) /\ go'[g].pc \in {"idle", "synchronized", "flush"}
    BY <1>1, <2>1, DoneMoves, GotoMoves
  <2>3. Carries(g)' = FALSE /\ seen' = seen /\ out' = out /\ buffered' = buffered
    BY <1>6, <2>2 DEF Carries, sinkPush
  <2> QED BY <2>2, <2>3, QuietStep
<1>7. CASE flushBuffered(g) /\ buffered = <<>>
  <2>1. Goto(g, "resumeSystem") \/ Goto(g, "synchronized")
    BY <1>7 DEF flushBuffered, afterFlush
  <2>2. OnlyMoves(g) /\ go'[g].pc \in {"resumeSystem", "synchronized"}
    BY <1>1, <2>1, GotoMoves
  <2>3. Carries(g)' = FALSE /\ seen' = seen /\ out' = out /\ buffered' = buffered
    BY <1>7, <2>2 DEF Carries, flushBuffered
  <2> QED BY <2>2, <2>3, QuietStep
<1>8. CASE flushBuffered(g) /\ buffered # <<>>
  <2>1. go' = [go EXCEPT ![g].pc = "pushBuffered", ![g].item = Head(buffered)]
    BY <1>8 DEF flushBuffered
  <2>2. /\ OnlyMoves(g) /\ go'[g].pc = "pushBuffered"
        /\ go'[g].item = Head(buffered)
    BY <1>1, <1>3, <2>1 DEF OnlyMoves, GoOK, GoroutineType
  <2>3. Carries(g)' /\ Carried(g)' = Head(buffered)
    BY <2>2 DEF Carries, Carried
  <2>4. seen' = seen /\ out' = out /\ buffered' = Tail(buffered)
    BY <1>8 DEF flushBuffered
  <2> QED BY <1>2, <1>8, <2>2, <2>3, <2>4, UnbufferStep
<1>9. CASE PushBuffered(g)
  <2>1. OnlyMoves(g) /\ go'[g].pc = "flush"
    BY <1>1, <1>3, <1>9 DEF PushBuffered, OnlyMoves, GoOK, GoroutineType
  <2>2. Carries(g) /\ Carried(g) = go[g].item /\ Carries(g)' = FALSE
    BY <1>9, <2>1 DEF PushBuffered, Carries, Carried
  <2>3. seen' = seen /\ buffered' = buffered /\ out' = Append(out, Carried(g))
    BY <1>9, <2>2 DEF PushBuffered, ppVars
  <2>4. Carried(g) \in Frame
    BY <1>3, <1>9, <2>2 DEF PushBuffered
  <2> QED BY <1>2, <2>1, <2>2, <2>3, <2>4, EscapeStep
<1>10. CASE emitSynchronized(g)
  <2> DEFINE x == go[g].frame
  <2>1. seen' = seen \cup {x} /\ out' = out /\ buffered' = buffered
    BY <1>10 DEF emitSynchronized
  <2>2. CASE x \in seen
    <3>1. Goto(g, "flush") \/ Goto(g, "resumeSystem")
      BY <1>10, <2>2 DEF emitSynchronized, afterSync
    <3>2. OnlyMoves(g) /\ go'[g].pc \in {"flush", "resumeSystem"}
      BY <1>1, <3>1, GotoMoves
    <3>3. Carries(g)' = FALSE
      BY <3>2 DEF Carries
    <3> QED BY <2>1, <3>2, <3>3, QuietStep
  <2>3. CASE x \notin seen
    <3>1. Goto(g, "pushSynchronized")
      BY <1>10, <2>3 DEF emitSynchronized
    <3>2. OnlyMoves(g) /\ go'[g].pc = "pushSynchronized" /\ go'[g].frame = x
      BY <1>1, <3>1, GotoMoves
    <3>3. Carries(g)' /\ Carried(g)' = x
      BY <3>2 DEF Carries, Carried
    <3> QED BY <2>1, <2>3, <3>2, <3>3, CarryStep
  <2> QED BY <2>2, <2>3
<1>11. CASE PushSynchronized(g)
  <2>1. Goto(g, "flush") \/ Goto(g, "resumeSystem")
    BY <1>11 DEF PushSynchronized, afterSync
  <2>2. OnlyMoves(g) /\ go'[g].pc \in {"flush", "resumeSystem"}
    BY <1>1, <2>1, GotoMoves
  <2>3. Carries(g) /\ Carried(g) = go[g].frame /\ Carries(g)' = FALSE
    BY <1>11, <2>2 DEF PushSynchronized, Carries, Carried
  <2>4. seen' = seen /\ buffered' = buffered /\ out' = Append(out, Carried(g))
    BY <1>11, <2>3 DEF PushSynchronized, ppVars
  <2>5. Carried(g) \in Frame
    BY <1>3, <1>11, <2>3 DEF PushSynchronized
  <2> QED BY <1>2, <2>2, <2>3, <2>4, <2>5, EscapeStep
<1>12. CASE ResumeSystem(g)
  <2>1. OnlyMoves(g) /\ go'[g].pc = "resumeFrames"
    BY <1>1, <1>12, GotoMoves DEF ResumeSystem
  <2>2. Carries(g)' = FALSE /\ seen' = seen /\ out' = out /\ buffered' = buffered
    BY <1>12, <2>1 DEF Carries, ResumeSystem, ppVars
  <2> QED BY <2>1, <2>2, QuietStep
<1>13. CASE ResumeFrames(g)
  <2>1. OnlyMoves(g) /\ go'[g].pc = "idle"
    BY <1>1, <1>13, DoneMoves DEF ResumeFrames
  <2>2. Carries(g)' = FALSE /\ seen' = seen /\ out' = out /\ buffered' = buffered
    BY <1>13, <2>1 DEF Carries, ResumeFrames, ppVars
  <2> QED BY <2>1, <2>2, QuietStep
<1> QED BY <1>4, <1>5, <1>6, <1>7, <1>8, <1>9, <1>10, <1>11, <1>12, <1>13
        DEF SinkStep

\* Every step keeps each frame in one place.
LEMMA OnceNext == TypeInv /\ OnceInv /\ [Next]_vars => OnceInv'
<1> SUFFICES ASSUME TypeInv, OnceInv, [Next]_vars PROVE OnceInv'
  OBVIOUS
<1>1. GoOK /\ Branch \subseteq Node
  BY ParallelAssumption DEF TypeInv, TypeOK, GoOK, Node, Branch
<1>2. CASE UNCHANGED <<ppVars, go, out>>
  BY <1>2 DEF ppVars, OnceInv, AllSeen, EscapesOnce, BufferedOnce, CarriedOnce,
              Carries, Carried
<1>3. UNCHANGED vars => UNCHANGED <<ppVars, go, out>>
  BY DEF vars
<1>4. ASSUME NEW f \in Frame, QueueFrame(f) PROVE UNCHANGED <<ppVars, go, out>>
  BY <1>4 DEF QueueFrame
<1>5. ASSUME NEW b \in Branch, Raise(b) PROVE OnceInv'
  <2> DEFINE g == <<b, "task">>
  <2>1. g \in Goroutines
    BY <1>1, LaneIn DEF Lane
  <2>2. PICK f : Take(g, "body", f)
    BY <1>5 DEF Raise
  <2>3. OnlyMoves(g) /\ go'[g].pc = "body"
    BY <1>1, <2>1, <2>2, TakeMoves
  <2>4. Carries(g)' = FALSE /\ seen' = seen /\ out' = out /\ buffered' = buffered
    BY <1>5, <2>3 DEF Carries, Raise, ppVars
  <2> QED BY <2>1, <2>3, <2>4, QuietStep
<1>6. ASSUME NEW b \in Branch, Consume(b) PROVE OnceInv'
  <2> DEFINE g == <<b, "process">>
  <2>1. g \in Goroutines
    BY <1>1, LaneIn DEF Lane
  <2>2. OnlyMoves(g) /\ go'[g].pc = "idle"
    BY <1>1, <1>6, <2>1, DoneMoves DEF Consume
  <2>3. Carries(g)' = FALSE /\ seen' = seen /\ out' = out /\ buffered' = buffered
    BY <1>6, <2>2 DEF Carries, Consume, ppVars
  <2> QED BY <2>1, <2>2, <2>3, QuietStep
<1> QED BY <1>2, <1>3, <1>4, <1>5, <1>6, NextSteps, NodeOnce, FanOutOnce, SinkOnce

\* Whatever the branches forward and push of their own, and however their
\* goroutines and the releases of lifecycle frames interleave, a frame leaves
\* the parallel pipeline at most once (emit, emitSynchronized, flushBuffered).
THEOREM EscapesOnceHolds == Spec => []EscapesOnce
<1>1. OnceInv => EscapesOnce
  BY DEF OnceInv
<1> QED BY <1>1, TypeInit, TypeNext, OnceInit, OnceNext, PTL DEF Spec

-----------------------------------------------------------------------------
(***************************************************************************)
(* The StartFrame leads.  Until a frame has left, the only frame that has  *)
(* got past the parallel pipeline's own input goroutine is one StartFrame  *)
(* f: the gate for system frames is closed behind it (Front).  The         *)
(* branches hold nothing but f and frames of their own, which syncing      *)
(* sends to the buffer (Side), and f gets to each of them once (Reach).    *)
(* counter[f] is the number of branches that have still to report it, so   *)
(* only the last one releases it and finds it not seen (Count).            *)
(***************************************************************************)
\* No branch pushes a lifecycle frame by itself: one that did would be released
\* at once, having no counter (sinkPush).
OwnPlain == \A b \in Branch : \A f \in Own[b] : ~isLifecycle(f)

In(p) == go[<<p, "input">>]

Armed == node[0].started /\ In(0).pc # "body"
Fresh(b) == ~node[b].started /\ isEmpty(node[b].inputQueue) /\ In(b).pc = "idle"
Unreported == {b \in Branch : ~node[b].started \/ In(b).pc = "body"}
Last(b) == In(b).pc \in {"synchronized", "pushSynchronized"}

Front(f) ==
    /\ go[<<0, "process">>].pc = "idle" /\ go[<<0, "task">>].pc = "idle"
    /\ isEmpty(node[0].procQueue)
    /\ In(0).pc \in {"idle", "handle", "body", "pauseSystem", "pauseFrames", "fanOut"}
    /\ In(0).pc # "idle" => In(0).frame = f /\ isStartFrame(f)
    /\ In(0).pc = "handle" => ~node[0].started
    /\ In(0).pc \in {"body", "pauseSystem", "pauseFrames", "fanOut"} => node[0].started
    /\ (node[0].started /\ In(0).pc \in {"idle", "pauseFrames", "fanOut"}) => heldSystem

Reach ==
    /\ (~Armed \/ In(0).pc \in {"pauseSystem", "pauseFrames"}) => \A b \in Branch : Fresh(b)
    /\ In(0).pc = "fanOut" => \A b \in Branch : b >= In(0).next => Fresh(b)

Side(b, f) ==
    /\ go[<<b, "process">>].pc = "idle" /\ isEmpty(node[b].procQueue)
    /\ node[b].inputQueue.system = <<>> /\ node[b].inputQueue.other = <<>>
    /\ node[b].inputQueue.start # <<>> =>
           node[b].inputQueue.start = <<f>> /\ isStartFrame(f) /\ ~node[b].started /\ In(b).pc = "idle"
    /\ In(b).pc \in {"idle", "handle", "body", "synchronized", "pushSynchronized"}
    /\ In(b).pc # "idle" => In(b).frame = f /\ isStartFrame(f)
    /\ In(b).pc = "handle" => ~node[b].started
    /\ (In(b).pc = "body" \/ Last(b)) => node[b].started
    /\ go[<<b, "task">>].pc \in {"idle", "body"}
    /\ go[<<b, "task">>].pc # "idle" => node[b].started /\ ~isLifecycle(go[<<b, "task">>].frame)

Count(f) ==
    /\ Armed => syncing /\ f \in Frame /\ counter[f] = Cardinality(Unreported)
    /\ \A b \in Branch : Last(b) => Unreported = {}
    /\ \A b, x \in Branch : Last(b) /\ Last(x) => b = x
    /\ \A h \in seen : isStartFrame(h) => \E b \in Branch : In(b).pc = "pushSynchronized"

Early(f) == Front(f) /\ Reach /\ Count(f) /\ \A b \in Branch : Side(b, f)

LeadInv == /\ \A p \in Node : OnlyStarts(node[p].inputQueue)
           /\ out = <<>> => \E f \in Frame \cup {NoFrame} : Early(f)
           /\ StartLeads

\* What the parts of a node and of a goroutine are.
LEMMA Parts ==
  ASSUME TypeInv
  PROVE  /\ 0 \in Node /\ Branch \subseteq Node /\ 0 \notin Branch /\ N \in Nat \ {0}
         /\ \A p \in Node, l \in Lane : <<p, l>> \in Goroutines
         /\ \A p \in Node : /\ node[p] \in NodeType /\ node[p].inputQueue \in Queue
                            /\ node[p].procQueue \in Queue /\ In(p) \in GoroutineType
         /\ \A g \in Goroutines : go[g] \in GoroutineType /\ (go[g].pc # "idle" => go[g].frame \in Frame)
         /\ GoOK
<1>1. N \in Nat \ {0}
  BY ParallelAssumption
<1>2. 0 \in Node /\ Branch \subseteq Node /\ 0 \notin Branch
  BY <1>1 DEF Node, Branch
<1>3. \A p \in Node, l \in Lane : <<p, l>> \in Goroutines
  BY LaneIn
<1>4. \A g \in Goroutines : go[g] \in GoroutineType /\ (go[g].pc # "idle" => go[g].frame \in Frame)
  BY DEF TypeInv, TypeOK, HandOK
<1>5. \A p \in Node : /\ node[p] \in NodeType /\ node[p].inputQueue \in Queue
                      /\ node[p].procQueue \in Queue /\ In(p) \in GoroutineType
  BY <1>3, <1>4 DEF TypeInv, TypeOK, NodeType, In, Lane
<1> QED BY <1>1, <1>2, <1>3, <1>4, <1>5 DEF TypeInv, TypeOK, GoOK

\* The set that a counter counts is finite, and one report makes it smaller.
LEMMA Counting ==
  ASSUME N \in Nat
  PROVE  /\ Cardinality(Branch) = N
         /\ \A U \in SUBSET Branch : /\ Cardinality(U) \in Nat
                                     /\ (Cardinality(U) = 0) <=> (U = {})
                                     /\ \A b \in U : Cardinality(U \ {b}) = Cardinality(U) - 1
<1>1. IsFiniteSet(Branch) /\ Cardinality(Branch) = N
  <2>1. IsFiniteSet(1..N) /\ Cardinality(1..N) = IF 1 > N THEN 0 ELSE N - 1 + 1
    BY FS_Interval
  <2> QED BY <2>1 DEF Branch
<1>2. ASSUME NEW U \in SUBSET Branch
      PROVE  /\ Cardinality(U) \in Nat
             /\ (Cardinality(U) = 0) <=> (U = {})
             /\ \A b \in U : Cardinality(U \ {b}) = Cardinality(U) - 1
  <2>1. IsFiniteSet(U)
    BY <1>1, FS_Subset
  <2>2. Cardinality(U) \in Nat
    BY <2>1, FS_CardinalityType
  <2>3. (Cardinality(U) = 0) <=> (U = {})
    BY <2>1, FS_EmptySet
  <2>4. ASSUME NEW b \in U PROVE Cardinality(U \ {b}) = Cardinality(U) - 1
    BY <2>1, FS_RemoveElement
  <2> QED BY <2>2, <2>3, <2>4
<1> QED BY <1>1, <1>2

\* Before a frame has left, these are the only steps that can be taken.
LEMMA EarlySteps ==
  ASSUME TypeInv, OwnPlain, NEW f, Early(f), Next,
         \A p \in Node : OnlyStarts(node[p].inputQueue)
  PROVE  \/ \E h \in Frame : QueueFrame(h)
         \/ \E b \in Branch : Raise(b) \/ emit(<<b, "task">>)
         \/ \E b \in Branch : \/ TakeSystem(b) \/ HandleStart(b) \/ sinkPush(<<b, "input">>)
                              \/ emitSynchronized(<<b, "input">>)
                              \/ PushSynchronized(<<b, "input">>)
         \/ TakeSystem(0) \/ HandleStart(0) \/ FanOutStep(<<0, "input">>)
<1>1. /\ go[<<0, "process">>].pc = "idle" /\ go[<<0, "task">>].pc = "idle"
      /\ isEmpty(node[0].procQueue)
      /\ In(0).pc \in {"idle", "handle", "body", "pauseSystem", "pauseFrames", "fanOut"}
      /\ In(0).pc # "idle" => Kind[In(0).frame] = "start"
      /\ node[0].started /\ In(0).pc = "idle" => heldSystem
  BY DEF Early, Front, isStartFrame
<1>2. ASSUME NEW b \in Branch
      PROVE  /\ go[<<b, "process">>].pc = "idle" /\ isEmpty(node[b].procQueue)
             /\ node[b].inputQueue.system = <<>> /\ node[b].inputQueue.other = <<>>
             /\ In(b).pc \in {"idle", "handle", "body", "synchronized", "pushSynchronized"}
             /\ In(b).pc # "idle" => Kind[In(b).frame] = "start"
             /\ go[<<b, "task">>].pc \in {"idle", "body"}
             /\ go[<<b, "task">>].pc # "idle" => ~isLifecycle(go[<<b, "task">>].frame)
  BY DEF Early, Side, isStartFrame
<1>3. /\ 0 \in Node /\ Node = {0} \cup Branch /\ 0 \notin Branch
  BY Parts DEF Node, Branch
<1>4. ASSUME NEW b \in Branch, Consume(b) PROVE FALSE
  BY <1>2, <1>4 DEF Consume
<1>5. ASSUME NEW p \in Node, NodeStep(p) PROVE TakeSystem(p) \/ HandleStart(p)
  <2>1. /\ go[<<p, "process">>].pc = "idle" /\ isEmpty(node[p].procQueue)
        /\ In(p).pc \notin {"join"}
        /\ In(p).pc = "handle" => Kind[In(p).frame] = "start"
    BY <1>1, <1>2, <1>3
  <2>2. ~TakeFrame(p) /\ ~(p = 0 /\ (Gate \/ GiveBack)) /\ ~Join(p)
    BY <2>1 DEF TakeFrame, Gate, GiveBack, Join, In
  <2>3. ~HandleCancel(p) /\ ~HandleInterruption(p)
    BY <2>1 DEF HandleCancel, HandleInterruption, Handles, In
  <2>4. ~HandOn(p)
    <3> SUFFICES ASSUME HandOn(p) PROVE FALSE
      OBVIOUS
    <3>1. InputReady(p) /\ ~isSystemFrame(head(node[p].inputQueue))
      BY DEF HandOn
    <3>2. node[p].inputQueue.start # <<>>
      <4>1. CASE p = 0
        BY <1>1, <3>1, <4>1 DEF InputReady, In
      <4>2. CASE p \in Branch
        BY <1>2, <3>1, <4>2 DEF InputReady, isEmpty
      <4> QED BY <1>3, <4>1, <4>2
    <3>3. node[p].inputQueue \in Queue /\ OnlyStarts(node[p].inputQueue)
      BY Parts
    <3> QED BY <3>1, <3>2, <3>3, StartTier DEF isStartFrame, isSystemFrame, SystemKinds
  <2> QED BY <1>5, <2>2, <2>3, <2>4 DEF NodeStep
<1>6. ASSUME NEW g \in Goroutines, FanOutStep(g) \/ SinkStep(g)
      PROVE  \/ \E b \in Branch : emit(<<b, "task">>)
             \/ \E b \in Branch : \/ sinkPush(<<b, "input">>) \/ emitSynchronized(<<b, "input">>)
                                  \/ PushSynchronized(<<b, "input">>)
             \/ FanOutStep(<<0, "input">>)
  <2>1. PICK p \in Node, l \in Lane : g = <<p, l>>
    BY DEF Goroutines
  <2>2. /\ g[1] = p /\ go[g].pc # "idle" /\ go[g].pc # "handle"
    BY <1>6, <2>1 DEF FanOutStep, SinkStep, Arm, PauseSystem, PauseFrames, FanOut, emit, Push,
       sinkPush, flushBuffered, PushBuffered, emitSynchronized, PushSynchronized,
       ResumeSystem, ResumeFrames
  <2>3. CASE p = 0
    <3>1. g = <<0, "input">> /\ go[g].pc \in {"body", "pauseSystem", "pauseFrames", "fanOut"}
      BY <1>1, <2>1, <2>2, <2>3 DEF Lane, In
    <3>2. ~SinkStep(g)
      BY <1>3, <2>2, <2>3, <3>1 DEF SinkStep, emit, Push, sinkPush, flushBuffered, PushBuffered,
         emitSynchronized, PushSynchronized, ResumeSystem, ResumeFrames
    <3> QED BY <1>6, <3>1, <3>2
  <2>4. CASE p \in Branch /\ l = "task"
    <3>1. go[g].pc = "body" /\ ~isLifecycle(go[g].frame)
      BY <1>2, <2>1, <2>2, <2>4
    <3>2. ~FanOutStep(g)
      BY <1>3, <2>2, <2>4, <3>1 DEF FanOutStep, Arm, PauseSystem, PauseFrames, FanOut
    <3>3. emit(g)
      BY <1>6, <3>1, <3>2 DEF SinkStep, Push, sinkPush, flushBuffered, PushBuffered,
         emitSynchronized, PushSynchronized, ResumeSystem, ResumeFrames
    <3> QED BY <2>1, <2>4, <3>3
  <2>5. CASE p \in Branch /\ l = "input"
    <3>1. go[g].pc \in {"body", "synchronized", "pushSynchronized"} /\ isLifecycle(go[g].frame)
      BY <1>2, <2>1, <2>2, <2>5 DEF In, isLifecycle
    <3>2. ~FanOutStep(g)
      BY <1>3, <2>2, <2>5, <3>1 DEF FanOutStep, Arm, PauseSystem, PauseFrames, FanOut
    <3>3. sinkPush(g) \/ emitSynchronized(g) \/ PushSynchronized(g)
      BY <1>6, <3>1, <3>2 DEF SinkStep, emit, Push, flushBuffered, PushBuffered,
         ResumeSystem, ResumeFrames
    <3> QED BY <2>1, <2>5, <3>3
  <2>6. CASE p \in Branch /\ l = "process"
    BY <1>2, <2>1, <2>2, <2>6
  <2> QED BY <1>3, <2>3, <2>4, <2>5, <2>6 DEF Lane
<1>7. \/ \E h \in Frame : QueueFrame(h)
      \/ \E b \in Branch : Raise(b)
      \/ \E p \in Node : NodeStep(p)
      \/ \E g \in Goroutines : FanOutStep(g) \/ SinkStep(g)
  BY <1>4, NextSteps
<1> QED BY <1>3, <1>5, <1>6, <1>7

\* A step of a branch's own goroutine, which pushes nothing out.
LEMMA TaskStep ==
  ASSUME TypeInv, NEW f, Early(f), NEW b \in Branch, OnlyMoves(<<b, "task">>),
         node' = node, counter' = counter, syncing' = syncing, heldSystem' = heldSystem,
         go'[<<b, "task">>].pc \in {"idle", "body"},
         go'[<<b, "task">>].pc # "idle" =>
             node[b].started /\ ~isLifecycle(go'[<<b, "task">>].frame),
         \A h \in seen' : isStartFrame(h) => h \in seen
  PROVE  Early(f)'
<1>1. /\ 0 \in Node /\ 0 \notin Branch /\ Branch \subseteq Node
      /\ \A p \in Node, l \in Lane : <<p, l>> \in Goroutines
  BY Parts
<1>2. \A p \in Node : /\ go'[<<p, "input">>] = go[<<p, "input">>]
                      /\ go'[<<p, "process">>] = go[<<p, "process">>]
                      /\ p # b => go'[<<p, "task">>] = go[<<p, "task">>]
  BY <1>1 DEF OnlyMoves, Lane
<1>3. \A p \in Node : In(p)' = In(p)
  BY <1>2 DEF In
<1>4. Front(f)'
  BY <1>1, <1>2, <1>3 DEF Early, Front
<1>5. Armed' = Armed /\ (\A x \in Branch : Fresh(x)' <=> Fresh(x))
  BY <1>1, <1>3 DEF Armed, Fresh
<1>6. Reach'
  BY <1>1, <1>3, <1>5 DEF Early, Reach
<1>7. Unreported' = Unreported /\ \A x \in Branch : Last(x)' <=> Last(x)
  BY <1>1, <1>3 DEF Unreported, Last
<1>8. Count(f)'
  BY <1>1, <1>3, <1>5, <1>7 DEF Early, Count
<1>9. ASSUME NEW x \in Branch PROVE Side(x, f)'
  <2>1. Side(x, f) /\ In(x)' = In(x) /\ (Last(x)' <=> Last(x)) /\ node'[x] = node[x]
    BY <1>1, <1>3, <1>7 DEF Early
  <2>2. /\ go'[<<x, "process">>] = go[<<x, "process">>]
        /\ x # b => go'[<<x, "task">>] = go[<<x, "task">>]
    BY <1>1, <1>2
  <2> QED BY <2>1, <2>2 DEF Side
<1> QED BY <1>4, <1>6, <1>8, <1>9 DEF Early

\* A step of the input goroutine of a branch the StartFrame has got to.
LEMMA BranchStep ==
  ASSUME TypeInv, NEW f, Early(f), NEW b \in Branch, OnlyMoves(<<b, "input">>),
         \A p \in Node : p # b => node'[p] = node[p],
         heldSystem' = heldSystem, ~Fresh(b), Side(b, f)', Count(f)'
  PROVE  Early(f)'
<1>1. /\ 0 \in Node /\ 0 \notin Branch /\ Branch \subseteq Node
      /\ \A p \in Node, l \in Lane : <<p, l>> \in Goroutines
  BY Parts
<1>2. \A p \in Node : /\ p # b => go'[<<p, "input">>] = go[<<p, "input">>]
                      /\ go'[<<p, "process">>] = go[<<p, "process">>]
                      /\ go'[<<p, "task">>] = go[<<p, "task">>]
  BY <1>1 DEF OnlyMoves, Lane
<1>3. \A p \in Node : p # b => In(p)' = In(p) /\ node'[p] = node[p]
  BY <1>2 DEF In
<1>4. In(0)' = In(0) /\ node'[0] = node[0]
  BY <1>1, <1>3
<1>5. Front(f)'
  BY <1>1, <1>2, <1>4 DEF Early, Front
<1>6. Armed' = Armed /\ (\A x \in Branch : x # b => (Fresh(x)' <=> Fresh(x)))
  BY <1>1, <1>3, <1>4 DEF Armed, Fresh
<1>7. Reach'
  BY <1>1, <1>4, <1>6 DEF Early, Reach
<1>8. ASSUME NEW x \in Branch, x # b PROVE Side(x, f)'
  <2>1. Side(x, f) /\ In(x)' = In(x) /\ (Last(x)' <=> Last(x)) /\ node'[x] = node[x]
    BY <1>1, <1>3, <1>8 DEF Early, Last
  <2>2. /\ go'[<<x, "process">>] = go[<<x, "process">>]
        /\ go'[<<x, "task">>] = go[<<x, "task">>]
    BY <1>1, <1>2
  <2> QED BY <2>1, <2>2 DEF Side
<1> QED BY <1>5, <1>7, <1>8 DEF Early

\* A branch that was to report f is still to report it after the step.
LEMMA CountKept ==
  ASSUME TypeInv, NEW f, Early(f), NEW b \in Branch, OnlyMoves(<<b, "input">>),
         \A p \in Node : p # b => node'[p] = node[p],
         UNCHANGED <<counter, syncing, seen>>,
         ~Last(b), ~Last(b)', b \in Unreported, b \in Unreported'
  PROVE  Count(f)'
<1>1. /\ 0 \in Node /\ 0 \notin Branch /\ Branch \subseteq Node
      /\ \A p \in Node, l \in Lane : <<p, l>> \in Goroutines
  BY Parts
<1>2. \A p \in Node : p # b => In(p)' = In(p) /\ node'[p] = node[p]
  BY <1>1 DEF OnlyMoves, Lane, In
<1>3. Armed' = Armed
  BY <1>1, <1>2 DEF Armed
<1>4. \A x \in Branch : x \in Unreported' <=> x \in Unreported
  BY <1>1, <1>2 DEF Unreported
<1>5. Unreported' = Unreported
  BY <1>4 DEF Unreported
<1>6. \A x \in Branch : /\ Last(x)' <=> Last(x)
                        /\ In(x).pc = "pushSynchronized" => In(x)'.pc = "pushSynchronized"
  BY <1>1, <1>2 DEF Last
<1> QED BY <1>3, <1>5, <1>6 DEF Early, Count

\* A branch takes up, handles and reports the StartFrame, and the last one to
\* report pushes it out: the first frame to leave.
LEMMA BranchEarly ==
  ASSUME TypeInv, OwnPlain, NEW f, Early(f), NEW b \in Branch, out = <<>>,
         OnlyStarts(node[b].inputQueue),
         \/ TakeSystem(b) \/ HandleStart(b) \/ sinkPush(<<b, "input">>)
         \/ emitSynchronized(<<b, "input">>) \/ PushSynchronized(<<b, "input">>)
  PROVE  (out' = <<>> => Early(f)') /\ StartLeads'
<1> DEFINE g == <<b, "input">>
<1>1. /\ b \in Node /\ b # 0 /\ 0 \in Node /\ g \in Goroutines /\ GoOK /\ node \in [Node -> NodeType]
      /\ node[b].inputQueue \in Queue /\ node[b] \in NodeType /\ go[g] \in GoroutineType
      /\ \A p \in Node, l \in Lane : <<p, l>> \in Goroutines
  BY Parts DEF Lane, TypeInv, TypeOK
<1>2. Side(b, f) /\ Count(f) /\ Reach /\ Front(f)
  BY DEF Early
<1>3. OnlyMoves(g) => /\ go'[<<b, "process">>] = go[<<b, "process">>]
                      /\ go'[<<b, "task">>] = go[<<b, "task">>]
  BY <1>1 DEF OnlyMoves, Lane
<1>4. CASE TakeSystem(b)
  <2>1. /\ In(b).pc = "idle" /\ ~isEmpty(node[b].inputQueue)
        /\ node[b].inputQueue.start = <<f>> /\ isStartFrame(f) /\ ~node[b].started
    BY <1>2, <1>4 DEF TakeSystem, InputReady, Side, isEmpty, In
  <2>2. head(node[b].inputQueue) = f
    BY <1>1, <2>1 DEF head, startsNext
  <2>3. /\ get(node[b].inputQueue).start = <<>>
        /\ get(node[b].inputQueue).system = node[b].inputQueue.system
        /\ get(node[b].inputQueue).other = node[b].inputQueue.other
    BY <1>1, <2>1 DEF get, startsNext, Queue
  <2>4. Take(g, "handle", f) /\ node' = [node EXCEPT ![b].inputQueue = get(@)]
    BY <1>4, <2>2 DEF TakeSystem
  <2>5. /\ \A p \in Node : p # b => node'[p] = node[p]
        /\ node'[b].inputQueue = get(node[b].inputQueue) /\ node'[b].started = node[b].started
        /\ node'[b].procQueue = node[b].procQueue
    BY <1>1, <2>4 DEF NodeType
  <2>6. OnlyMoves(g) /\ go'[g].pc = "handle" /\ go'[g].frame = f
    BY <1>1, <2>4 DEF Take, GoOK, OnlyMoves, Idle
  <2>7. Side(b, f)'
    BY <1>2, <1>3, <2>1, <2>3, <2>5, <2>6 DEF Side, In, Last, isEmpty
  <2>8. ~Last(b) /\ ~Last(b)' /\ b \in Unreported /\ b \in Unreported' /\ ~Fresh(b)
    BY <2>1, <2>5, <2>6 DEF Last, Unreported, Fresh, In
  <2>9. UNCHANGED <<counter, syncing, seen, heldSystem, out>>
    BY <1>4 DEF TakeSystem, gateVars, ppVars
  <2>10. Count(f)'
    BY <2>5, <2>6, <2>8, <2>9, CountKept
  <2>11. Early(f)'
    BY <2>5, <2>6, <2>7, <2>8, <2>9, <2>10, BranchStep
  <2> QED BY <2>9, <2>11 DEF StartLeads
<1>5. CASE HandleStart(b)
  <2>1. In(b).pc = "handle" /\ ~node[b].started /\ In(b).frame = f /\ isStartFrame(f)
        /\ node[b].inputQueue.start = <<>>
    BY <1>2, <1>5 DEF HandleStart, Handles, Side, In
  <2>2. OnlyMoves(g) /\ go'[g].pc = "body" /\ go'[g].frame = f
    BY <1>1, <1>5, <2>1, GotoMoves DEF HandleStart, In
  <2>3. node' = [node EXCEPT ![b].started = TRUE, ![b].running = TRUE]
    BY <1>5 DEF HandleStart
  <2>4. /\ \A p \in Node : p # b => node'[p] = node[p]
        /\ node'[b].inputQueue = node[b].inputQueue /\ node'[b].started
        /\ node'[b].procQueue = node[b].procQueue
    BY <1>1, <2>3 DEF NodeType
  <2>5. Side(b, f)'
    BY <1>2, <1>3, <2>1, <2>2, <2>4 DEF Side, In, Last, isEmpty
  <2>6. ~Last(b) /\ ~Last(b)' /\ b \in Unreported /\ b \in Unreported' /\ ~Fresh(b)
    BY <2>1, <2>2 DEF Last, Unreported, Fresh, In
  <2>7. UNCHANGED <<counter, syncing, seen, heldSystem, out>>
    BY <1>5 DEF HandleStart, Handles, gateVars, ppVars
  <2>8. Count(f)'
    BY <2>2, <2>4, <2>6, <2>7, CountKept
  <2>9. Early(f)'
    BY <2>2, <2>4, <2>5, <2>6, <2>7, <2>8, BranchStep
  <2> QED BY <2>7, <2>9 DEF StartLeads
<1>6. CASE sinkPush(g)
  <2>1. /\ In(b).pc = "body" /\ In(b).frame = f /\ go[g].frame = f /\ isStartFrame(f) /\ node[b].started
        /\ node[b].inputQueue.start = <<>>
    BY <1>2, <1>6 DEF sinkPush, Side, In
  <2>2. ~Fresh(b) /\ b \in Unreported /\ ~Last(b)
    BY <2>1 DEF Fresh, Unreported, Last
  <2>3. Armed /\ f \in Frame /\ syncing /\ counter[f] = Cardinality(Unreported)
    BY <1>2, <2>2 DEF Reach, Count
  <2>4. /\ UNCHANGED <<node, heldSystem, syncing, seen, out>>
        /\ counter' = [counter EXCEPT ![f] = Reported(f)]
        /\ IF Reported(f) > 0 THEN Done(g) ELSE Goto(g, "synchronized")
    BY <1>6, <2>1 DEF sinkPush, gateVars, afterReport
  <2>5. /\ OnlyMoves(g)
        /\ Reported(f) > 0 => go'[g].pc = "idle"
        /\ ~(Reported(f) > 0) => go'[g].pc = "synchronized" /\ go'[g].frame = f
    BY <1>1, <2>1, <2>4, DoneMoves, GotoMoves
  <2>6. Unreported \in SUBSET Branch /\ Cardinality(Unreported) \in Nat
        /\ Cardinality(Unreported \ {b}) = Cardinality(Unreported) - 1
        /\ Cardinality(Unreported \ {b}) \in Nat
        /\ (Cardinality(Unreported \ {b}) = 0 => Unreported \ {b} = {})
    <3>1. Unreported \in SUBSET Branch /\ Unreported \ {b} \in SUBSET Branch /\ N \in Nat
      BY Parts DEF Unreported
    <3> QED BY <2>2, <3>1, Counting
  <2>7. Reported(f) = Cardinality(Unreported \ {b})
    BY <2>3, <2>6 DEF Reported
  <2>8. \A p \in Node : p # b => In(p)' = In(p)
    BY <1>1, <2>5 DEF OnlyMoves, Lane, In
  <2>9. Unreported' = Unreported \ {b}
    <3>1. \A x \in Branch : x \in Unreported' <=> x \in Unreported \ {b}
      <4>1. b \notin Unreported'
        BY <2>1, <2>4, <2>5 DEF Unreported, In
      <4>2. ASSUME NEW x \in Branch, x # b PROVE x \in Unreported' <=> x \in Unreported
        <5>1. x \in Node /\ In(x)' = In(x)
          BY <2>8, <4>2 DEF Node, Branch
        <5> QED BY <2>4, <5>1 DEF Unreported
      <4> QED BY <4>1, <4>2
    <3> QED BY <3>1 DEF Unreported
  <2>10. Side(b, f)'
    BY <1>2, <1>3, <2>1, <2>4, <2>5 DEF Side, In, Last, isEmpty
  <2>11. \A x \in Branch : x # b => (Last(x)' <=> Last(x)) /\ In(x)' = In(x)
    BY <2>8 DEF Last, Node, Branch
  <2>12. counter'[f] = Reported(f)
    BY <2>3, <2>4 DEF TypeInv, TypeOK
  <2>13. \A x \in Branch : ~Last(x)
    BY <1>2, <2>2 DEF Count
  <2>14. Count(f)'
    <3>1. Armed' => syncing' /\ f \in Frame /\ counter'[f] = Cardinality(Unreported')
      BY <2>3, <2>4, <2>7, <2>9, <2>12
    <3>2. \A x \in Branch : Last(x)' => x = b
      BY <2>11, <2>13
    <3>3. Last(b)' => Unreported' = {}
      BY <2>5, <2>6, <2>7, <2>9 DEF Last, In
    <3>4. \A h \in seen : ~isStartFrame(h)
      BY <1>2, <2>13 DEF Count, Last
    <3> QED BY <2>4, <3>1, <3>2, <3>3, <3>4 DEF Count
  <2>15. Early(f)'
    BY <2>2, <2>4, <2>5, <2>10, <2>14, BranchStep
  <2> QED BY <2>4, <2>15 DEF StartLeads
<1>7. CASE emitSynchronized(g)
  <2>1. /\ In(b).pc = "synchronized" /\ In(b).frame = f /\ go[g].frame = f /\ isStartFrame(f)
        /\ node[b].started /\ node[b].inputQueue.start = <<>>
    BY <1>2, <1>7 DEF emitSynchronized, Side, In, Last
  <2>2. Last(b) /\ ~Fresh(b)
    BY <2>1 DEF Last, Fresh
  <2>3. f \notin seen
    <3> SUFFICES ASSUME f \in seen PROVE FALSE
      OBVIOUS
    <3>1. PICK x \in Branch : In(x).pc = "pushSynchronized"
      BY <1>2, <2>1 DEF Count
    <3>2. x = b
      BY <1>2, <2>2, <3>1 DEF Count, Last
    <3> QED BY <2>1, <3>1, <3>2
  <2>4. /\ UNCHANGED <<node, heldSystem, counter, syncing, out>>
        /\ Goto(g, "pushSynchronized")
    BY <1>7, <2>1, <2>3 DEF emitSynchronized, gateVars
  <2>5. OnlyMoves(g) /\ go'[g].pc = "pushSynchronized" /\ go'[g].frame = f
    BY <1>1, <2>1, <2>4, GotoMoves
  <2>6. Side(b, f)'
    BY <1>2, <1>3, <2>1, <2>4, <2>5 DEF Side, In, Last, isEmpty
  <2>7. \A p \in Node : p # b => In(p)' = In(p)
    BY <1>1, <2>5 DEF OnlyMoves, Lane, In
  <2>8. In(b)'.pc = "pushSynchronized"
    BY <2>5 DEF In
  <2>9. (\A x \in Branch : Last(x)' <=> Last(x)) /\ Armed' = Armed
    <3>1. Last(b)'
      BY <2>8 DEF Last
    <3>2. \A x \in Branch : x # b => (Last(x)' <=> Last(x))
      BY <2>7 DEF Last, Node, Branch
    <3>3. Armed' = Armed
      BY <1>1, <2>4, <2>7 DEF Armed
    <3> QED BY <2>2, <3>1, <3>2, <3>3
  <2>10. \A x \in Branch : x \in Unreported' <=> x \in Unreported
    <3> SUFFICES ASSUME NEW x \in Branch PROVE x \in Unreported' <=> x \in Unreported
      OBVIOUS
    <3>1. CASE x = b
      BY <2>1, <2>4, <2>8, <3>1 DEF Unreported
    <3>2. CASE x # b
      BY <2>4, <2>7, <3>2 DEF Unreported, Node, Branch
    <3> QED BY <3>1, <3>2
  <2>11. Unreported' = Unreported
    BY <2>10 DEF Unreported
  <2>12. Count(f)'
    <3>1. \A x \in Branch : Last(x)' => Unreported' = {}
      BY <1>2, <2>9, <2>11 DEF Count
    <3>2. \A x, y \in Branch : Last(x)' /\ Last(y)' => x = y
      BY <1>2, <2>9 DEF Count
    <3>3. Armed' => syncing' /\ f \in Frame /\ counter'[f] = Cardinality(Unreported')
      BY <1>2, <2>4, <2>9, <2>11 DEF Count
    <3> QED BY <2>8, <3>1, <3>2, <3>3 DEF Count
  <2>13. Early(f)'
    BY <2>2, <2>4, <2>5, <2>6, <2>12, BranchStep
  <2> QED BY <2>4, <2>13 DEF StartLeads
<1>8. CASE PushSynchronized(g)
  <2>1. In(b).pc = "pushSynchronized" /\ go[g].frame = f /\ isStartFrame(f) /\ f \in Frame
    BY <1>1, <1>2, <1>8 DEF PushSynchronized, Side, In, TypeInv, HandOK
  <2>2. out' = <<f>>
    BY <1>8, <2>1 DEF PushSynchronized
  <2> QED BY <2>1, <2>2 DEF StartLeads
<1> QED BY <1>4, <1>5, <1>6, <1>7, <1>8

\* A step of the parallel pipeline's own input goroutine that leaves the
\* branches alone; f may become another frame only while none has been taken.
LEMMA FrontStep ==
  ASSUME TypeInv, NEW f, Early(f), NEW h, OnlyMoves(<<0, "input">>),
         \A b \in Branch : node'[b] = node[b], seen' = seen,
         h = f \/ \A b \in Branch : Fresh(b),
         Front(h)', Reach',
         Armed' => syncing' /\ h \in Frame /\ counter'[h] = Cardinality(Unreported)
  PROVE  Early(h)'
<1>1. /\ 0 \in Node /\ 0 \notin Branch /\ Branch \subseteq Node
      /\ \A p \in Node, l \in Lane : <<p, l>> \in Goroutines
  BY Parts
<1>2. \A b \in Branch : /\ In(b)' = In(b) /\ node'[b] = node[b]
                        /\ go'[<<b, "process">>] = go[<<b, "process">>]
                        /\ go'[<<b, "task">>] = go[<<b, "task">>]
  BY <1>1 DEF OnlyMoves, Lane, In
<1>3. Unreported' = Unreported
  BY <1>2 DEF Unreported
<1>4. \A b \in Branch : Last(b)' <=> Last(b)
  BY <1>2 DEF Last
<1>5. Count(h)'
  <2>1. \A x \in Branch : Last(x)' => Unreported' = {}
    BY <1>3, <1>4 DEF Early, Count
  <2>2. \A x, y \in Branch : Last(x)' /\ Last(y)' => x = y
    BY <1>4 DEF Early, Count
  <2>3. \A x \in seen' : isStartFrame(x) => \E b \in Branch : In(b)'.pc = "pushSynchronized"
    BY <1>2 DEF Early, Count
  <2> QED BY <1>3, <2>1, <2>2, <2>3 DEF Count
<1>6. ASSUME NEW b \in Branch PROVE Side(b, h)'
  <2>1. Side(b, f) /\ In(b)' = In(b) /\ (Last(b)' <=> Last(b)) /\ node'[b] = node[b]
        /\ go'[<<b, "process">>] = go[<<b, "process">>] /\ go'[<<b, "task">>] = go[<<b, "task">>]
    BY <1>2, <1>4 DEF Early
  <2>2. CASE h = f
    BY <2>1, <2>2 DEF Side
  <2>3. CASE Fresh(b)
    BY <2>1, <2>3 DEF Side, Fresh, isEmpty, Last
  <2> QED BY <2>2, <2>3
<1> QED BY <1>5, <1>6 DEF Early

\* The parallel pipeline takes up the StartFrame, arms the counter and closes
\* its gates before a branch gets the frame.
LEMMA FrontEarly ==
  ASSUME TypeInv, NEW f \in Frame \cup {NoFrame}, Early(f), OnlyStarts(node[0].inputQueue),
         \/ TakeSystem(0) \/ HandleStart(0)
         \/ Arm(<<0, "input">>) \/ PauseSystem(<<0, "input">>) \/ PauseFrames(<<0, "input">>)
  PROVE  out' = out /\ \E h \in Frame \cup {NoFrame} : Early(h)'
<1> DEFINE g == <<0, "input">>
<1>1. /\ 0 \in Node /\ 0 \notin Branch /\ Branch \subseteq Node /\ g \in Goroutines /\ GoOK
      /\ node \in [Node -> NodeType] /\ node[0].inputQueue \in Queue /\ node[0] \in NodeType
      /\ go[g] \in GoroutineType /\ \A p \in Node, l \in Lane : <<p, l>> \in Goroutines
  BY Parts DEF Lane, TypeInv, TypeOK
<1>2. Count(f) /\ Reach /\ Front(f)
  BY DEF Early
<1>3. OnlyMoves(g) => /\ go'[<<0, "process">>] = go[<<0, "process">>]
                      /\ go'[<<0, "task">>] = go[<<0, "task">>]
                      /\ \A b \in Branch : In(b)' = In(b)
  BY <1>1 DEF OnlyMoves, Lane, In
<1>4. CASE TakeSystem(0)
  <2> PICK h : h = head(node[0].inputQueue)
    OBVIOUS
  <2>1. /\ In(0).pc = "idle" /\ node[0].inputQueue.start # <<>> /\ ~node[0].started
    BY <1>2, <1>4 DEF TakeSystem, InputReady, Front, In
  <2>2. isStartFrame(h) /\ h \in Frame
    BY <1>1, <2>1, StartTier, GetProperties
  <2>3. /\ Take(g, "handle", h) /\ node' = [node EXCEPT ![0].inputQueue = get(@)]
        /\ UNCHANGED <<gateVars, ppVars, out>>
    BY <1>4 DEF TakeSystem
  <2>4. /\ \A b \in Branch : node'[b] = node[b]
        /\ node'[0].started = node[0].started /\ node'[0].procQueue = node[0].procQueue
    BY <1>1, <2>3 DEF NodeType
  <2>5. OnlyMoves(g) /\ go'[g].pc = "handle" /\ go'[g].frame = h
    BY <1>1, <2>3 DEF Take, GoOK, OnlyMoves, Idle
  <2>6. Front(h)'
    BY <1>2, <1>3, <2>1, <2>2, <2>4, <2>5 DEF Front, In, isEmpty
  <2>7. \A b \in Branch : Fresh(b) /\ Fresh(b)'
    BY <1>2, <1>3, <2>1, <2>4, <2>5 DEF Reach, Armed, Fresh
  <2>8. Reach' /\ ~Armed'
    BY <2>1, <2>4, <2>5, <2>7 DEF Reach, Armed, In
  <2>9. Early(h)'
    BY <2>3, <2>4, <2>5, <2>6, <2>7, <2>8, FrontStep DEF ppVars
  <2> QED BY <2>2, <2>3, <2>9
<1>5. CASE HandleStart(0)
  <2>1. In(0).pc = "handle" /\ In(0).frame = f /\ ~node[0].started /\ isStartFrame(f)
    BY <1>2, <1>5 DEF HandleStart, Handles, Front, In
  <2>2. /\ Goto(g, "body") /\ node' = [node EXCEPT ![0].started = TRUE, ![0].running = TRUE]
        /\ UNCHANGED <<gateVars, ppVars, out>>
    BY <1>5 DEF HandleStart, Handles
  <2>3. /\ \A b \in Branch : node'[b] = node[b]
        /\ node'[0].started /\ node'[0].procQueue = node[0].procQueue
    BY <1>1, <2>2 DEF NodeType
  <2>4. OnlyMoves(g) /\ go'[g].pc = "body" /\ go'[g].frame = f
    BY <1>1, <2>1, <2>2, GotoMoves DEF In
  <2>5. Front(f)'
    BY <1>2, <1>3, <2>1, <2>3, <2>4 DEF Front, In, isEmpty
  <2>6. \A b \in Branch : Fresh(b)'
    BY <1>2, <1>3, <2>1, <2>3, <2>4 DEF Reach, Armed, Fresh
  <2>7. Reach' /\ ~Armed'
    BY <2>4, <2>6 DEF Reach, Armed, In
  <2>8. Early(f)'
    BY <2>2, <2>3, <2>4, <2>5, <2>7, FrontStep DEF ppVars
  <2> QED BY <2>2, <2>8
<1>6. CASE Arm(g)
  <2>1. In(0).pc = "body" /\ In(0).frame = f /\ go[g].frame = f /\ node[0].started
        /\ isStartFrame(f) /\ isLifecycle(f) /\ f \in Frame
    BY <1>1, <1>2, <1>6 DEF Arm, Front, In, isStartFrame, isLifecycle, TypeInv, HandOK
  <2>2. /\ Goto(g, "pauseSystem") /\ UNCHANGED <<node, gateVars, seen, out>>
        /\ counter' = [counter EXCEPT ![f] = N] /\ syncing'
    BY <1>6, <2>1 DEF Arm
  <2>3. OnlyMoves(g) /\ go'[g].pc = "pauseSystem" /\ go'[g].frame = f
    BY <1>1, <2>1, <2>2, GotoMoves
  <2>4. Front(f)'
    BY <1>2, <1>3, <2>1, <2>2, <2>3 DEF Front, In, isEmpty
  <2>5. \A b \in Branch : Fresh(b) /\ Fresh(b)'
    BY <1>2, <1>3, <2>1, <2>2, <2>3 DEF Reach, Armed, Fresh
  <2>6. Reach'
    BY <2>3, <2>5 DEF Reach, Armed, In
  <2>7. Unreported = Branch
    BY <2>5 DEF Unreported, Fresh
  <2>8. counter'[f] = Cardinality(Unreported)
    BY <2>1, <2>2, <2>7, Counting, Parts DEF TypeInv, TypeOK
  <2>9. Early(f)'
    BY <2>1, <2>2, <2>3, <2>4, <2>6, <2>8, FrontStep
  <2> QED BY <2>2, <2>9
<1>7. CASE PauseSystem(g) \/ PauseFrames(g)
  <2>1. /\ Goto(g, "pauseFrames") \/ Goto(g, "fanOut")
        /\ In(0).pc \in {"pauseSystem", "pauseFrames"}
        /\ UNCHANGED <<node, ppVars, out>>
        /\ heldSystem' = heldSystem \/ heldSystem'
        /\ In(0).pc = "pauseSystem" => heldSystem'
    BY <1>7 DEF PauseSystem, PauseFrames, In
  <2>2. In(0).frame = f /\ node[0].started /\ isStartFrame(f) /\ (In(0).pc = "pauseFrames" => heldSystem)
    BY <1>2, <2>1 DEF Front
  <2>3. OnlyMoves(g) /\ go'[g].pc \in {"pauseFrames", "fanOut"} /\ go'[g].frame = f
    BY <1>1, <2>1, <2>2, GotoMoves DEF In
  <2>4. heldSystem'
    BY <2>1, <2>2
  <2>5. Front(f)'
    BY <1>2, <1>3, <2>1, <2>2, <2>3, <2>4 DEF Front, In, isEmpty
  <2>6. \A b \in Branch : Fresh(b) /\ Fresh(b)'
    BY <1>2, <1>3, <2>1, <2>3 DEF Reach, Fresh
  <2>7. Reach'
    BY <2>6 DEF Reach
  <2>8. Armed
    BY <2>1, <2>2 DEF Armed
  <2>9. syncing' /\ f \in Frame /\ counter'[f] = Cardinality(Unreported)
    BY <1>2, <2>1, <2>8 DEF Count, ppVars
  <2>10. Early(f)'
    BY <2>1, <2>3, <2>5, <2>7, <2>9, FrontStep DEF ppVars
  <2> QED BY <2>1, <2>10
<1> QED BY <1>4, <1>5, <1>6, <1>7

\* A branch is handed the StartFrame, once.
LEMMA FanOutEarly ==
  ASSUME TypeInv, NEW f, Early(f), FanOut(<<0, "input">>)
  PROVE  out' = out /\ Early(f)'
<1> DEFINE g == <<0, "input">>
<1>1. /\ 0 \in Node /\ 0 \notin Branch /\ Branch \subseteq Node /\ g \in Goroutines /\ GoOK
      /\ node \in [Node -> NodeType] /\ go[g] \in GoroutineType /\ N \in Nat \ {0}
      /\ \A p \in Node, l \in Lane : <<p, l>> \in Goroutines
  BY Parts DEF Lane, TypeInv, TypeOK
<1>2. Count(f) /\ Reach /\ Front(f)
  BY DEF Early
<1>3. PICK b \in Branch : b = In(0).next
  BY <1>1 DEF In, GoroutineType
<1>4. /\ In(0).pc = "fanOut" /\ In(0).frame = f /\ isStartFrame(f) /\ node[0].started /\ heldSystem
      /\ Fresh(b) /\ f \in Frame /\ Armed
  <2>1. In(0).pc = "fanOut" /\ In(0) = go[g]
    BY DEF FanOut, In
  <2>2. b >= In(0).next
    BY <1>3 DEF Branch
  <2> QED BY <1>1, <1>2, <1>3, <2>1, <2>2 DEF Front, Reach, Armed, TypeInv, HandOK
<1>5. /\ Accept(b, f) /\ UNCHANGED <<gateVars, ppVars, out>>
      /\ IF b = N THEN Done(g) ELSE go' = [go EXCEPT ![g].next = @ + 1]
  BY <1>3, <1>4 DEF FanOut, In
<1>6. b \in Node /\ b # 0 /\ node[b] \in NodeType /\ node[b].inputQueue \in Queue
  BY <1>1 DEF NodeType
<1>7. /\ push(node[b].inputQueue, f).start = <<f>>
      /\ push(node[b].inputQueue, f).system = <<>> /\ push(node[b].inputQueue, f).other = <<>>
  BY <1>4, <1>6 DEF push, Queue, Fresh, isEmpty
<1>8. /\ \A p \in Node : p # b => node'[p] = node[p]
      /\ node'[b].started = node[b].started /\ node'[b].procQueue = node[b].procQueue
      /\ \/ node'[b].inputQueue = node[b].inputQueue
         \/ node'[b].inputQueue = push(node[b].inputQueue, f)
  BY <1>1, <1>5, <1>6 DEF Accept, NodeType
<1>9. /\ OnlyMoves(g)
      /\ b = N => go'[g].pc = "idle"
      /\ b # N => go'[g].pc = "fanOut" /\ go'[g].frame = f /\ go'[g].next = b + 1
  <2>1. CASE b = N
    BY <1>1, <1>5, <2>1, DoneMoves
  <2>2. CASE b # N
    BY <1>1, <1>3, <1>4, <1>5, <2>2 DEF In, OnlyMoves, GoOK, GoroutineType
  <2> QED BY <2>1, <2>2
<1>10. \A p \in Node : /\ p # 0 => In(p)' = In(p)
                       /\ go'[<<p, "process">>] = go[<<p, "process">>]
                       /\ go'[<<p, "task">>] = go[<<p, "task">>]
  BY <1>1, <1>9 DEF OnlyMoves, Lane, In
<1>11. Front(f)'
  <2>1. /\ node'[0] = node[0] /\ heldSystem' = heldSystem
        /\ go'[<<0, "process">>] = go[<<0, "process">>] /\ go'[<<0, "task">>] = go[<<0, "task">>]
    BY <1>1, <1>5, <1>6, <1>8, <1>10 DEF gateVars
  <2> QED BY <1>2, <1>4, <1>9, <2>1 DEF Front, In
<1>12. Armed'
  BY <1>1, <1>4, <1>6, <1>8, <1>9 DEF Armed, In
<1>13. \A x \in Branch : x # b => (Fresh(x)' <=> Fresh(x))
  BY <1>1, <1>8, <1>10 DEF Fresh
<1>14. Reach'
  <2>1. CASE b = N
    BY <1>9, <1>12, <2>1 DEF Reach, In
  <2>2. CASE b # N
    <3>1. \A x \in Branch : x >= b + 1 => x # b /\ x >= In(0).next
      BY <1>3 DEF Branch
    <3>2. \A x \in Branch : x >= b + 1 => Fresh(x)'
      BY <1>2, <1>4, <1>13, <3>1 DEF Reach
    <3>3. In(0)'.pc = "fanOut" /\ In(0)'.next = b + 1
      BY <1>9, <2>2 DEF In
    <3> QED BY <1>12, <3>2, <3>3 DEF Reach
  <2> QED BY <2>1, <2>2
<1>15. \A x \in Branch : x \in Unreported' <=> x \in Unreported
  <2> SUFFICES ASSUME NEW x \in Branch PROVE x \in Unreported' <=> x \in Unreported
    OBVIOUS
  <2>1. node'[x].started = node[x].started /\ In(x)' = In(x)
    BY <1>1, <1>8, <1>10
  <2> QED BY <2>1 DEF Unreported
<1>16. Unreported' = Unreported /\ \A x \in Branch : Last(x)' <=> Last(x)
  BY <1>1, <1>10, <1>15 DEF Unreported, Last
<1>17. Count(f)'
  <2>1. UNCHANGED <<counter, syncing, seen>> /\ \A x \in Branch : In(x)' = In(x)
    BY <1>1, <1>5, <1>10 DEF ppVars
  <2> QED BY <1>2, <1>4, <1>16, <2>1 DEF Count
<1>18. ASSUME NEW x \in Branch PROVE Side(x, f)'
  <2>1. /\ Side(x, f) /\ In(x)' = In(x) /\ (Last(x)' <=> Last(x))
        /\ go'[<<x, "process">>] = go[<<x, "process">>] /\ go'[<<x, "task">>] = go[<<x, "task">>]
    BY <1>1, <1>10, <1>16 DEF Early
  <2>2. CASE x = b
    BY <1>4, <1>7, <1>8, <2>1, <2>2 DEF Side, Fresh, isEmpty
  <2>3. CASE x # b
    BY <1>1, <1>8, <2>1, <2>3 DEF Side
  <2> QED BY <2>2, <2>3
<1> QED BY <1>5, <1>11, <1>14, <1>17, <1>18 DEF Early

\* A frame queued at the parallel pipeline waits in its input queue.
LEMMA QueueEarly ==
  ASSUME TypeInv, NEW f, Early(f), NEW h \in Frame, QueueFrame(h)
  PROVE  out' = out /\ Early(f)'
<1>1. /\ 0 \in Node /\ 0 \notin Branch /\ Branch \subseteq Node
      /\ node \in [Node -> NodeType] /\ node[0] \in NodeType
  BY Parts DEF TypeInv, TypeOK
<1>2. Accept(0, h) /\ UNCHANGED <<gateVars, ppVars, go, out>>
  BY DEF QueueFrame
<1>3. /\ \A b \in Branch : node'[b] = node[b]
      /\ node'[0].started = node[0].started /\ node'[0].procQueue = node[0].procQueue
  BY <1>1, <1>2 DEF Accept, NodeType
<1>4. OnlyMoves(<<0, "input">>) /\ In(0)' = In(0) /\ heldSystem' = heldSystem
      /\ syncing' = syncing /\ counter' = counter /\ seen' = seen
  BY <1>2 DEF OnlyMoves, In, gateVars, ppVars
<1>5. Front(f)'
  BY <1>2, <1>3, <1>4 DEF Early, Front
<1>6. Armed' = Armed /\ \A b \in Branch : Fresh(b)' <=> Fresh(b)
  BY <1>2, <1>3, <1>4 DEF Armed, Fresh, In
<1>7. Reach'
  BY <1>4, <1>6 DEF Early, Reach
<1>8. Armed' => syncing' /\ f \in Frame /\ counter'[f] = Cardinality(Unreported)
  BY <1>4, <1>6 DEF Early, Count
<1>9. Early(f)'
  BY <1>3, <1>4, <1>5, <1>7, <1>8, FrontStep
<1> QED BY <1>2, <1>9

\* A branch that has started pushes a frame of its own: it is held back.
LEMMA TaskEarly ==
  ASSUME TypeInv, OwnPlain, NEW f, Early(f), NEW b \in Branch, Raise(b) \/ emit(<<b, "task">>)
  PROVE  out' = out /\ Early(f)'
<1> DEFINE g == <<b, "task">>
<1>1. g \in Goroutines /\ GoOK
  BY Parts DEF Lane
<1>2. Side(b, f) /\ Reach /\ Count(f)
  BY DEF Early
<1>3. CASE Raise(b)
  <2>1. PICK h \in Own[b] \cap unsent : Take(g, "body", h)
    BY <1>3 DEF Raise
  <2>2. ~isLifecycle(h) /\ node[b].started /\ UNCHANGED <<node, gateVars, ppVars, out>>
    BY <1>3, <2>1 DEF OwnPlain, Raise
  <2>3. OnlyMoves(g) /\ go'[g].pc = "body" /\ go'[g].frame = h
    BY <1>1, <2>1 DEF Take, GoOK, OnlyMoves, Idle
  <2>4. Early(f)'
    BY <2>2, <2>3, TaskStep DEF gateVars, ppVars
  <2> QED BY <2>2, <2>4
<1>4. CASE emit(g)
  <2>1. go[g].pc = "body" /\ ~isLifecycle(go[g].frame) /\ node[b].started
    BY <1>2, <1>4 DEF emit, Side
  <2>2. Armed /\ syncing
    BY <1>2, <2>1 DEF Reach, Count, Fresh
  <2>3. Done(g) /\ UNCHANGED <<node, gateVars, counter, syncing, out>>
        /\ seen' = seen \cup {go[g].frame}
    BY <1>4, <2>2 DEF emit
  <2>4. OnlyMoves(g) /\ go'[g].pc = "idle"
    BY <1>1, <2>3, DoneMoves
  <2>5. \A h \in seen' : isStartFrame(h) => h \in seen
    BY <2>1, <2>3 DEF isLifecycle, isStartFrame
  <2>6. Early(f)'
    BY <2>3, <2>4, <2>5, TaskStep DEF gateVars
  <2> QED BY <2>3, <2>6
<1> QED BY <1>3, <1>4

\* The frames that have left stay as they are.
LEMMA OutGrows ==
  ASSUME TypeInv, [Next]_vars
  PROVE  out' = out \/ \E x \in Frame : out' = Append(out, x)
<1>1. CASE UNCHANGED vars
  BY <1>1 DEF vars
<1>2. ASSUME NEW g \in Goroutines, FanOutStep(g) \/ SinkStep(g)
      PROVE  out' = out \/ \E x \in Frame : out' = Append(out, x)
  <2>1. /\ go[g].pc # "idle" => go[g].frame \in Frame
        /\ go[g].pc = "pushBuffered" => go[g].item \in Frame
    BY DEF TypeInv, HandOK
  <2>2. CASE Push(g) \/ PushBuffered(g) \/ PushSynchronized(g)
    BY <2>1, <2>2 DEF Push, PushBuffered, PushSynchronized
  <2>3. CASE FanOutStep(g)
    BY <2>3 DEF FanOutStep, Arm, PauseSystem, PauseFrames, FanOut
  <2>4. CASE emit(g) \/ sinkPush(g) \/ flushBuffered(g) \/ emitSynchronized(g)
             \/ ResumeSystem(g) \/ ResumeFrames(g)
    BY <2>4 DEF emit, sinkPush, flushBuffered, emitSynchronized, ResumeSystem, ResumeFrames
  <2> QED BY <1>2, <2>2, <2>3, <2>4 DEF SinkStep
<1>3. ASSUME \/ \E f \in Frame : QueueFrame(f)
             \/ \E b \in Branch : Raise(b) \/ Consume(b)
             \/ \E p \in Node : NodeStep(p)
      PROVE  out' = out
  BY <1>3, NodeStepFrame DEF QueueFrame, Raise, Consume
<1> QED BY <1>1, <1>2, <1>3, NextSteps

\* A node's input queue changes only by a push or by a get.
LEMMA InputQueueSteps ==
  ASSUME TypeInv, [Next]_vars, NEW p \in Node
  PROVE  \/ node'[p].inputQueue = node[p].inputQueue
         \/ \E f \in Frame : node'[p].inputQueue = push(node[p].inputQueue, f)
         \/ ~isEmpty(node[p].inputQueue) /\ node'[p].inputQueue = get(node[p].inputQueue)
<1>1. /\ node \in [Node -> NodeType] /\ 0 \in Node /\ Branch \subseteq Node
      /\ \A q \in Node : node[q] \in NodeType
  BY Parts DEF TypeInv, TypeOK
<1>2. CASE node' = node
  BY <1>2
<1>3. ASSUME NEW q \in Node, NEW f \in Frame, Accept(q, f)
      PROVE  \/ node'[p].inputQueue = node[p].inputQueue
             \/ node'[p].inputQueue = push(node[p].inputQueue, f)
  BY <1>1, <1>3 DEF Accept, NodeType
<1>4. ASSUME NEW q \in Node, NodeStep(q)
      PROVE  \/ node'[p].inputQueue = node[p].inputQueue
             \/ ~isEmpty(node[p].inputQueue) /\ node'[p].inputQueue = get(node[p].inputQueue)
  <2>1. CASE HandOn(q)
    <3>1. PICK a : node' = [node EXCEPT ![q].inputQueue = get(@), ![q].procQueue = a]
      BY <2>1 DEF HandOn
    <3>2. ~isEmpty(node[q].inputQueue)
      BY <2>1 DEF HandOn, InputReady
    <3> QED BY <1>1, <3>1, <3>2 DEF NodeType
  <2>2. CASE TakeSystem(q)
    BY <1>1, <2>2 DEF TakeSystem, InputReady, NodeType
  <2>3. CASE HandleStart(q) \/ HandleCancel(q)
    BY <1>1, <2>3 DEF HandleStart, HandleCancel, NodeType
  <2>4. CASE Join(q)
    <3>1. node' = node \/ \E a : node' = [node EXCEPT ![q].running = TRUE, ![q].procQueue = a]
      BY <2>4 DEF Join
    <3> QED BY <1>1, <3>1 DEF NodeType
  <2>5. CASE HandleInterruption(q)
    <3>1. \/ \E a : node' = [node EXCEPT ![q].procQueue = a]
          \/ node' = [node EXCEPT ![q].running = FALSE]
      BY <2>5 DEF HandleInterruption
    <3> QED BY <1>1, <3>1 DEF NodeType
  <2>6. CASE TakeFrame(q)
    <3>1. \E a : node' = [node EXCEPT ![q].procQueue = a]
      BY <2>6 DEF TakeFrame
    <3> QED BY <1>1, <3>1 DEF NodeType
  <2>7. CASE Gate \/ GiveBack
    <3>1. node' = node \/ \E a : node' = [node EXCEPT ![0].procQueue = a]
      BY <2>7 DEF Gate, GiveBack
    <3> QED BY <1>1, <3>1 DEF NodeType
  <2> QED BY <1>4, <2>1, <2>2, <2>3, <2>4, <2>5, <2>6, <2>7 DEF NodeStep
<1>5. ASSUME NEW g \in Goroutines, FanOutStep(g)
      PROVE  node' = node \/ \E q \in Node, f \in Frame : Accept(q, f)
  <2>1. CASE FanOut(g)
    <3>1. go[g].next \in Node /\ go[g].frame \in Frame
      BY <1>1, <2>1 DEF FanOut, TypeInv, TypeOK, HandOK, GoroutineType
    <3> QED BY <2>1, <3>1 DEF FanOut
  <2> QED BY <1>5, <2>1 DEF FanOutStep, Arm, PauseSystem, PauseFrames
<1>6. ASSUME NEW g \in Goroutines, SinkStep(g) PROVE node' = node
  BY <1>6 DEF SinkStep, emit, Push, sinkPush, flushBuffered, PushBuffered,
              emitSynchronized, PushSynchronized, ResumeSystem, ResumeFrames
<1>7. ASSUME \/ UNCHANGED vars \/ \E b \in Branch : Raise(b) \/ Consume(b) PROVE node' = node
  BY <1>7 DEF vars, Raise, Consume
<1>8. ASSUME NEW f \in Frame, QueueFrame(f) PROVE Accept(0, f)
  BY <1>8 DEF QueueFrame
<1> QED BY <1>1, <1>2, <1>3, <1>4, <1>5, <1>6, <1>7, <1>8, NextSteps

\* No frame has been queued: every branch waits for the StartFrame.
LEMMA LeadInit == Init => LeadInv
<1> SUFFICES ASSUME Init PROVE LeadInv
  OBVIOUS
<1>1. /\ 0 \in Node /\ Branch \subseteq Node
      /\ \A p \in Node, l \in Lane : <<p, l>> \in Goroutines
  BY ParallelAssumption, LaneIn DEF Node, Branch
<1>2. \A p \in Node : /\ node[p].inputQueue = newQueue /\ node[p].procQueue = newQueue
                      /\ ~node[p].started
                      /\ go[<<p, "input">>].pc = "idle" /\ go[<<p, "process">>].pc = "idle"
                      /\ go[<<p, "task">>].pc = "idle"
  BY <1>1 DEF Init, NewNode, Idle, Lane
<1>3. /\ isEmpty(newQueue) /\ newQueue.start = <<>> /\ newQueue.system = <<>>
      /\ newQueue.other = <<>> /\ OnlyStarts(newQueue)
  BY DEF isEmpty, newQueue, OnlyStarts
<1>4. seen = {} /\ out = <<>>
  BY DEF Init
<1>5. Front(NoFrame) /\ ~Armed
  BY <1>1, <1>2, <1>3 DEF Front, Armed, In
<1>6. \A b \in Branch : Fresh(b) /\ ~Last(b) /\ Side(b, NoFrame)
  BY <1>1, <1>2, <1>3 DEF Fresh, Last, Side, In
<1>7. Early(NoFrame)
  BY <1>4, <1>5, <1>6 DEF Early, Reach, Count
<1> QED BY <1>2, <1>3, <1>4, <1>7 DEF LeadInv, StartLeads

\* Every step keeps the StartFrame in front.
LEMMA LeadNext == OwnPlain /\ TypeInv /\ LeadInv /\ [Next]_vars => LeadInv'
<1> SUFFICES ASSUME OwnPlain, TypeInv, LeadInv, [Next]_vars PROVE LeadInv'
  OBVIOUS
<1>1. \A p \in Node : OnlyStarts(node'[p].inputQueue)
  <2> SUFFICES ASSUME NEW p \in Node PROVE OnlyStarts(node'[p].inputQueue)
    OBVIOUS
  <2>1. node[p].inputQueue \in Queue /\ OnlyStarts(node[p].inputQueue)
    BY Parts DEF LeadInv
  <2> QED BY <2>1, InputQueueSteps, StartTier
<1>2. CASE out # <<>>
  <2>1. out \in Seq(Frame) /\ Len(out) \in Nat \ {0} /\ 1 \in 1..Len(out)
    BY <1>2 DEF TypeInv, TypeOK
  <2>2. ASSUME NEW x \in Frame, out' = Append(out, x) PROVE out' # <<>> /\ out'[1] = out[1]
    BY <2>1, <2>2, AppendTo
  <2>3. out' # <<>> /\ out'[1] = out[1]
    BY <1>2, <2>2, OutGrows
  <2> QED BY <1>1, <1>2, <2>3 DEF LeadInv, StartLeads
<1>3. CASE out = <<>> /\ UNCHANGED vars
  <2>1. PICK f \in Frame \cup {NoFrame} : Early(f)
    BY <1>3 DEF LeadInv
  <2>2. UNCHANGED <<node, go, seen, counter, syncing, heldSystem>>
    BY <1>3 DEF vars, gateVars, ppVars
  <2>3. /\ Unreported' = Unreported /\ Armed' = Armed /\ \A p \in Node : In(p)' = In(p)
        /\ \A b \in Branch : (Fresh(b)' <=> Fresh(b)) /\ (Last(b)' <=> Last(b))
    BY <2>2 DEF Unreported, Armed, Fresh, Last, In
  <2>4. 0 \in Node /\ Branch \subseteq Node
    BY Parts
  <2>5. Front(f)' /\ Reach' /\ Count(f)'
    BY <2>1, <2>2, <2>3, <2>4 DEF Early, Front, Reach, Count
  <2>6. \A b \in Branch : Side(b, f)'
    BY <2>1, <2>2, <2>3, <2>4 DEF Early, Side
  <2>7. Early(f)'
    BY <2>5, <2>6 DEF Early
  <2> QED BY <1>1, <1>3, <2>7 DEF LeadInv, StartLeads, vars
<1>4. CASE out = <<>> /\ Next
  <2>1. PICK f \in Frame \cup {NoFrame} : Early(f)
    BY <1>4 DEF LeadInv
  <2>2. 0 \in Node /\ Branch \subseteq Node /\ \A p \in Node : OnlyStarts(node[p].inputQueue)
    BY Parts DEF LeadInv
  <2>3. (out' = <<>> => \E h \in Frame \cup {NoFrame} : Early(h)') /\ StartLeads'
    <3>1. ASSUME NEW h \in Frame, QueueFrame(h) PROVE out' = out /\ Early(f)'
      BY <2>1, <3>1, QueueEarly
    <3>2. ASSUME NEW b \in Branch, Raise(b) \/ emit(<<b, "task">>) PROVE out' = out /\ Early(f)'
      BY <2>1, <3>2, TaskEarly
    <3>3. ASSUME NEW b \in Branch,
                 \/ TakeSystem(b) \/ HandleStart(b) \/ sinkPush(<<b, "input">>)
                 \/ emitSynchronized(<<b, "input">>) \/ PushSynchronized(<<b, "input">>)
          PROVE  (out' = <<>> => Early(f)') /\ StartLeads'
      BY <1>4, <2>1, <2>2, <3>3, BranchEarly
    <3>4. ASSUME TakeSystem(0) \/ HandleStart(0) \/ FanOutStep(<<0, "input">>)
          PROVE  out' = out /\ \E h \in Frame \cup {NoFrame} : Early(h)'
      BY <2>1, <2>2, <3>4, FrontEarly, FanOutEarly DEF FanOutStep
    <3>5. out' = out => StartLeads'
      BY <1>4 DEF StartLeads
    <3> QED BY <1>4, <2>1, <2>2, <3>1, <3>2, <3>3, <3>4, <3>5, EarlySteps
  <2> QED BY <1>1, <2>3 DEF LeadInv
<1> QED BY <1>2, <1>3, <1>4

\* Of any number of branches, none of which pushes a lifecycle frame of its own,
\* the StartFrame leaves first, however far ahead of the others one branch is
\* and whatever it pushes meanwhile (sinkPush, emit, syncing, the gates).
THEOREM StartLeadsHolds == OwnPlain => (Spec => []StartLeads)
<1>1. LeadInv => StartLeads
  BY DEF LeadInv
<1>2. SUFFICES ASSUME OwnPlain PROVE Spec => []StartLeads
  OBVIOUS
<1>3. TypeInv /\ LeadInv /\ [Next]_vars => LeadInv'
  BY <1>2, LeadNext
<1> QED BY <1>1, <1>3, TypeInit, TypeNext, LeadInit, PTL DEF Spec

-----------------------------------------------------------------------------
(***************************************************************************)
(* One release at a time.  The argument has four parts.                    *)
(*                                                                         *)
(* PcInv: what a goroutine may be doing, by its node and its lane.         *)
(***************************************************************************)
Pr(p) == go[<<p, "process">>]

Fanning == {"pauseSystem", "pauseFrames", "fanOut"}
Release == {"synchronized", "flush", "pushBuffered", "pushSynchronized"}
Resume  == {"resumeSystem", "resumeFrames"}

PcOK(g) ==
    /\ g[1] = 0 => go[g].pc \in {"idle", "handle", "join", "gate", "body"} \cup Fanning
    /\ g[1] \in Branch => go[g].pc \in {"idle", "handle", "join", "body", "push"} \cup Release \cup Resume
    /\ go[g].pc \in {"pauseSystem", "pauseFrames"} \cup Release \cup Resume => isLifecycle(go[g].frame)
    /\ g[2] # "input" => go[g].pc \notin {"handle", "join"}
    /\ g[2] = "task" => /\ go[g].pc \in {"idle", "body", "push"}
                        /\ g[1] = 0 => go[g].pc = "idle"
                        /\ go[g].pc # "idle" => ~isLifecycle(go[g].frame)
    /\ go[g].pc # "fanOut" => go[g].next = 1

PcInv == \A g \in Goroutines : PcOK(g)

(***************************************************************************)
(* PlaceInv: a frame is at one place of a node, and it is at a branch only *)
(* once the parallel pipeline has queued it there.                         *)
(***************************************************************************)
Frames(q) == FramesOf(q.start) \cup FramesOf(q.system) \cup FramesOf(q.other)

Apart(q) == /\ Tiered(q) /\ FramesOf(q.start) \cap FramesOf(q.system) = {}
            /\ Distinct(q.start) /\ Distinct(q.system) /\ Distinct(q.other)

Held(p, l) == IF go[<<p, l>>].pc = "idle" THEN {} ELSE {go[<<p, l>>].frame}

Placed(p) ==
    LET i == Frames(node[p].inputQueue)
        q == Frames(node[p].procQueue)
    IN  /\ Apart(node[p].inputQueue) /\ Apart(node[p].procQueue)
        /\ i \cap q = {} /\ Held(p, "input") \cap Held(p, "process") = {}
        /\ (i \cup q) \cap (Held(p, "input") \cup Held(p, "process")) = {}
        /\ \A f \in Held(p, "input") : isSystemFrame(f)
        /\ \A f \in q \cup Held(p, "process") : ~isSystemFrame(f)

Present(p) == Frames(node[p].inputQueue) \cup Frames(node[p].procQueue)
                \cup Held(p, "input") \cup Held(p, "process")

\* What the parallel pipeline has still to queue at branch b.
Ahead(b) == Frames(node[0].inputQueue) \cup Frames(node[0].procQueue)
              \cup (IF b >= In(0).next THEN Held(0, "input") ELSE {})
              \cup (IF b >= Pr(0).next THEN Held(0, "process") ELSE {})

PlaceInv ==
    /\ \A p \in Node : Placed(p) /\ Present(p) \cap unsent = {}
    /\ \A b \in Branch : Present(b) \cap Ahead(b) = {}

(***************************************************************************)
(* CountInv: counter[f] is at least the number of the branches that may    *)
(* still report f, so that none may when f is released.                    *)
(***************************************************************************)
Pending(b, f) ==
    \/ f \in Frames(node[b].inputQueue) \cup Frames(node[b].procQueue)
    \/ \E l \in {"input", "process"} :
           go[<<b, l>>].frame = f /\ go[<<b, l>>].pc \in {"handle", "join", "body"}

ToFan(b, f) == \E l \in {"input", "process"} :
    go[<<0, l>>].frame = f /\ go[<<0, l>>].pc \in Fanning /\ b >= go[<<0, l>>].next

Owes(f) == {b \in Branch : Pending(b, f) \/ ToFan(b, f)}

CountInv ==
    /\ \A f \in Frame : isLifecycle(f) => counter[f] >= Cardinality(Owes(f))
    /\ \A g \in Releasing : Owes(go[g].frame) = {}
    /\ \A g, h \in Releasing : go[g].frame = go[h].frame => g = h

(***************************************************************************)
(* PhaseInv.  Until the StartFrame has left, it is the only frame past the *)
(* gates (Early) and no branch is canceled; while the buffer is flushed    *)
(* behind it, all else is still; from then on there is no StartFrame and   *)
(* the branch that a CancelFrame has got to handles nothing after it.      *)
(***************************************************************************)
NoCancel == \A b \in Branch : ~node[b].canceling

Flushing(b) ==
    /\ In(b).pc \in {"flush", "pushBuffered"} /\ isStartFrame(In(b).frame)
    /\ heldSystem /\ In(0).pc = "idle" /\ Pr(0).pc = "idle" /\ isEmpty(node[0].procQueue)
    /\ NoCancel
    /\ \A x \in Branch : /\ isEmpty(node[x].inputQueue) /\ isEmpty(node[x].procQueue)
                         /\ Pr(x).pc = "idle" /\ (x # b => In(x).pc = "idle")

Gone(f) == /\ f \notin unsent /\ f \notin Present(0)
           /\ \A b \in Branch : ~Pending(b, f)
           /\ \A g \in Releasing : go[g].frame # f

\* A CancelFrame that is at a branch has got to all, or will.
Covers(f) == (f \in Held(0, "input") /\ In(0).pc \in Fanning) \/ (\E b \in Branch : f \in Present(b)) =>
                 \A b \in Branch : node[b].canceling \/ ToFan(b, f)

CancelsNow(b) == In(b).pc # "idle" /\ Kind[In(b).frame] = "cancel"

Canceled(b) ==
    LET s == node[b].inputQueue.system
    IN  \/ s # <<>> /\ Kind[s[Len(s)]] = "cancel"
        \/ s = <<>> /\ CancelsNow(b) /\ In(b).pc = "handle"
        \/ s = <<>> /\ CancelsNow(b) /\ In(b).pc = "join" /\ ~node[b].running
        \/ /\ s = <<>> /\ ~node[b].running /\ Pr(b).pc = "idle"
           /\ In(b).pc = "idle" \/ (CancelsNow(b) /\ In(b).pc \notin {"handle", "join"})

Running ==
    /\ \A f \in Frame : isStartFrame(f) => Gone(f)
    /\ \A f \in Frame : Kind[f] = "cancel" => Covers(f)
    /\ \A b \in Branch : node[b].canceling => Canceled(b)

PhaseInv == (out = <<>> /\ NoCancel) \/ (\E b \in Branch : Flushing(b)) \/ Running

\* A run of the pipeline carries at most one StartFrame, one EndFrame and one
\* CancelFrame.
OneEach == \A f, x \in Frame : isLifecycle(f) /\ Kind[f] = Kind[x] => f = x

\* What a goroutine is after it has moved on, gone idle or taken up a frame.
LEMMA Fields ==
  ASSUME GoOK, NEW g \in Goroutines
  PROVE  /\ \A pc : Goto(g, pc) => /\ OnlyMoves(g) /\ go'[g].pc = pc
                                   /\ go'[g].frame = go[g].frame /\ go'[g].next = go[g].next
         /\ Done(g) => OnlyMoves(g) /\ go'[g].pc = "idle" /\ go'[g].next = 1
         /\ \A pc, f : Take(g, pc, f) => /\ OnlyMoves(g) /\ go'[g].pc = pc
                                         /\ go'[g].frame = f /\ go'[g].next = 1
<1>1. go[g] \in GoroutineType
  BY DEF GoOK
<1>2. ASSUME NEW pc, Goto(g, pc)
      PROVE  OnlyMoves(g) /\ go'[g].pc = pc /\ go'[g].frame = go[g].frame /\ go'[g].next = go[g].next
  <2>1. go'[g] = [go[g] EXCEPT !.pc = pc] /\ OnlyMoves(g)
    BY <1>2 DEF Goto, GoOK, OnlyMoves
  <2> QED BY <1>1, <2>1 DEF GoroutineType
<1>3. Done(g) => OnlyMoves(g) /\ go'[g].pc = "idle" /\ go'[g].next = 1
  BY DEF Done, GoOK, OnlyMoves, Idle
<1>4. ASSUME NEW pc, NEW f, Take(g, pc, f)
      PROVE  OnlyMoves(g) /\ go'[g].pc = pc /\ go'[g].frame = f /\ go'[g].next = 1
  <2>1. go'[g] = [Idle EXCEPT !.pc = pc, !.frame = f] /\ OnlyMoves(g)
    BY <1>4 DEF Take, GoOK, OnlyMoves
  <2> QED BY <2>1 DEF Idle
<1> QED BY <1>2, <1>3, <1>4

\* One goroutine moves, and its node and lane allow what it does now.
LEMMA PcMove ==
  ASSUME PcInv, NEW g \in Goroutines, OnlyMoves(g), PcOK(g)'
  PROVE  PcInv'
<1>1. ASSUME NEW h \in Goroutines, h # g PROVE PcOK(h)'
  <2>1. go'[h] = go[h] /\ PcOK(h)
    BY <1>1 DEF OnlyMoves, PcInv
  <2> QED BY <2>1 DEF PcOK
<1> QED BY <1>1 DEF PcInv

\* Nothing moves before the StartFrame.
LEMMA PcInit == Init => PcInv
<1> SUFFICES ASSUME Init, NEW g \in Goroutines PROVE PcOK(g)
  BY DEF PcInv
<1>1. go[g].pc = "idle" /\ go[g].next = 1
  BY DEF Init, Idle
<1> QED BY <1>1 DEF PcOK, Release, Resume, Fanning

\* A node's own steps.
LEMMA PcNode ==
  ASSUME TypeInv, PcInv, NEW p \in Node, NodeStep(p)
  PROVE  PcInv'
<1> DEFINE i == <<p, "input">>
           l == <<p, "process">>
<1>1. /\ GoOK /\ i \in Goroutines /\ l \in Goroutines /\ i[1] = p /\ i[2] = "input"
      /\ l[1] = p /\ l[2] = "process" /\ 0 \notin Branch /\ (p = 0 \/ p \in Branch)
  <2>1. GoOK /\ i \in Goroutines /\ l \in Goroutines
    BY Parts DEF Lane
  <2>2. 0 \notin Branch /\ (p = 0 \/ p \in Branch)
    BY ParallelAssumption DEF Node, Branch
  <2> QED BY <2>1, <2>2
<1>2. PcOK(i) /\ PcOK(l)
  BY <1>1 DEF PcInv
<1> USE DEF PcOK, Release, Resume, Fanning
<1>3. CASE HandOn(p)
  BY <1>3 DEF HandOn, PcInv
<1>4. CASE TakeSystem(p)
  <2>1. OnlyMoves(i) /\ go'[i].pc = "handle" /\ go'[i].next = 1
    BY <1>1, <1>4, Fields DEF TakeSystem
  <2>2. PcOK(i)'
    BY <1>1, <2>1
  <2> QED BY <1>1, <2>1, <2>2, PcMove
<1>5. CASE HandleStart(p) \/ HandleCancel(p) \/ HandleInterruption(p) \/ Join(p)
  <2>1. PICK pc \in {"body", "join"} : Goto(i, pc) /\ go[i].pc \in {"handle", "join"}
    BY <1>5 DEF HandleStart, HandleCancel, HandleInterruption, Handles, Join
  <2>2. OnlyMoves(i) /\ go'[i].pc = pc /\ go'[i].next = 1
    BY <1>1, <1>2, <2>1, Fields
  <2>3. PcOK(i)'
    BY <1>1, <2>1, <2>2
  <2> QED BY <1>1, <2>2, <2>3, PcMove
<1>6. CASE TakeFrame(p)
  <2>1. PICK pc, f : Take(l, pc, f) /\ pc = IF p = 0 THEN "gate" ELSE "body"
    BY <1>6 DEF TakeFrame
  <2>2. OnlyMoves(l) /\ go'[l].pc = pc /\ go'[l].next = 1
    BY <1>1, <2>1, Fields
  <2>3. PcOK(l)'
    BY <1>1, <2>1, <2>2
  <2> QED BY <1>1, <2>2, <2>3, PcMove
<1>7. CASE p = 0 /\ Gate
  <2>1. Goto(l, "body") /\ go[l].pc = "gate"
    BY <1>7 DEF Gate
  <2>2. OnlyMoves(l) /\ go'[l].pc = "body" /\ go'[l].next = 1
    BY <1>1, <1>2, <2>1, Fields
  <2>3. PcOK(l)'
    BY <1>1, <1>7, <2>2
  <2> QED BY <1>1, <2>2, <2>3, PcMove
<1>8. CASE p = 0 /\ GiveBack
  <2>1. Done(l)
    BY <1>8 DEF GiveBack
  <2>2. OnlyMoves(l) /\ go'[l].pc = "idle" /\ go'[l].next = 1
    BY <1>1, <2>1, Fields
  <2>3. PcOK(l)'
    BY <1>1, <2>2
  <2> QED BY <1>1, <2>2, <2>3, PcMove
<1> QED BY <1>3, <1>4, <1>5, <1>6, <1>7, <1>8 DEF NodeStep

\* The steps of the fan-out and of the merge.
LEMMA PcGo ==
  ASSUME TypeInv, PcInv, NEW g \in Goroutines, FanOutStep(g) \/ SinkStep(g)
  PROVE  PcInv'
<1>1. /\ GoOK /\ 0 \notin Branch /\ (g[1] = 0 \/ g[1] \in Branch)
  BY Parts DEF Goroutines, Node, Branch
<1>2. PcOK(g)
  BY DEF PcInv
<1> USE DEF PcOK, Release, Resume, Fanning
<1>3. CASE Arm(g)
  <2>1. PICK pc : /\ Goto(g, pc) /\ go[g].pc = "body" /\ g[1] = 0
                  /\ pc = IF isLifecycle(go[g].frame) THEN "pauseSystem" ELSE "fanOut"
    BY <1>3 DEF Arm
  <2>2. OnlyMoves(g) /\ go'[g].pc = pc /\ go'[g].next = 1 /\ go'[g].frame = go[g].frame
    BY <1>1, <1>2, <2>1, Fields
  <2>3. PcOK(g)'
    BY <1>1, <1>2, <2>1, <2>2
  <2> QED BY <2>2, <2>3, PcMove
<1>4. CASE PauseSystem(g) \/ PauseFrames(g)
  <2>1. PICK pc : /\ Goto(g, pc) /\ go[g].pc \in {"pauseSystem", "pauseFrames"}
                  /\ pc = IF go[g].pc = "pauseSystem" THEN "pauseFrames" ELSE "fanOut"
    BY <1>4 DEF PauseSystem, PauseFrames
  <2>2. OnlyMoves(g) /\ go'[g].pc = pc /\ go'[g].next = 1 /\ go'[g].frame = go[g].frame
    BY <1>1, <1>2, <2>1, Fields
  <2>3. PcOK(g)'
    BY <1>1, <1>2, <2>1, <2>2
  <2> QED BY <2>2, <2>3, PcMove
<1>5. CASE FanOut(g)
  <2>1. CASE Done(g)
    <3>1. OnlyMoves(g) /\ go'[g].pc = "idle" /\ go'[g].next = 1
      BY <1>1, <2>1, Fields
    <3>2. PcOK(g)'
      BY <1>1, <3>1
    <3> QED BY <3>1, <3>2, PcMove
  <2>2. CASE go' = [go EXCEPT ![g].next = @ + 1]
    <3>1. OnlyMoves(g) /\ go'[g] = [go[g] EXCEPT !.next = @ + 1]
      BY <1>1, <2>2 DEF GoOK, OnlyMoves
    <3>2. go'[g].pc = "fanOut" /\ go'[g].frame = go[g].frame /\ go[g].pc = "fanOut"
      BY <1>1, <1>5, <3>1 DEF FanOut, GoOK, GoroutineType
    <3>3. PcOK(g)'
      BY <1>1, <1>2, <3>2
    <3> QED BY <3>1, <3>3, PcMove
  <2> QED BY <1>5, <2>1, <2>2 DEF FanOut
<1>6. CASE SinkStep(g)
  <2>1. CASE Done(g)
    <3>1. OnlyMoves(g) /\ go'[g].pc = "idle" /\ go'[g].next = 1
      BY <1>1, <2>1, Fields
    <3>2. PcOK(g)'
      BY <1>1, <3>1
    <3> QED BY <3>1, <3>2, PcMove
  <2>2. CASE emit(g) /\ ~Done(g)
    <3>1. Goto(g, "push") /\ go[g].pc = "body" /\ g[1] \in Branch /\ ~isLifecycle(go[g].frame)
      BY <2>2 DEF emit
    <3>2. OnlyMoves(g) /\ go'[g].pc = "push" /\ go'[g].next = 1 /\ go'[g].frame = go[g].frame
      BY <1>1, <1>2, <3>1, Fields
    <3>3. PcOK(g)'
      BY <1>1, <1>2, <3>1, <3>2
    <3> QED BY <3>2, <3>3, PcMove
  <2>3. CASE ~emit(g) /\ ~Done(g)
    <3>1. /\ isLifecycle(go[g].frame) /\ g[1] \in Branch /\ go[g].pc \notin {"idle", "fanOut"}
          /\ OnlyMoves(g) /\ go'[g].frame = go[g].frame /\ go'[g].next = go[g].next
          /\ go'[g].pc \in Release \cup Resume
      <4>1. CASE flushBuffered(g) /\ buffered # <<>>
        <5>1. go' = [go EXCEPT ![g].pc = "pushBuffered", ![g].item = Head(buffered)] /\ go[g].pc = "flush"
          BY <4>1 DEF flushBuffered
        <5>2. OnlyMoves(g) /\ go'[g] = [go[g] EXCEPT !.pc = "pushBuffered", !.item = Head(buffered)]
          BY <1>1, <5>1 DEF GoOK, OnlyMoves
        <5> QED BY <1>1, <1>2, <5>1, <5>2 DEF GoOK, GoroutineType
      <4>2. CASE PushBuffered(g)
        <5>1. go' = [go EXCEPT ![g].pc = "flush", ![g].item = NoFrame] /\ go[g].pc = "pushBuffered"
          BY <4>2 DEF PushBuffered
        <5>2. OnlyMoves(g) /\ go'[g] = [go[g] EXCEPT !.pc = "flush", !.item = NoFrame]
          BY <1>1, <5>1 DEF GoOK, OnlyMoves
        <5> QED BY <1>1, <1>2, <5>1, <5>2 DEF GoOK, GoroutineType
      <4>3. CASE ~(flushBuffered(g) /\ buffered # <<>>) /\ ~PushBuffered(g)
        <5>1. PICK pc \in Release \cup Resume :
                 /\ Goto(g, pc) /\ isLifecycle(go[g].frame) /\ g[1] \in Branch
                 /\ go[g].pc \notin {"idle", "fanOut"}
          BY <1>1, <1>2, <1>6, <2>3, <4>3
          DEF SinkStep, sinkPush, flushBuffered, emitSynchronized, PushSynchronized,
              ResumeSystem, ResumeFrames, Push, afterReport, afterFlush, afterSync
        <5> QED BY <1>1, <5>1, Fields
      <4> QED BY <4>1, <4>2, <4>3
    <3>2. PcOK(g)'
      BY <1>1, <1>2, <3>1
    <3> QED BY <3>1, <3>2, PcMove
  <2> QED BY <2>1, <2>2, <2>3
<1> QED BY <1>3, <1>4, <1>5, <1>6 DEF FanOutStep

\* Every step keeps it.
LEMMA PcNext == OwnPlain /\ TypeInv /\ PcInv /\ [Next]_vars => PcInv'
<1> SUFFICES ASSUME OwnPlain, TypeInv, PcInv, [Next]_vars PROVE PcInv'
  OBVIOUS
<1>1. /\ GoOK /\ \A p \in Node, l \in Lane : <<p, l>> \in Goroutines
      /\ Branch \subseteq Node /\ 0 \notin Branch
  BY Parts
<1>2. CASE go' = go
  BY <1>2 DEF PcInv, PcOK
<1>3. ASSUME NEW b \in Branch, Raise(b) \/ Consume(b) PROVE PcInv'
  <2>1. CASE Consume(b)
    <3>1. <<b, "process">> \in Goroutines /\ Done(<<b, "process">>)
      BY <1>1, <2>1 DEF Consume, Lane
    <3>2. OnlyMoves(<<b, "process">>) /\ go'[<<b, "process">>].pc = "idle" /\ go'[<<b, "process">>].next = 1
      BY <1>1, <3>1, Fields
    <3>3. PcOK(<<b, "process">>)'
      BY <3>2 DEF PcOK, Release, Resume, Fanning
    <3> QED BY <3>1, <3>2, <3>3, PcMove
  <2>2. CASE Raise(b)
    <3>1. PICK f \in Own[b] : Take(<<b, "task">>, "body", f)
      BY <2>2 DEF Raise
    <3>2. <<b, "task">> \in Goroutines /\ ~isLifecycle(f)
      BY <1>1 DEF Lane, OwnPlain
    <3>3. /\ OnlyMoves(<<b, "task">>) /\ go'[<<b, "task">>].pc = "body"
          /\ go'[<<b, "task">>].frame = f /\ go'[<<b, "task">>].next = 1
      BY <1>1, <3>1, <3>2, Fields
    <3>4. PcOK(<<b, "task">>)'
      BY <1>1, <3>2, <3>3 DEF PcOK, Release, Resume, Fanning
    <3> QED BY <3>2, <3>3, <3>4, PcMove
  <2> QED BY <1>3, <2>1, <2>2
<1>4. CASE UNCHANGED vars \/ \E f \in Frame : QueueFrame(f)
  BY <1>2, <1>4 DEF vars, QueueFrame
<1> QED BY <1>3, <1>4, NextSteps, PcNode, PcGo

\* The tiers of a queue have no frame in common.
LEMMA TiersApart ==
  ASSUME NEW q \in Queue, Tiered(q)
  PROVE  /\ \A f \in FramesOf(q.start) \cup FramesOf(q.system) : isSystemFrame(f)
         /\ \A f \in FramesOf(q.other) : ~isSystemFrame(f)
         /\ \A f \in FramesOf(q.start) : isStartFrame(f)
<1>1. \A f \in FramesOf(q.start) : isStartFrame(f)
  BY DEF FramesOf, Tiered, OnlyStarts
<1>2. \A f : isStartFrame(f) => isSystemFrame(f)
  BY DEF isStartFrame, isSystemFrame, SystemKinds
<1> QED BY <1>1, <1>2 DEF FramesOf, Tiered, OnlySystem, OnlyOther

\* A queue that holds no frame twice: one more is pushed, ...
LEMMA ApartPush ==
  ASSUME NEW q \in Queue, Apart(q), NEW f \in Frame, f \notin Frames(q)
  PROVE  Apart(push(q, f)) /\ Frames(push(q, f)) = Frames(q) \cup {f}
<1>1. q.start \in Seq(Frame) /\ q.system \in Seq(Frame) /\ q.other \in Seq(Frame)
  BY DEF Queue
<1>2. Tiered(push(q, f))
  BY PushTiers DEF Apart
<1>3. ASSUME NEW s \in Seq(Frame), Distinct(s), f \notin FramesOf(s)
      PROVE  Distinct(Append(s, f)) /\ FramesOf(Append(s, f)) = FramesOf(s) \cup {f}
  BY <1>3, DistinctAppend, AppendTo
<1>4. f \notin FramesOf(q.start) /\ f \notin FramesOf(q.system) /\ f \notin FramesOf(q.other)
  BY DEF Frames
<1>5. CASE isStartFrame(f)
  <2>1. /\ push(q, f).start = Append(q.start, f) /\ push(q, f).system = q.system
        /\ push(q, f).other = q.other
    BY <1>5 DEF push, Queue
  <2> QED BY <1>1, <1>2, <1>3, <1>4, <2>1 DEF Apart, Frames
<1>6. CASE ~isStartFrame(f) /\ isSystemFrame(f)
  <2>1. /\ push(q, f).start = q.start /\ push(q, f).system = Append(q.system, f)
        /\ push(q, f).other = q.other
    BY <1>6 DEF push, Queue
  <2> QED BY <1>1, <1>2, <1>3, <1>4, <2>1 DEF Apart, Frames
<1>7. CASE ~isStartFrame(f) /\ ~isSystemFrame(f)
  <2>1. /\ push(q, f).start = q.start /\ push(q, f).system = q.system
        /\ push(q, f).other = Append(q.other, f)
    BY <1>7 DEF push, Queue
  <2> QED BY <1>1, <1>2, <1>3, <1>4, <2>1 DEF Apart, Frames
<1> QED BY <1>5, <1>6, <1>7

\* ... the next is taken, ...
LEMMA ApartGet ==
  ASSUME NEW q \in Queue, Apart(q), ~isEmpty(q)
  PROVE  /\ Apart(get(q)) /\ Frames(get(q)) = Frames(q) \ {head(q)} /\ head(q) \in Frames(q)
<1>1. q.start \in Seq(Frame) /\ q.system \in Seq(Frame) /\ q.other \in Seq(Frame)
  BY DEF Queue
<1>2. Tiered(get(q)) /\ Tiered(q)
  BY GetTiers DEF Apart
<1>3. /\ FramesOf(q.start) \cap FramesOf(q.system) = {}
      /\ FramesOf(q.start) \cap FramesOf(q.other) = {}
      /\ FramesOf(q.system) \cap FramesOf(q.other) = {}
  BY <1>2, TiersApart DEF Apart
<1>4. ASSUME NEW s \in Seq(Frame), s # <<>>, Distinct(s)
      PROVE  Distinct(Tail(s)) /\ FramesOf(Tail(s)) = FramesOf(s) \ {Head(s)} /\ Head(s) \in FramesOf(s)
  BY <1>4, DistinctTail
<1>5. CASE startsNext(q)
  <2>1. /\ get(q).start = Tail(q.start) /\ get(q).system = q.system
        /\ get(q).other = q.other /\ head(q) = Head(q.start) /\ q.start # <<>>
    BY <1>5 DEF get, head, startsNext, Queue
  <2> QED BY <1>1, <1>2, <1>3, <1>4, <2>1 DEF Apart, Frames
<1>6. CASE systemNext(q)
  <2>1. /\ get(q).start = q.start /\ get(q).system = Tail(q.system)
        /\ get(q).other = q.other /\ head(q) = Head(q.system) /\ q.system # <<>>
    BY <1>6 DEF get, head, systemNext, startsNext, Queue
  <2> QED BY <1>1, <1>2, <1>3, <1>4, <2>1 DEF Apart, Frames
<1>7. CASE ~startsNext(q) /\ ~systemNext(q)
  <2>1. /\ get(q).start = q.start /\ get(q).system = q.system
        /\ get(q).other = Tail(q.other) /\ head(q) = Head(q.other) /\ q.other # <<>>
    BY <1>7 DEF get, head, systemNext, startsNext, isEmpty, Queue
  <2> QED BY <1>1, <1>2, <1>3, <1>4, <2>1 DEF Apart, Frames
<1> QED BY <1>5, <1>6, <1>7

\* ... one is given back, or the queue is reset.
LEMMA ApartOther ==
  ASSUME NEW q \in Queue, Apart(q)
  PROVE  /\ \A f \in Frame : f \notin Frames(q) /\ ~isSystemFrame(f) =>
                Apart(requeue(q, f)) /\ Frames(requeue(q, f)) = Frames(q) \cup {f}
         /\ Apart(reset(q)) /\ Frames(reset(q)) \subseteq Frames(q)
<1>1. q.other \in Seq(Frame) /\ Tiered(q)
  BY DEF Queue, Apart
<1>2. ASSUME NEW f \in Frame, f \notin Frames(q), ~isSystemFrame(f)
      PROVE  Apart(requeue(q, f)) /\ Frames(requeue(q, f)) = Frames(q) \cup {f}
  <2>1. /\ Tiered(requeue(q, f)) /\ requeue(q, f).other = <<f>> \o q.other
        /\ requeue(q, f).start = q.start /\ requeue(q, f).system = q.system
    BY <1>1, <1>2, OtherTiers
  <2>2. Distinct(<<f>> \o q.other) /\ FramesOf(<<f>> \o q.other) = FramesOf(q.other) \cup {f}
    BY <1>1, <1>2, DistinctRequeue DEF Frames, Apart
  <2> QED BY <2>1, <2>2 DEF Apart, Frames
<1>3. Apart(reset(q)) /\ Frames(reset(q)) \subseteq Frames(q)
  <2>1. /\ Tiered(reset(q)) /\ reset(q).other = keep(q.other)
        /\ reset(q).start = q.start /\ reset(q).system = q.system
    BY <1>1, OtherTiers
  <2>2. Distinct(keep(q.other)) /\ FramesOf(keep(q.other)) \subseteq FramesOf(q.other)
    BY <1>1, DistinctKeep, KeepProperties DEF Apart
  <2> QED BY <2>1, <2>2 DEF Apart, Frames
<1> QED BY <1>2, <1>3

\* Node p alone changes, with one of its goroutines, and its frames stay where
\* they are or change places.
LEMMA PlaceMove ==
  ASSUME TypeInv, TypeInv', PlaceInv, NEW p \in Node, NEW l \in {"input", "process"},
         OnlyMoves(<<p, l>>), \A x \in Node : x # p => node'[x] = node[x], unsent' = unsent,
         Placed(p)', go[<<p, l>>].next = 1,
         Frames(node'[p].inputQueue) \cup Frames(node'[p].procQueue) \cup Held(p, l)'
           \subseteq Frames(node[p].inputQueue) \cup Frames(node[p].procQueue) \cup Held(p, l)
  PROVE  PlaceInv'
<1>1. /\ 0 \in Node /\ 0 \notin Branch /\ Branch \subseteq Node
      /\ \A x \in Node, m \in Lane : <<x, m>> \in Goroutines
  BY Parts
<1>2. \A x \in Node, m \in {"input", "process"} :
          (x # p \/ m # l) => go'[<<x, m>>] = go[<<x, m>>]
  BY <1>1 DEF OnlyMoves, Lane
<1>3. \A x \in Node, m \in {"input", "process"} : (x # p \/ m # l) => Held(x, m)' = Held(x, m)
  BY <1>2 DEF Held
<1>4. ASSUME NEW x \in Node, x # p
      PROVE  (Placed(x)' <=> Placed(x)) /\ Present(x)' = Present(x)
  <2>1. node'[x] = node[x] /\ Held(x, "input")' = Held(x, "input") /\ Held(x, "process")' = Held(x, "process")
    BY <1>3, <1>4
  <2> QED BY <2>1 DEF Placed, Present
<1>5. Present(p)' \subseteq Present(p)
  <2>1. CASE l = "input"
    BY <1>3, <2>1 DEF Present
  <2>2. CASE l = "process"
    BY <1>3, <2>2 DEF Present
  <2> QED BY <2>1, <2>2
<1>6. ASSUME NEW b \in Branch PROVE Ahead(b)' \subseteq Ahead(b)
  <2>1. CASE p # 0
    <3>1. /\ node'[0] = node[0] /\ Held(0, "input")' = Held(0, "input") /\ In(0)' = In(0)
          /\ Held(0, "process")' = Held(0, "process") /\ Pr(0)' = Pr(0)
      BY <1>1, <1>2, <1>3, <2>1 DEF In, Pr
    <3> QED BY <3>1 DEF Ahead
  <2>2. CASE p = 0 /\ l = "input"
    <3>1. b >= In(0).next
      BY <2>2 DEF In, Branch
    <3>2. Held(0, "process")' = Held(0, "process") /\ Pr(0)' = Pr(0)
      BY <1>1, <1>2, <1>3, <2>2 DEF Pr
    <3> QED BY <2>2, <3>1, <3>2 DEF Ahead
  <2>3. CASE p = 0 /\ l = "process"
    <3>1. b >= Pr(0).next
      BY <2>3 DEF Pr, Branch
    <3>2. Held(0, "input")' = Held(0, "input") /\ In(0)' = In(0)
      BY <1>1, <1>2, <1>3, <2>3 DEF In
    <3> QED BY <2>3, <3>1, <3>2 DEF Ahead
  <2> QED BY <2>1, <2>2, <2>3
<1>7. \A x \in Node : Placed(x)' /\ Present(x)' \subseteq Present(x)
  BY <1>4, <1>5 DEF PlaceInv
<1> QED BY <1>1, <1>6, <1>7 DEF PlaceInv

\* A goroutine moves on with its frame, or is done with it.
LEMMA PlaceStay ==
  ASSUME TypeInv, TypeInv', PcInv, PlaceInv, NEW g \in Goroutines, OnlyMoves(g), node' = node,
         unsent' = unsent, go[g].pc \notin {"idle", "fanOut"},
         go'[g].pc = "idle" \/ go'[g].frame = go[g].frame
  PROVE  PlaceInv'
<1>1. PICK p \in Node, l \in Lane : g = <<p, l>>
  BY DEF Goroutines
<1>2. /\ 0 \in Node /\ 0 \notin Branch /\ Branch \subseteq Node
      /\ \A x \in Node, m \in Lane : <<x, m>> \in Goroutines
  BY Parts
<1>3. CASE l = "task"
  <2>1. \A x \in Node : /\ go'[<<x, "input">>] = go[<<x, "input">>]
                        /\ go'[<<x, "process">>] = go[<<x, "process">>]
    BY <1>1, <1>2, <1>3 DEF OnlyMoves, Lane
  <2>2. \A x \in Node : /\ Held(x, "input")' = Held(x, "input") /\ In(x)' = In(x)
                        /\ Held(x, "process")' = Held(x, "process") /\ Pr(x)' = Pr(x)
    BY <2>1 DEF Held, In, Pr
  <2>3. \A x \in Node : (Placed(x)' <=> Placed(x)) /\ Present(x)' = Present(x)
    BY <2>2 DEF Placed, Present
  <2>4. \A b \in Branch : Ahead(b)' = Ahead(b)
    BY <1>2, <2>2 DEF Ahead
  <2> QED BY <1>2, <2>3, <2>4 DEF PlaceInv
<1>4. CASE l # "task"
  <2>1. l \in {"input", "process"} /\ go[<<p, l>>].next = 1
    BY <1>1, <1>4 DEF Lane, PcInv, PcOK
  <2>2. Held(p, l)' \subseteq Held(p, l)
    BY <1>1 DEF Held
  <2>3. Placed(p)'
    <3>1. \A m \in {"input", "process"} : Held(p, m)' \subseteq Held(p, m)
      <4>1. \A m \in {"input", "process"} : m # l => go'[<<p, m>>] = go[<<p, m>>]
        BY <1>1, <1>2 DEF OnlyMoves, Lane
      <4> QED BY <2>2, <4>1 DEF Held
    <3>2. Placed(p)
      BY DEF PlaceInv
    <3> QED BY <3>1, <3>2 DEF Placed
  <2> QED BY <1>1, <2>1, <2>2, <2>3, PlaceMove
<1> QED BY <1>3, <1>4

\* Nothing is anywhere before it is queued.
LEMMA PlaceInit == Init => PlaceInv
<1> SUFFICES ASSUME Init PROVE PlaceInv
  OBVIOUS
<1>1. \A p \in Node : node[p] = NewNode
  BY DEF Init
<1>2. \A p \in Node, l \in {"input", "process"} : Held(p, l) = {}
  <2>1. \A p \in Node, l \in {"input", "process"} : <<p, l>> \in Goroutines
    BY LaneIn DEF Lane
  <2> QED BY <2>1 DEF Init, Held, Idle
<1>3. Apart(newQueue) /\ Frames(newQueue) = {}
  BY DEF Apart, Frames, newQueue, Tiered, OnlyStarts, OnlySystem, OnlyOther, Distinct, FramesOf
<1>4. \A p \in Node : Placed(p) /\ Present(p) = {}
  BY <1>1, <1>2, <1>3 DEF Placed, Present, NewNode
<1>5. Branch \subseteq Node
  BY ParallelAssumption DEF Branch, Node
<1> QED BY <1>4, <1>5 DEF PlaceInv

\* What a node's own step does with its frames.
Moves(p, l) ==
    /\ OnlyMoves(<<p, l>>)
    /\ go[<<p, l>>].pc \in {"idle", "handle", "join", "gate"}
    /\ go'[<<p, l>>].pc \in {"idle", "handle", "join", "gate", "body"}
    /\ Frames(node'[p].inputQueue) \cup Frames(node'[p].procQueue) \cup Held(p, l)'
         \subseteq Frames(node[p].inputQueue) \cup Frames(node[p].procQueue) \cup Held(p, l)

\* They change places, or are dropped.
LEMMA NodeMoves ==
  ASSUME TypeInv, TypeInv', PcInv, PlaceInv, NEW p \in Node, NodeStep(p)
  PROVE  /\ Placed(p)' /\ unsent' = unsent /\ \A x \in Node : x # p => node'[x] = node[x]
         /\ \E l \in {"input", "process"} : Moves(p, l)
<1> DEFINE i == <<p, "input">>
           l == <<p, "process">>
           q == node[p].inputQueue
           r == node[p].procQueue
<1>1. /\ GoOK /\ i \in Goroutines /\ l \in Goroutines /\ q \in Queue /\ r \in Queue
      /\ node \in [Node -> NodeType] /\ node[p] \in NodeType /\ i # l
  BY Parts DEF Lane, TypeInv, TypeOK
<1>2. Placed(p) /\ Apart(q) /\ Apart(r)
  BY DEF PlaceInv, Placed
<1>3. unsent' = unsent
  BY NodeStepFrame
<1>4. \A x \in Node : x # p => node'[x] = node[x]
  BY <1>1 DEF NodeStep, HandOn, TakeSystem, Join, HandleStart, HandleCancel, HandleInterruption,
     Handles, TakeFrame, Gate, GiveBack
<1>6. CASE HandOn(p)
  <2> DEFINE f == head(q)
  <2>1. ~isEmpty(q) /\ ~isSystemFrame(f) /\ go' = go /\ go[i].pc = "idle"
    BY <1>6 DEF HandOn, InputReady
  <2>2. node'[p] = [node[p] EXCEPT !.inputQueue = get(q), !.procQueue = push(r, f)]
    BY <1>1, <1>6 DEF HandOn
  <2>3. node'[p].inputQueue = get(q) /\ node'[p].procQueue = push(r, f)
    BY <1>1, <2>2 DEF NodeType
  <2>4. f \in Frame /\ Apart(get(q)) /\ Frames(get(q)) = Frames(q) \ {f} /\ f \in Frames(q)
    BY <1>1, <1>2, <2>1, ApartGet, GetProperties
  <2>5. f \notin Frames(r)
    BY <1>2, <2>4 DEF Placed
  <2>6. Apart(push(r, f)) /\ Frames(push(r, f)) = Frames(r) \cup {f}
    BY <1>1, <1>2, <2>4, <2>5, ApartPush
  <2>7. Held(p, "input")' = Held(p, "input") /\ Held(p, "process")' = Held(p, "process")
    BY <2>1 DEF Held
  <2> HIDE DEF f
  <2>8. Placed(p)'
    BY <1>2, <2>1, <2>3, <2>4, <2>5, <2>6, <2>7 DEF Placed
  <2>9. Moves(p, "input")
    BY <2>1, <2>3, <2>4, <2>6, <2>7 DEF Moves, OnlyMoves
  <2> QED BY <1>3, <1>4, <2>8, <2>9
<1>7. CASE TakeSystem(p)
  <2> DEFINE f == head(q)
  <2>1. ~isEmpty(q) /\ isSystemFrame(f) /\ go[i].pc = "idle" /\ Take(i, "handle", f)
    BY <1>7 DEF TakeSystem, InputReady
  <2>2. node'[p] = [node[p] EXCEPT !.inputQueue = get(q)]
    BY <1>1, <1>7 DEF TakeSystem
  <2>3. node'[p].inputQueue = get(q) /\ node'[p].procQueue = r
    BY <1>1, <2>2 DEF NodeType
  <2>4. f \in Frame /\ Apart(get(q)) /\ Frames(get(q)) = Frames(q) \ {f} /\ f \in Frames(q)
    BY <1>1, <1>2, <2>1, ApartGet, GetProperties
  <2>5. OnlyMoves(i) /\ go'[i].pc = "handle" /\ go'[i].frame = f
    BY <1>1, <2>1, Fields
  <2>6. Held(p, "input") = {} /\ Held(p, "input")' = {f} /\ Held(p, "process")' = Held(p, "process")
    BY <1>1, <2>1, <2>5 DEF Held, OnlyMoves
  <2> HIDE DEF f
  <2>7. Placed(p)'
    BY <1>2, <2>1, <2>3, <2>4, <2>6 DEF Placed
  <2>8. Moves(p, "input")
    BY <2>1, <2>3, <2>4, <2>5, <2>6 DEF Moves
  <2> QED BY <1>3, <1>4, <2>7, <2>8
<1>8. CASE HandleStart(p) \/ HandleCancel(p) \/ HandleInterruption(p) \/ Join(p)
  <2>1. PICK pc \in {"body", "join"} : Goto(i, pc) /\ go[i].pc \in {"handle", "join"}
    BY <1>8 DEF HandleStart, HandleCancel, HandleInterruption, Handles, Join
  <2>2. OnlyMoves(i) /\ go'[i].pc = pc /\ go'[i].frame = go[i].frame
    BY <1>1, <2>1, Fields
  <2>3. Held(p, "input")' = Held(p, "input") /\ Held(p, "process")' = Held(p, "process")
    BY <1>1, <2>1, <2>2 DEF Held, OnlyMoves
  <2>4. node'[p].inputQueue = q /\ node'[p].procQueue \in {r, reset(r)}
    <3>1. CASE HandleStart(p) \/ HandleCancel(p)
      BY <1>1, <3>1 DEF NodeType, HandleStart, HandleCancel, Handles
    <3>2. CASE HandleInterruption(p)
      <4>1. \/ node' = [node EXCEPT ![p].procQueue = reset(@)]
            \/ node' = [node EXCEPT ![p].running = FALSE]
        BY <3>2 DEF HandleInterruption
      <4> QED BY <1>1, <4>1 DEF NodeType
    <3>3. CASE Join(p)
      <4>1. \/ node' = [node EXCEPT ![p].running = TRUE, ![p].procQueue = reset(@)]
            \/ node' = node
        BY <3>3 DEF Join
      <4> QED BY <1>1, <4>1 DEF NodeType
    <3> QED BY <1>8, <3>1, <3>2, <3>3
  <2>5. Apart(node'[p].procQueue) /\ Frames(node'[p].procQueue) \subseteq Frames(r)
    BY <1>1, <1>2, <2>4, ApartOther
  <2>6. Placed(p)'
    BY <1>2, <2>3, <2>4, <2>5 DEF Placed
  <2>7. Moves(p, "input")
    BY <2>1, <2>2, <2>3, <2>4, <2>5 DEF Moves
  <2> QED BY <1>3, <1>4, <2>6, <2>7
<1>9. CASE TakeFrame(p)
  <2> DEFINE f == head(r)
  <2>1. PICK pc \in {"gate", "body"} : ~isEmpty(r) /\ go[l].pc = "idle" /\ Take(l, pc, f)
    BY <1>9 DEF TakeFrame
  <2>2. node'[p] = [node[p] EXCEPT !.procQueue = get(r)]
    BY <1>1, <1>9 DEF TakeFrame
  <2>3. node'[p].inputQueue = q /\ node'[p].procQueue = get(r)
    BY <1>1, <2>2 DEF NodeType
  <2>4. f \in Frame /\ Apart(get(r)) /\ Frames(get(r)) = Frames(r) \ {f} /\ f \in Frames(r)
    BY <1>1, <1>2, <2>1, ApartGet, GetProperties
  <2>5. OnlyMoves(l) /\ go'[l].pc = pc /\ go'[l].frame = f
    BY <1>1, <2>1, Fields
  <2>6. Held(p, "process") = {} /\ Held(p, "process")' = {f} /\ Held(p, "input")' = Held(p, "input")
    BY <1>1, <2>1, <2>5 DEF Held, OnlyMoves
  <2> HIDE DEF f
  <2>7. Placed(p)'
    BY <1>2, <2>1, <2>3, <2>4, <2>6 DEF Placed
  <2>8. Moves(p, "process")
    BY <2>1, <2>3, <2>4, <2>5, <2>6 DEF Moves
  <2> QED BY <1>3, <1>4, <2>7, <2>8
<1>10. CASE p = 0 /\ Gate
  <2>1. Goto(l, "body") /\ go[l].pc = "gate" /\ node' = node
    BY <1>10 DEF Gate
  <2>2. OnlyMoves(l) /\ go'[l].pc = "body" /\ go'[l].frame = go[l].frame
    BY <1>1, <2>1, Fields
  <2>3. Placed(p)'
    BY <1>1, <1>3, <2>1, <2>2, PlaceStay DEF PlaceInv
  <2>4. Held(p, "process")' = Held(p, "process")
    BY <2>1, <2>2 DEF Held
  <2>5. Moves(p, "process")
    BY <2>1, <2>2, <2>4 DEF Moves
  <2> QED BY <1>3, <1>4, <2>3, <2>5
<1>11. CASE p = 0 /\ GiveBack
  <2> DEFINE f == go[l].frame
  <2>1. Done(l) /\ go[l].pc = "gate"
    BY <1>11 DEF GiveBack
  <2>2. node'[p] = [node[p] EXCEPT !.procQueue = IF Interruptible(f) THEN r ELSE requeue(r, f)]
    BY <1>1, <1>11 DEF GiveBack
  <2>3. node'[p].inputQueue = q /\ node'[p].procQueue = IF Interruptible(f) THEN r ELSE requeue(r, f)
    BY <1>1, <2>2 DEF NodeType
  <2>4. OnlyMoves(l) /\ go'[l].pc = "idle"
    BY <1>1, <2>1, Fields
  <2>5. Held(p, "process") = {f} /\ Held(p, "process")' = {} /\ Held(p, "input")' = Held(p, "input")
    BY <1>1, <2>1, <2>4 DEF Held, OnlyMoves
  <2>6. f \in Frame /\ f \notin Frames(r) /\ f \notin Frames(q) /\ ~isSystemFrame(f)
    BY <1>1, <1>2, <2>1, <2>5, Parts DEF Placed
  <2> HIDE DEF f
  <2>7. /\ Apart(node'[p].procQueue) /\ Frames(node'[p].procQueue) \subseteq Frames(r) \cup {f}
    BY <1>1, <1>2, <2>3, <2>6, ApartOther
  <2>8. Placed(p)'
    BY <1>2, <2>3, <2>5, <2>6, <2>7 DEF Placed
  <2>9. Moves(p, "process")
    BY <2>1, <2>3, <2>4, <2>5, <2>7 DEF Moves
  <2> QED BY <1>3, <1>4, <2>8, <2>9
<1> QED BY <1>6, <1>7, <1>8, <1>9, <1>10, <1>11 DEF NodeStep

\* So they stay at one place.
LEMMA PlaceNode ==
  ASSUME TypeInv, TypeInv', PcInv, PlaceInv, NEW p \in Node, NodeStep(p)
  PROVE  PlaceInv'
<1>1. PICK l \in {"input", "process"} : Moves(p, l)
  BY NodeMoves
<1>2. <<p, l>> \in Goroutines
  BY LaneIn DEF Lane
<1>3. go[<<p, l>>].next = 1
  BY <1>1, <1>2 DEF Moves, PcInv, PcOK
<1> QED BY <1>1, <1>3, NodeMoves, PlaceMove DEF Moves

\* A node is handed a frame that it has not and that nobody else will hand it.
LEMMA PlaceAccept ==
  ASSUME TypeInv, NEW p \in Node, Placed(p), NEW f \in Frame, f \notin Present(p), Accept(p, f),
         Held(p, "input")' = Held(p, "input"), Held(p, "process")' = Held(p, "process")
  PROVE  /\ Placed(p)' /\ Present(p)' \subseteq Present(p) \cup {f}
         /\ \A x \in Node : x # p => node'[x] = node[x]
         /\ node'[p].procQueue = node[p].procQueue
         /\ Frames(node'[p].inputQueue) \subseteq Frames(node[p].inputQueue) \cup {f}
<1> DEFINE q == node[p].inputQueue
<1>1. node \in [Node -> NodeType] /\ node[p] \in NodeType /\ q \in Queue
  BY Parts DEF TypeInv, TypeOK
<1>2. CASE node[p].canceling
  <2>1. node' = node
    BY <1>2 DEF Accept
  <2> QED BY <2>1 DEF Placed, Present
<1>3. CASE ~node[p].canceling
  <2> DEFINE b == (p \in Branch /\ Kind[f] = "cancel")
  <2>1. node' = [node EXCEPT ![p] = [node[p] EXCEPT !.inputQueue = push(q, f), !.canceling = b]]
    BY <1>3 DEF Accept
  <2> HIDE DEF b
  <2>2. /\ node'[p].inputQueue = push(q, f) /\ node'[p].procQueue = node[p].procQueue
        /\ \A x \in Node : x # p => node'[x] = node[x]
    BY <1>1, <2>1 DEF NodeType
  <2>3. Apart(push(q, f)) /\ Frames(push(q, f)) = Frames(q) \cup {f}
    BY <1>1, ApartPush DEF Placed, Present
  <2>4. Placed(p)'
    BY <2>2, <2>3 DEF Placed, Present
  <2> QED BY <2>2, <2>3, <2>4 DEF Present
<1> QED BY <1>2, <1>3

\* A frame is queued at the parallel pipeline.
LEMMA PlaceQueue ==
  ASSUME TypeInv, PlaceInv, NEW f \in Frame, QueueFrame(f)
  PROVE  PlaceInv'
<1>1. f \in unsent /\ unsent' = unsent \ {f} /\ Accept(0, f) /\ go' = go
  BY DEF QueueFrame
<1>2. 0 \in Node /\ 0 \notin Branch /\ Branch \subseteq Node
  BY Parts
<1>3. \A p \in Node : /\ Held(p, "input")' = Held(p, "input") /\ In(p)' = In(p)
                      /\ Held(p, "process")' = Held(p, "process") /\ Pr(p)' = Pr(p)
  BY <1>1 DEF Held, In, Pr
<1>4. Placed(0) /\ f \notin Present(0)
  BY <1>1, <1>2 DEF PlaceInv
<1>5. /\ Placed(0)' /\ Present(0)' \subseteq Present(0) \cup {f}
      /\ \A x \in Node : x # 0 => node'[x] = node[x]
      /\ node'[0].procQueue = node[0].procQueue
      /\ Frames(node'[0].inputQueue) \subseteq Frames(node[0].inputQueue) \cup {f}
  BY <1>1, <1>2, <1>3, <1>4, PlaceAccept
<1>6. ASSUME NEW b \in Branch
      PROVE  Placed(b)' /\ Present(b)' = Present(b) /\ Ahead(b)' \subseteq Ahead(b) \cup {f}
  <2>1. b \in Node /\ node'[b] = node[b] /\ Placed(b)
    BY <1>2, <1>5 DEF PlaceInv
  <2>2. Placed(b)' /\ Present(b)' = Present(b)
    BY <1>3, <2>1 DEF Placed, Present
  <2>3. Ahead(b)' \subseteq Ahead(b) \cup {f}
    BY <1>2, <1>3, <1>5 DEF Ahead
  <2> QED BY <2>2, <2>3
<1>7. \A b \in Branch : f \notin Present(b)
  BY <1>1, <1>2 DEF PlaceInv
<1>8. \A p \in Node : p = 0 \/ p \in Branch
  BY ParallelAssumption DEF Node, Branch
<1> QED BY <1>1, <1>2, <1>5, <1>6, <1>7, <1>8 DEF PlaceInv

\* The parallel pipeline queues a frame at the next branch.
LEMMA PlaceFanOut ==
  ASSUME TypeInv, TypeInv', PcInv, PlaceInv, NEW g \in Goroutines, FanOut(g)
  PROVE  PlaceInv'
<1>1. /\ 0 \in Node /\ 0 \notin Branch /\ Branch \subseteq Node /\ GoOK
      /\ \A x \in Node, m \in Lane : <<x, m>> \in Goroutines
  BY Parts
<1>2. PICK l \in {"input", "process"} : g = <<0, l>>
  <2>1. PICK p \in Node, l \in Lane : g = <<p, l>>
    BY DEF Goroutines
  <2>2. go[g].pc = "fanOut" /\ PcOK(g)
    BY DEF FanOut, PcInv
  <2>3. p = 0 \/ p \in Branch
    BY ParallelAssumption DEF Node, Branch
  <2>4. p = 0 /\ l # "task"
    BY <2>1, <2>2, <2>3 DEF PcOK, Release, Resume
  <2> QED BY <2>1, <2>4 DEF Lane
<1>3. PICK b \in Branch, f \in Frame : /\ b = go[g].next /\ f = go[g].frame /\ go[g].pc = "fanOut"
                                      /\ Accept(b, f) /\ unsent' = unsent
  <2>1. go[g].next \in Branch /\ go[g].frame \in Frame
    BY Parts DEF FanOut, GoroutineType
  <2> QED BY <2>1 DEF FanOut
<1>4. OnlyMoves(g) /\ (go'[g].pc = "idle" \/ (go'[g].frame = f /\ go'[g].next = b + 1))
  <2>1. CASE Done(g)
    BY <1>1, <2>1, Fields
  <2>2. CASE go' = [go EXCEPT ![g].next = @ + 1]
    <3>1. OnlyMoves(g) /\ go'[g] = [go[g] EXCEPT !.next = @ + 1]
      BY <1>1, <2>2 DEF GoOK, OnlyMoves
    <3>2. go'[g].frame = f /\ go'[g].next = b + 1
      BY <1>1, <1>3, <3>1 DEF GoOK, GoroutineType
    <3> QED BY <3>1, <3>2
  <2> QED BY <2>1, <2>2 DEF FanOut
<1>5. \A p \in Node, m \in {"input", "process"} : <<p, m>> # g => go'[<<p, m>>] = go[<<p, m>>]
  BY <1>1, <1>4 DEF OnlyMoves, Lane
<1>6. \A p \in Node, m \in {"input", "process"} : <<p, m>> # g => Held(p, m)' = Held(p, m)
  BY <1>5 DEF Held
<1>7. f \in Held(0, l) /\ Held(0, l)' \subseteq Held(0, l) /\ Held(0, l) = {f}
  BY <1>2, <1>3, <1>4 DEF Held
<1>8. Placed(0) /\ Placed(b) /\ f \notin unsent
  BY <1>1, <1>2, <1>3, <1>7 DEF PlaceInv, Present
<1>9. f \in Ahead(b)
  BY <1>2, <1>3, <1>7 DEF Ahead, In, Pr, Branch
<1>10. f \notin Present(b)
  BY <1>3, <1>9 DEF PlaceInv
<1>11. Held(b, "input")' = Held(b, "input") /\ Held(b, "process")' = Held(b, "process")
  BY <1>1, <1>2, <1>3, <1>6
<1>12. /\ Placed(b)' /\ Present(b)' \subseteq Present(b) \cup {f}
       /\ \A x \in Node : x # b => node'[x] = node[x]
  BY <1>1, <1>3, <1>8, <1>10, <1>11, PlaceAccept
<1>13. /\ node'[0] = node[0]
       /\ \A m \in {"input", "process"} : m # l => Held(0, m)' = Held(0, m) /\ go'[<<0, m>>] = go[<<0, m>>]
  BY <1>1, <1>2, <1>3, <1>5, <1>6, <1>12
<1>14. Placed(0)' /\ Present(0)' \subseteq Present(0)
  <2>1. \A m \in {"input", "process"} : Held(0, m)' \subseteq Held(0, m)
    BY <1>7, <1>13
  <2> QED BY <1>8, <1>13, <2>1 DEF Placed, Present
<1>15. ASSUME NEW x \in Branch, x # b
       PROVE  Placed(x)' /\ Present(x)' = Present(x)
  <2>1. /\ x \in Node /\ node'[x] = node[x] /\ Placed(x)
        /\ Held(x, "input")' = Held(x, "input") /\ Held(x, "process")' = Held(x, "process")
    BY <1>1, <1>2, <1>6, <1>12, <1>15 DEF PlaceInv
  <2> QED BY <2>1 DEF Placed, Present
<1>16. ASSUME NEW x \in Branch PROVE Ahead(x)' \subseteq Ahead(x) /\ (x = b => f \notin Ahead(x)')
  <2>1. x \in Int /\ b \in Int
    BY <1>3, ParallelAssumption DEF Branch
  <2>2. CASE l = "input"
    <3>1. Pr(0)' = Pr(0) /\ Held(0, "process")' = Held(0, "process") /\ f \notin Held(0, "process")
      BY <1>7, <1>8, <1>13, <2>2 DEF Pr, Placed
    <3>2. f \notin Frames(node[0].inputQueue) /\ f \notin Frames(node[0].procQueue)
      BY <1>7, <1>8, <2>2 DEF Placed
    <3>3. In(0).next = b /\ (Held(0, "input")' = {} \/ (In(0)'.next = b + 1 /\ Held(0, "input")' = Held(0, "input")))
      BY <1>2, <1>3, <1>4, <2>2 DEF In, Held
    <3> QED BY <1>7, <1>13, <2>1, <2>2, <3>1, <3>2, <3>3 DEF Ahead
  <2>3. CASE l = "process"
    <3>1. In(0)' = In(0) /\ Held(0, "input")' = Held(0, "input") /\ f \notin Held(0, "input")
      BY <1>7, <1>8, <1>13, <2>3 DEF In, Placed
    <3>2. f \notin Frames(node[0].inputQueue) /\ f \notin Frames(node[0].procQueue)
      BY <1>7, <1>8, <2>3 DEF Placed
    <3>3. Pr(0).next = b /\ (Held(0, "process")' = {} \/ (Pr(0)'.next = b + 1 /\ Held(0, "process")' = Held(0, "process")))
      BY <1>2, <1>3, <1>4, <2>3 DEF Pr, Held
    <3> QED BY <1>7, <1>13, <2>1, <2>3, <3>1, <3>2, <3>3 DEF Ahead
  <2> QED BY <2>2, <2>3
<1>17. \A p \in Node : p = 0 \/ p \in Branch
  BY ParallelAssumption DEF Node, Branch
<1>18. \A p \in Node : Placed(p)' /\ Present(p)' \cap unsent' = {}
  BY <1>1, <1>3, <1>8, <1>12, <1>14, <1>15, <1>17 DEF PlaceInv
<1>19. \A x \in Branch : Present(x)' \cap Ahead(x)' = {}
  BY <1>3, <1>12, <1>15, <1>16 DEF PlaceInv
<1> QED BY <1>18, <1>19 DEF PlaceInv

\* A step of the merge: one goroutine moves on with its frame or is done.
LEMMA SinkMoves ==
  ASSUME TypeInv, NEW g \in Goroutines, SinkStep(g)
  PROVE  /\ OnlyMoves(g) /\ node' = node /\ unsent' = unsent /\ go[g].pc \notin {"idle", "fanOut"}
         /\ go'[g].pc = "idle" \/ go'[g].frame = go[g].frame
<1>1. GoOK
  BY Parts
<1>2. node' = node /\ unsent' = unsent /\ go[g].pc \notin {"idle", "fanOut"}
  BY DEF SinkStep, sinkPush, flushBuffered, emitSynchronized, PushSynchronized, emit, PushBuffered,
         ResumeSystem, ResumeFrames, Push
<1>3. CASE Done(g) \/ \E pc : Goto(g, pc)
  BY <1>1, <1>2, <1>3, Fields
<1>4. CASE ~Done(g) /\ ~\E pc : Goto(g, pc)
  <2>1. \/ go' = [go EXCEPT ![g].pc = "pushBuffered", ![g].item = Head(buffered)]
        \/ go' = [go EXCEPT ![g].pc = "flush", ![g].item = NoFrame]
    BY <1>4 DEF SinkStep, sinkPush, flushBuffered, emitSynchronized, PushSynchronized, emit, PushBuffered,
         ResumeSystem, ResumeFrames, Push
  <2>2. /\ OnlyMoves(g)
        /\ \/ go'[g] = [go[g] EXCEPT !.pc = "pushBuffered", !.item = Head(buffered)]
           \/ go'[g] = [go[g] EXCEPT !.pc = "flush", !.item = NoFrame]
    BY <1>1, <2>1 DEF GoOK, OnlyMoves
  <2> QED BY <1>1, <1>2, <2>2 DEF GoOK, GoroutineType
<1> QED BY <1>3, <1>4

\* Every step keeps frames at one place.
LEMMA PlaceNext ==
  ASSUME TypeInv, TypeInv', PcInv, PlaceInv, [Next]_vars
  PROVE  PlaceInv'
<1>1. /\ GoOK /\ \A p \in Node, l \in Lane : <<p, l>> \in Goroutines
      /\ Branch \subseteq Node /\ 0 \notin Branch /\ 0 \in Node
  BY Parts
<1>2. CASE UNCHANGED vars
  BY <1>2 DEF vars, PlaceInv, Placed, Present, Ahead, Held, In, Pr
<1>3. ASSUME NEW b \in Branch, Consume(b) PROVE PlaceInv'
  <2>1. /\ <<b, "process">> \in Goroutines /\ Done(<<b, "process">>) /\ node' = node /\ unsent' = unsent
        /\ go[<<b, "process">>].pc = "body"
    BY <1>1, <1>3 DEF Consume, Lane
  <2>2. OnlyMoves(<<b, "process">>) /\ go'[<<b, "process">>].pc = "idle"
    BY <1>1, <2>1, Fields
  <2> QED BY <2>1, <2>2, PlaceStay
<1>4. ASSUME NEW b \in Branch, Raise(b) PROVE PlaceInv'
  <2>1. <<b, "task">> \in Goroutines /\ unsent' \subseteq unsent /\ node' = node
    BY <1>1, <1>4 DEF Raise, Lane
  <2>2. OnlyMoves(<<b, "task">>)
    BY <1>1, <1>4, <2>1, Fields DEF Raise
  <2>3. \A x \in Node : /\ go'[<<x, "input">>] = go[<<x, "input">>]
                        /\ go'[<<x, "process">>] = go[<<x, "process">>]
    BY <1>1, <2>2 DEF OnlyMoves, Lane
  <2>4. \A x \in Node : /\ Held(x, "input")' = Held(x, "input") /\ In(x)' = In(x)
                        /\ Held(x, "process")' = Held(x, "process") /\ Pr(x)' = Pr(x)
    BY <2>3 DEF Held, In, Pr
  <2>5. \A x \in Node : (Placed(x)' <=> Placed(x)) /\ Present(x)' = Present(x)
    BY <2>1, <2>4 DEF Placed, Present
  <2>6. \A x \in Branch : Ahead(x)' = Ahead(x)
    BY <1>1, <2>1, <2>4 DEF Ahead
  <2> QED BY <1>1, <2>1, <2>5, <2>6 DEF PlaceInv
<1>5. ASSUME NEW g \in Goroutines, Arm(g) \/ PauseSystem(g) \/ PauseFrames(g) PROVE PlaceInv'
  <2>1. PICK pc : Goto(g, pc) /\ node' = node /\ unsent' = unsent /\ go[g].pc \notin {"idle", "fanOut"}
    BY <1>5 DEF Arm, PauseSystem, PauseFrames
  <2>2. OnlyMoves(g) /\ go'[g].frame = go[g].frame
    BY <1>1, <2>1, Fields
  <2> QED BY <2>1, <2>2, PlaceStay
<1>6. ASSUME NEW g \in Goroutines, SinkStep(g) PROVE PlaceInv'
  BY <1>6, SinkMoves, PlaceStay
<1> QED BY <1>2, <1>3, <1>4, <1>5, <1>6, NextSteps, PlaceQueue, PlaceFanOut, PlaceNode DEF FanOutStep

\* A set of branches within another is no larger.
LEMMA Fewer ==
  ASSUME NEW U \in SUBSET Branch, NEW T \in SUBSET U
  PROVE  Cardinality(T) \in Nat /\ Cardinality(U) \in Nat /\ Cardinality(T) <= Cardinality(U)
<1>1. IsFiniteSet(Branch)
  BY ParallelAssumption, FS_Interval DEF Branch
<1>2. IsFiniteSet(U)
  BY <1>1, FS_Subset
<1>3. IsFiniteSet(T) /\ Cardinality(T) <= Cardinality(U)
  BY <1>2, FS_Subset
<1> QED BY <1>2, <1>3, FS_CardinalityType

\* No branch owes a lifecycle frame that it did not, and none is released anew.
LEMMA CountShrink ==
  ASSUME TypeInv, PcInv, CountInv, counter' = counter,
         \A f \in Frame : isLifecycle(f) => Owes(f)' \subseteq Owes(f),
         \A g \in Releasing' : g \in Releasing /\ go'[g].frame = go[g].frame
  PROVE  CountInv'
<1>1. ASSUME NEW f \in Frame, isLifecycle(f) PROVE counter'[f] >= Cardinality(Owes(f)')
  <2>1. PICK U \in SUBSET Branch, T \in SUBSET Branch : U = Owes(f) /\ T = Owes(f)'
    BY DEF Owes
  <2>2. Cardinality(T) \in Nat /\ Cardinality(U) \in Nat /\ Cardinality(T) <= Cardinality(U)
    BY <1>1, <2>1, Fewer
  <2>3. counter[f] >= Cardinality(U) /\ counter[f] \in 0..N /\ N \in Nat
    BY <1>1, <2>1, ParallelAssumption DEF CountInv, TypeInv, TypeOK
  <2>4. counter[f] \in Nat
    BY <2>3
  <2> QED BY <2>1, <2>2, <2>3, <2>4
<1>2. ASSUME NEW g \in Releasing' PROVE Owes(go[g].frame)' = {}
  <2>1. PICK f : f = go[g].frame
    OBVIOUS
  <2>2. g \in Releasing /\ go'[g].frame = f /\ Owes(f) = {} /\ isLifecycle(f) /\ f \in Frame
    BY <2>1, Parts DEF CountInv, Releasing, PcInv, PcOK, Release
  <2>3. Owes(f)' = {}
    BY <2>2
  <2> QED BY <2>2, <2>3 DEF Owes, Pending, ToFan
<1>3. \A g, h \in Releasing' : go'[g].frame = go'[h].frame => g = h
  BY DEF CountInv
<1>4. \A f \in Frame : isLifecycle(f) => counter'[f] >= Cardinality(Owes(f)')
  BY <1>1
<1>5. \A g \in Releasing' : Owes(go[g].frame)' = {}
  BY <1>2
<1> QED BY <1>3, <1>4, <1>5 DEF CountInv

\* Nothing is owed or released that was not.
Settled == /\ \A f : Owes(f)' \subseteq Owes(f)
           /\ \A g \in Releasing' : g \in Releasing /\ go'[g].frame = go[g].frame

\* What a node's own step leaves owed.
LEMMA NodeSettled ==
  ASSUME TypeInv, TypeInv', PcInv, PlaceInv, NEW p \in Node, NodeStep(p)
  PROVE  Settled
<1>1. PICK l \in {"input", "process"} : Moves(p, l)
  BY NodeMoves
<1>2. /\ \A x \in Node, m \in Lane : <<x, m>> \in Goroutines
      /\ 0 \in Node /\ 0 \notin Branch /\ Branch \subseteq Node /\ l \in Lane
  BY Parts DEF Lane
<1>3. \A x \in Node, m \in {"input", "process"} : (x # p \/ m # l) => go'[<<x, m>>] = go[<<x, m>>]
  BY <1>1, <1>2 DEF OnlyMoves, Lane, Moves
<1>4. \A x \in Node : x # p => node'[x] = node[x]
  BY NodeMoves
<1>6. ASSUME NEW f, NEW b \in Branch, ToFan(b, f)' PROVE ToFan(b, f)
  <2>1. PICK m \in {"input", "process"} :
           go'[<<0, m>>].frame = f /\ go'[<<0, m>>].pc \in Fanning /\ b >= go'[<<0, m>>].next
    BY <1>6 DEF ToFan
  <2>2. 0 # p \/ m # l
    BY <1>1, <2>1 DEF Moves, Fanning
  <2> QED BY <1>2, <1>3, <2>1, <2>2 DEF ToFan
<1>7. ASSUME NEW f, NEW b \in Branch, Pending(b, f)' PROVE Pending(b, f)
  <2>1. CASE b # p
    BY <1>2, <1>3, <1>4, <1>7, <2>1 DEF Pending
  <2>2. CASE b = p
    <3>1. go[<<p, l>>].pc # "gate"
      BY <1>2, <2>2 DEF PcInv, PcOK, Release, Resume
    <3>2. \/ f \in Frames(node'[b].inputQueue) \cup Frames(node'[b].procQueue) \cup Held(p, l)'
          \/ \E m \in {"input", "process"} : m # l /\
                 go'[<<b, m>>].frame = f /\ go'[<<b, m>>].pc \in {"handle", "join", "body"}
      BY <1>7, <2>2 DEF Pending, Held
    <3>3. CASE f \in Frames(node'[b].inputQueue) \cup Frames(node'[b].procQueue) \cup Held(p, l)'
      <4>1. f \in Frames(node[b].inputQueue) \cup Frames(node[b].procQueue) \cup Held(p, l)
        BY <1>1, <2>2, <3>3 DEF Moves
      <4> QED BY <1>1, <2>2, <3>1, <4>1 DEF Pending, Held, Moves
    <3>4. CASE \E m \in {"input", "process"} : m # l /\
                 go'[<<b, m>>].frame = f /\ go'[<<b, m>>].pc \in {"handle", "join", "body"}
      BY <1>2, <1>3, <3>4 DEF Pending
    <3> QED BY <3>2, <3>3, <3>4
  <2> QED BY <2>1, <2>2
<1>8. \A f : Owes(f)' \subseteq Owes(f)
  BY <1>6, <1>7 DEF Owes
<1>9. \A g \in Releasing' : g \in Releasing /\ go'[g].frame = go[g].frame
  <2>1. \A g \in Goroutines : g # <<p, l>> => go'[g] = go[g]
    BY <1>1 DEF Moves, OnlyMoves
  <2> QED BY <1>1, <2>1 DEF Releasing, Moves
<1> QED BY <1>8, <1>9 DEF Settled

\* A goroutine moves on to where it does not owe its frame, or not for the first time.
LEMMA OwesStay ==
  ASSUME TypeInv, PcInv, NEW g \in Goroutines, OnlyMoves(g), node' = node,
         g[2] # "task" => go'[g].pc \notin {"handle", "join", "body"},
         go'[g].pc \in Fanning => /\ go[g].pc \in Fanning /\ go'[g].frame = go[g].frame
                                  /\ go'[g].next = go[g].next
  PROVE  \A f : Owes(f)' \subseteq Owes(f)
<1>1. /\ \A x \in Node, m \in Lane : <<x, m>> \in Goroutines
      /\ 0 \in Node /\ 0 \notin Branch /\ Branch \subseteq Node
  BY Parts
<1>2. \A x \in Node, m \in {"input", "process"} : <<x, m>> # g => go'[<<x, m>>] = go[<<x, m>>]
  BY <1>1 DEF OnlyMoves, Lane
<1>3. ASSUME NEW f, NEW b \in Branch, ToFan(b, f)' PROVE ToFan(b, f)
  <2>1. PICK m \in {"input", "process"} :
           go'[<<0, m>>].frame = f /\ go'[<<0, m>>].pc \in Fanning /\ b >= go'[<<0, m>>].next
    BY <1>3 DEF ToFan
  <2> QED BY <1>1, <1>2, <2>1 DEF ToFan
<1>4. ASSUME NEW f, NEW b \in Branch, Pending(b, f)' PROVE Pending(b, f)
  BY <1>1, <1>2, <1>4 DEF Pending
<1> QED BY <1>3, <1>4 DEF Owes

\* A branch that is handed a frame owed it already.
LEMMA FanOutSettled ==
  ASSUME TypeInv, TypeInv', PcInv, PlaceInv, NEW g \in Goroutines, FanOut(g)
  PROVE  Settled
<1>1. /\ \A x \in Node, m \in Lane : <<x, m>> \in Goroutines
      /\ 0 \in Node /\ 0 \notin Branch /\ Branch \subseteq Node /\ GoOK
  BY Parts
<1>2. PICK b \in Branch, f \in Frame : /\ b = go[g].next /\ f = go[g].frame /\ go[g].pc = "fanOut"
                                      /\ Accept(b, f) /\ counter' = counter
  <2>1. go[g].next \in Branch /\ go[g].frame \in Frame
    BY Parts DEF FanOut, GoroutineType
  <2> QED BY <2>1 DEF FanOut, ppVars
<1>3. PICK l \in {"input", "process"} : g = <<0, l>>
  <2>1. PICK p \in Node, l \in Lane : g = <<p, l>>
    BY DEF Goroutines
  <2>2. PcOK(g) /\ (p = 0 \/ p \in Branch)
    BY ParallelAssumption DEF PcInv, Node, Branch
  <2> QED BY <1>2, <2>1, <2>2 DEF PcOK, Release, Resume, Lane
<1>4. OnlyMoves(g) /\ (go'[g].pc = "idle" \/ (go'[g].pc = "fanOut" /\ go'[g].frame = f /\ go'[g].next = b + 1))
  <2>1. CASE Done(g)
    BY <1>1, <2>1, Fields
  <2>2. CASE go' = [go EXCEPT ![g].next = @ + 1]
    <3>1. OnlyMoves(g) /\ go'[g] = [go[g] EXCEPT !.next = @ + 1]
      BY <1>1, <2>2 DEF GoOK, OnlyMoves
    <3>2. go'[g].pc = "fanOut" /\ go'[g].frame = f /\ go'[g].next = b + 1
      BY <1>1, <1>2, <3>1 DEF GoOK, GoroutineType
    <3> QED BY <3>1, <3>2
  <2> QED BY <2>1, <2>2 DEF FanOut
<1>5. \A x \in Node, m \in {"input", "process"} : <<x, m>> # g => go'[<<x, m>>] = go[<<x, m>>]
  BY <1>1, <1>4 DEF OnlyMoves, Lane
<1>6. ToFan(b, f)
  <2>1. b >= b
    BY ParallelAssumption DEF Branch
  <2> QED BY <1>2, <1>3, <2>1 DEF ToFan, Fanning
<1>7. ASSUME NEW x, NEW y \in Branch, ToFan(y, x)' PROVE ToFan(y, x)
  <2>1. PICK m \in {"input", "process"} :
           go'[<<0, m>>].frame = x /\ go'[<<0, m>>].pc \in Fanning /\ y >= go'[<<0, m>>].next
    BY <1>7 DEF ToFan
  <2>2. CASE m = l
    <3>1. f = x /\ y >= b + 1 /\ y \in Int /\ b \in Int
      BY <1>2, <1>3, <1>4, <2>1, <2>2, ParallelAssumption DEF Fanning, Branch
    <3>2. y >= b
      BY <3>1
    <3> QED BY <1>2, <1>3, <3>1, <3>2 DEF ToFan, Fanning
  <2>3. CASE m # l
    BY <1>1, <1>3, <1>5, <2>1, <2>3 DEF ToFan
  <2> QED BY <2>2, <2>3
<1>8. /\ \A x \in Node : x # b => node'[x] = node[x]
      /\ Frames(node'[b].inputQueue) \subseteq Frames(node[b].inputQueue) \cup {f}
      /\ node'[b].procQueue = node[b].procQueue
  <2>1. Held(b, "input")' = Held(b, "input") /\ Held(b, "process")' = Held(b, "process")
    BY <1>1, <1>3, <1>5 DEF Held
  <2>2. Placed(b) /\ b \in Node
    BY <1>1 DEF PlaceInv
  <2>3. f \notin Present(b)
    <3>1. b >= b
      BY ParallelAssumption DEF Branch
    <3>2. f \in Held(0, l) /\ b >= go[<<0, l>>].next
      BY <1>2, <1>3, <3>1 DEF Held
    <3>3. f \in Ahead(b)
      BY <3>2 DEF Ahead, In, Pr
    <3> QED BY <3>3 DEF PlaceInv
  <2> QED BY <1>2, <2>1, <2>2, <2>3, PlaceAccept
<1>9. ASSUME NEW x, NEW y \in Branch, Pending(y, x)' PROVE Pending(y, x) \/ (y = b /\ x = f)
  <2>1. \A m \in {"input", "process"} : go'[<<y, m>>] = go[<<y, m>>]
    BY <1>1, <1>3, <1>5
  <2>2. \/ x \in Frames(node[y].inputQueue) \cup Frames(node[y].procQueue)
        \/ \E m \in {"input", "process"} :
               go[<<y, m>>].frame = x /\ go[<<y, m>>].pc \in {"handle", "join", "body"}
        \/ (y = b /\ x = f)
    BY <1>1, <1>8, <1>9, <2>1 DEF Pending
  <2> QED BY <2>2 DEF Pending
<1>10. \A x : Owes(x)' \subseteq Owes(x)
  BY <1>6, <1>7, <1>9 DEF Owes
<1>11. \A h \in Releasing' : h \in Releasing /\ go'[h].frame = go[h].frame
  BY <1>4 DEF Releasing, OnlyMoves
<1> QED BY <1>10, <1>11 DEF Settled

\* A frame that a goroutine of branch b holds is not to be fanned out to b.
LEMMA NotBoth ==
  ASSUME TypeInv, PlaceInv, NEW b \in Branch, NEW f, f \in Present(b)
  PROVE  /\ ~ToFan(b, f)
         /\ \A l \in {"input", "process"} : ~(go[<<0, l>>].pc # "idle" /\ go[<<0, l>>].frame = f /\ go[<<0, l>>].next = 1)
<1>1. f \notin Ahead(b)
  BY DEF PlaceInv
<1>2. ~ToFan(b, f)
  BY <1>1 DEF ToFan, Fanning, Ahead, Held, In, Pr
<1> QED BY <1>1, <1>2, ParallelAssumption DEF Ahead, Held, In, Pr, Branch

\* Arming the counter of a frame changes what is owed of that frame, which nobody
\* releases.
LEMMA ArmSettled ==
  ASSUME TypeInv, TypeInv', PcInv, PlaceInv, NEW g \in Goroutines, Arm(g), NEW f, f = go[g].frame
  PROVE  /\ \A x : x # f => Owes(x)' \subseteq Owes(x)
         /\ \A h \in Releasing' : h \in Releasing /\ go'[h] = go[h]
         /\ \A h \in Releasing : go[h].frame # f
<1>1. /\ \A x \in Node, m \in Lane : <<x, m>> \in Goroutines
      /\ 0 \in Node /\ 0 \notin Branch /\ Branch \subseteq Node /\ GoOK
  BY Parts
<1>2. f \in Frame /\ f = go[g].frame
  BY Parts DEF Arm
<1>3. PICK l \in {"input", "process"} : g = <<0, l>>
  <2>1. PICK p \in Node, l \in Lane : g = <<p, l>>
    BY DEF Goroutines
  <2>2. PcOK(g) /\ p = 0 /\ go[g].pc = "body"
    BY <2>1 DEF PcInv, Arm
  <2> QED BY <2>1, <2>2 DEF PcOK, Lane
<1>4. go[g].pc = "body" /\ go[g].next = 1 /\ node' = node
  BY DEF Arm, PcInv, PcOK
<1>5. OnlyMoves(g) /\ go'[g].pc \in {"pauseSystem", "fanOut"} /\ go'[g].frame = f
  BY <1>1, <1>2, Fields DEF Arm
<1>6. \A x \in Node, m \in {"input", "process"} : <<x, m>> # g => go'[<<x, m>>] = go[<<x, m>>]
  BY <1>1, <1>5 DEF OnlyMoves, Lane
<1>7. ASSUME NEW x, x # f PROVE Owes(x)' \subseteq Owes(x)
  <2>1. ASSUME NEW b \in Branch, ToFan(b, x)' PROVE ToFan(b, x)
    BY <1>1, <1>3, <1>5, <1>6, <1>7, <2>1 DEF ToFan
  <2>2. ASSUME NEW b \in Branch, Pending(b, x)' PROVE Pending(b, x)
    BY <1>1, <1>3, <1>4, <1>6, <2>2 DEF Pending
  <2> QED BY <2>1, <2>2 DEF Owes
<1>8. ASSUME NEW h \in Releasing' PROVE h \in Releasing /\ go'[h] = go[h]
  BY <1>5 DEF Releasing, OnlyMoves
<1>9. ASSUME NEW h \in Releasing PROVE go[h].frame # f
  <2>1. PICK p \in Node, m \in Lane : h = <<p, m>>
    BY DEF Releasing, Goroutines
  <2>2. PcOK(h) /\ go[h].pc \in Release
    BY DEF PcInv, Releasing, Release
  <2>3. p \in Branch /\ m \in {"input", "process"}
    BY <2>1, <2>2, ParallelAssumption DEF PcOK, Release, Fanning, Node, Branch, Lane
  <2>4. go[h].frame \in Present(p)
    BY <2>1, <2>2, <2>3 DEF Present, Held, Release
  <2> QED BY <1>2, <1>3, <1>4, <2>3, <2>4, NotBoth
<1> QED BY <1>7, <1>8, <1>9

\* A counter is armed with the number of branches.
LEMMA CountArm ==
  ASSUME TypeInv, TypeInv', PcInv, PlaceInv, CountInv, NEW g \in Goroutines, Arm(g)
  PROVE  CountInv'
<1>2. PICK f \in Frame : f = go[g].frame
  BY Parts DEF Arm
<1>7. \A x : x # f => Owes(x)' \subseteq Owes(x)
  BY <1>2, ArmSettled
<1>8. \A h \in Releasing' : h \in Releasing /\ go'[h] = go[h]
  BY <1>2, ArmSettled
<1>9. \A h \in Releasing : go[h].frame # f
  BY <1>2, ArmSettled
<1>10. CASE ~isLifecycle(f)
  <2>1. counter' = counter
    BY <1>2, <1>10 DEF Arm
  <2>2. \A x \in Frame : isLifecycle(x) => Owes(x)' \subseteq Owes(x)
    BY <1>7, <1>10
  <2> QED BY <1>8, <2>1, <2>2, CountShrink
<1>11. CASE isLifecycle(f)
  <2>1. counter' = [counter EXCEPT ![f] = N] /\ counter \in [Frame -> 0..N] /\ N \in Nat
    BY <1>2, <1>11, ParallelAssumption DEF Arm, TypeInv, TypeOK
  <2>2. ASSUME NEW x \in Frame, isLifecycle(x) PROVE counter'[x] >= Cardinality(Owes(x)')
    <3>1. PICK T \in SUBSET Branch, U \in SUBSET Branch : T = Owes(x)' /\ U = Owes(x)
      BY DEF Owes
    <3>2. CASE x = f
      <4>1. counter'[x] = N /\ Cardinality(Branch) = N
        BY <2>1, <3>2, Counting
      <4>2. Branch \in SUBSET Branch
        OBVIOUS
      <4>3. Cardinality(T) \in Nat /\ Cardinality(T) <= Cardinality(Branch)
        BY <4>2, Fewer
      <4> QED BY <2>1, <3>1, <4>1, <4>3
    <3>3. CASE x # f
      <4>1. T \subseteq U
        BY <1>7, <3>1, <3>3
      <4>2. Cardinality(T) \in Nat /\ Cardinality(U) \in Nat /\ Cardinality(T) <= Cardinality(U)
        BY <4>1, Fewer
      <4>3. counter'[x] = counter[x] /\ counter[x] >= Cardinality(U) /\ counter[x] \in Nat
        BY <2>1, <2>2, <3>1, <3>3 DEF CountInv
      <4> QED BY <3>1, <4>2, <4>3
    <3> QED BY <3>2, <3>3
  <2>3. ASSUME NEW h \in Releasing' PROVE Owes(go[h].frame)' = {}
    <3>1. PICK x : x = go[h].frame
      OBVIOUS
    <3>2. Owes(x) = {} /\ x # f /\ go'[h].frame = x
      BY <1>8, <1>9, <3>1 DEF CountInv
    <3>3. Owes(x)' = {}
      BY <1>7, <3>2
    <3> QED BY <3>2, <3>3 DEF Owes, Pending, ToFan
  <2>4. \A h, k \in Releasing' : go'[h].frame = go'[k].frame => h = k
    BY <1>8 DEF CountInv
  <2>5. \A x \in Frame : isLifecycle(x) => counter'[x] >= Cardinality(Owes(x)')
    BY <2>2
  <2>6. \A h \in Releasing' : Owes(go[h].frame)' = {}
    BY <2>3
  <2> QED BY <2>4, <2>5, <2>6 DEF CountInv
<1> QED BY <1>10, <1>11

\* A branch reports a lifecycle frame, which it owed and does not owe any more.
LEMMA ReportDoes ==
  ASSUME TypeInv, TypeInv', PcInv, PlaceInv, NEW g \in Goroutines, sinkPush(g), NEW f, f = go[g].frame
  PROVE  /\ f \in Frame /\ isLifecycle(f) /\ OnlyMoves(g)
         /\ counter' = [counter EXCEPT ![f] = Reported(f)]
         /\ Reported(f) > 0 => go'[g].pc = "idle"
         /\ ~(Reported(f) > 0) => go'[g].pc \in {"synchronized", "flush"} /\ go'[g].frame = f
         /\ \A x : Owes(x)' \subseteq Owes(x)
         /\ \E b \in Branch, l \in {"input", "process"} :
               g = <<b, l>> /\ f \in Held(b, l) /\ b \in Owes(f) /\ b \notin Owes(f)'
<1>1. /\ \A x \in Node, m \in Lane : <<x, m>> \in Goroutines
      /\ 0 \in Node /\ 0 \notin Branch /\ Branch \subseteq Node /\ GoOK
  BY Parts
<1>2. f \in Frame /\ f = go[g].frame
  BY Parts DEF sinkPush
<1>3. /\ isLifecycle(f) /\ go[g].pc = "body" /\ g[1] \in Branch /\ node' = node
      /\ counter' = [counter EXCEPT ![f] = Reported(f)]
      /\ IF Reported(f) > 0 THEN Done(g) ELSE Goto(g, afterReport(f))
  BY <1>2 DEF sinkPush
<1>4. PICK b \in Branch, l \in {"input", "process"} : g = <<b, l>>
  <2>1. PICK p \in Node, l \in Lane : g = <<p, l>>
    BY DEF Goroutines
  <2>2. PcOK(g) /\ p \in Branch
    BY <1>3, <2>1 DEF PcInv
  <2> QED BY <1>2, <1>3, <2>1, <2>2 DEF PcOK, Lane
<1>5. /\ OnlyMoves(g) /\ (Reported(f) > 0 => go'[g].pc = "idle")
      /\ ~(Reported(f) > 0) => go'[g].pc \in {"synchronized", "flush"} /\ go'[g].frame = f
  BY <1>1, <1>2, <1>3, Fields DEF afterReport
<1>6. go'[g].pc \in {"idle", "synchronized", "flush"}
  BY <1>5
<1>7. \A x : Owes(x)' \subseteq Owes(x)
  BY <1>3, <1>5, <1>6, OwesStay DEF Fanning
<1>8. b \in Owes(f)
  BY <1>2, <1>3, <1>4 DEF Owes, Pending
<1>9. b \notin Owes(f)'
  <2>1. f \in Held(b, l) /\ Placed(b) /\ f \in Present(b)
    BY <1>1, <1>2, <1>3, <1>4 DEF Held, PlaceInv, Present
  <2>2. f \notin Frames(node[b].inputQueue) \cup Frames(node[b].procQueue)
    BY <2>1 DEF Placed
  <2>3. ASSUME NEW m \in {"input", "process"}, m # l
        PROVE  f \notin Held(b, m) /\ go'[<<b, m>>] = go[<<b, m>>]
    <3>1. Held(b, "input") \cap Held(b, "process") = {}
      BY <2>1 DEF Placed
    <3>2. <<b, m>> \in Goroutines /\ <<b, m>> # g
      BY <1>1, <1>4, <2>3 DEF Lane
    <3> QED BY <1>5, <2>1, <2>3, <3>1, <3>2 DEF OnlyMoves
  <2>4. ~Pending(b, f)'
    BY <1>3, <1>4, <1>6, <2>2, <2>3 DEF Pending, Held
  <2>5. \A m \in {"input", "process"} : go'[<<0, m>>] = go[<<0, m>>]
    BY <1>1, <1>4, <1>5 DEF OnlyMoves, Lane
  <2>6. ~ToFan(b, f)'
    BY <2>1, <2>5, NotBoth DEF ToFan
  <2> QED BY <2>4, <2>6 DEF Owes
<1>10. f \in Held(b, l)
  BY <1>2, <1>3, <1>4 DEF Held
<1>11. \E a \in Branch, m \in {"input", "process"} :
          g = <<a, m>> /\ f \in Held(a, m) /\ a \in Owes(f) /\ a \notin Owes(f)'
  BY <1>4, <1>8, <1>9, <1>10
<1> QED BY <1>2, <1>3, <1>5, <1>7, <1>11

\* A branch that reports a lifecycle frame is one of those counted, and if it is
\* the last no other owes the frame.
LEMMA CountReport ==
  ASSUME TypeInv, TypeInv', PcInv, PlaceInv, CountInv, NEW g \in Goroutines, sinkPush(g)
  PROVE  CountInv'
<1>2. PICK f \in Frame : f = go[g].frame
  BY Parts DEF sinkPush
<1>3. isLifecycle(f) /\ counter' = [counter EXCEPT ![f] = Reported(f)]
  BY <1>2, ReportDoes
<1>5. /\ OnlyMoves(g) /\ (Reported(f) > 0 => go'[g].pc = "idle")
      /\ ~(Reported(f) > 0) => go'[g].pc \in {"synchronized", "flush"} /\ go'[g].frame = f
  BY <1>2, ReportDoes
<1>7. \A x : Owes(x)' \subseteq Owes(x)
  BY <1>2, ReportDoes
<1>8. PICK b \in Branch : b \in Owes(f) /\ b \notin Owes(f)'
  BY <1>2, ReportDoes
<1>10. counter \in [Frame -> 0..N] /\ N \in Nat /\ counter[f] \in Nat
  <2>1. counter \in [Frame -> 0..N] /\ N \in Nat
    BY ParallelAssumption DEF TypeInv, TypeOK
  <2> QED BY <2>1
<1>11. PICK U \in SUBSET Branch, T \in SUBSET Branch : U = Owes(f) /\ T = Owes(f)'
  BY DEF Owes
<1>12. /\ Cardinality(U) \in Nat /\ Cardinality(T) \in Nat /\ Cardinality(T) <= Cardinality(U) - 1
       /\ counter[f] >= Cardinality(U) /\ Cardinality(U) # 0 /\ (Cardinality(T) = 0 => T = {})
  <2>1. T \subseteq U \ {b} /\ b \in U
    BY <1>7, <1>8, <1>11
  <2>2. Cardinality(U) \in Nat /\ Cardinality(U \ {b}) = Cardinality(U) - 1 /\ Cardinality(U) # 0
        /\ (Cardinality(T) = 0 => T = {})
    BY <1>10, <2>1, Counting
  <2>3. U \ {b} \in SUBSET Branch
    OBVIOUS
  <2>4. Cardinality(T) \in Nat /\ Cardinality(T) <= Cardinality(U \ {b})
    BY <2>1, <2>3, Fewer
  <2> QED BY <1>3, <1>11, <2>2, <2>4 DEF CountInv
<1>13. counter'[f] = counter[f] - 1 /\ Reported(f) = counter[f] - 1
  BY <1>3, <1>10, <1>12 DEF Reported
<1>14. ASSUME NEW x \in Frame, isLifecycle(x) PROVE counter'[x] >= Cardinality(Owes(x)')
  <2>1. CASE x = f
    BY <1>10, <1>11, <1>12, <1>13, <2>1
  <2>2. CASE x # f
    <3>1. PICK V \in SUBSET Branch, W \in SUBSET Branch : V = Owes(x) /\ W = Owes(x)'
      BY DEF Owes
    <3>2. Cardinality(W) \in Nat /\ Cardinality(V) \in Nat /\ Cardinality(W) <= Cardinality(V)
      BY <1>7, <3>1, Fewer
    <3>3. counter'[x] = counter[x] /\ counter[x] >= Cardinality(V) /\ counter[x] \in Nat
      BY <1>3, <1>10, <1>14, <2>2, <3>1 DEF CountInv
    <3> QED BY <3>1, <3>2, <3>3
  <2> QED BY <2>1, <2>2
<1>15. ASSUME NEW h \in Releasing PROVE go[h].frame # f
  BY <1>8 DEF CountInv
<1>16. ASSUME NEW h \in Releasing', h # g PROVE h \in Releasing /\ go'[h] = go[h]
  BY <1>5, <1>16 DEF Releasing, OnlyMoves
<1>17. ASSUME g \in Releasing' PROVE go'[g].frame = f /\ Owes(f)' = {}
  <2>1. ~(Reported(f) > 0)
    BY <1>5, <1>17 DEF Releasing
  <2>2. Cardinality(T) = 0
    BY <1>10, <1>12, <1>13, <2>1
  <2> QED BY <1>5, <1>11, <1>12, <2>1, <2>2
<1>18. ASSUME NEW h \in Releasing' PROVE Owes(go[h].frame)' = {}
  <2>1. CASE h = g
    BY <1>17, <2>1 DEF Owes, Pending, ToFan
  <2>2. CASE h # g
    <3>1. PICK x : x = go[h].frame
      OBVIOUS
    <3>2. Owes(x) = {} /\ go'[h].frame = x
      BY <1>16, <2>2, <3>1 DEF CountInv
    <3>3. Owes(x)' = {}
      BY <1>7, <3>2
    <3> QED BY <3>2, <3>3 DEF Owes, Pending, ToFan
  <2> QED BY <2>1, <2>2
<1>19. \A h, k \in Releasing' : go'[h].frame = go'[k].frame => h = k
  BY <1>15, <1>16, <1>17 DEF CountInv
<1>20. \A x \in Frame : isLifecycle(x) => counter'[x] >= Cardinality(Owes(x)')
  BY <1>14
<1>21. \A h \in Releasing' : Owes(go[h].frame)' = {}
  BY <1>18
<1> QED BY <1>19, <1>20, <1>21 DEF CountInv

\* Nothing is owed before it is queued.
LEMMA CountInit == Init => CountInv
<1> SUFFICES ASSUME Init PROVE CountInv
  OBVIOUS
<1>1. \A p \in Node, l \in Lane : <<p, l>> \in Goroutines
  BY LaneIn
<1>2. \A g \in Goroutines : go[g].pc = "idle"
  BY DEF Init, Idle
<1>3. 0 \in Node /\ Branch \subseteq Node
  BY ParallelAssumption DEF Branch, Node
<1>4. Releasing = {}
  BY <1>2 DEF Releasing
<1>5. ASSUME NEW f PROVE Owes(f) = {}
  <2>1. \A b \in Branch : node[b].inputQueue = newQueue /\ node[b].procQueue = newQueue
    BY <1>3 DEF Init, NewNode
  <2>2. Frames(newQueue) = {}
    BY DEF Frames, newQueue, FramesOf
  <2>3. \A p \in Node, l \in {"input", "process"} : go[<<p, l>>].pc = "idle"
    BY <1>1, <1>2 DEF Lane
  <2> QED BY <1>3, <2>1, <2>2, <2>3 DEF Owes, Pending, ToFan, Fanning
<1>6. Cardinality({}) = 0
  BY FS_EmptySet
<1>7. \A f \in Frame : counter[f] >= Cardinality(Owes(f))
  <2>1. \A f \in Frame : counter[f] = 0 /\ Cardinality(Owes(f)) = 0
    BY <1>5, <1>6 DEF Init
  <2> QED BY <2>1
<1> QED BY <1>4, <1>7 DEF CountInv

\* All but arming and reporting.
LEMMA StepSettled ==
  ASSUME TypeInv, TypeInv', PcInv, PlaceInv, [Next]_vars,
         \A g \in Goroutines : ~Arm(g) /\ ~sinkPush(g)
  PROVE  Settled /\ counter' = counter
<1>1. /\ GoOK /\ \A p \in Node, l \in Lane : <<p, l>> \in Goroutines
      /\ Branch \subseteq Node /\ 0 \notin Branch /\ 0 \in Node
  BY Parts
<1>2. CASE UNCHANGED vars
  BY <1>2 DEF vars, ppVars, Settled, Owes, Pending, ToFan, Releasing
<1>3. ASSUME NEW f \in Frame, QueueFrame(f) PROVE Settled /\ counter' = counter
  <2>1. go' = go /\ counter' = counter /\ Accept(0, f)
    BY <1>3 DEF QueueFrame, ppVars
  <2>2. \A b \in Branch : node'[b] = node[b]
    BY <1>1, <2>1 DEF Accept, TypeInv, TypeOK
  <2>3. \A x : Owes(x)' \subseteq Owes(x)
    BY <2>1, <2>2 DEF Owes, Pending, ToFan
  <2>4. Releasing' = Releasing
    BY <2>1 DEF Releasing
  <2> QED BY <2>1, <2>3, <2>4 DEF Settled
<1>4. ASSUME NEW g \in Goroutines, OnlyMoves(g), node' = node, counter' = counter,
             g[2] # "task" => go'[g].pc \notin {"handle", "join", "body"},
             go'[g].pc \in Fanning => /\ go[g].pc \in Fanning /\ go'[g].frame = go[g].frame
                                      /\ go'[g].next = go[g].next,
             go'[g].pc \in Release => go[g].pc \in Release /\ go'[g].frame = go[g].frame
      PROVE  Settled /\ counter' = counter
  <2>1. \A x : Owes(x)' \subseteq Owes(x)
    BY <1>4, OwesStay
  <2>2. \A h \in Releasing' : h \in Releasing /\ go'[h].frame = go[h].frame
    BY <1>4 DEF Releasing, Release, OnlyMoves
  <2> QED BY <1>4, <2>1, <2>2 DEF Settled
<1>5. ASSUME NEW b \in Branch, Consume(b) PROVE Settled /\ counter' = counter
  <2>1. /\ <<b, "process">> \in Goroutines /\ Done(<<b, "process">>) /\ node' = node /\ counter' = counter
    BY <1>1, <1>5 DEF Consume, Lane, ppVars
  <2>2. OnlyMoves(<<b, "process">>) /\ go'[<<b, "process">>].pc = "idle"
    BY <1>1, <2>1, Fields
  <2> QED BY <1>4, <2>1, <2>2 DEF Fanning, Release
<1>6. ASSUME NEW b \in Branch, Raise(b) PROVE Settled /\ counter' = counter
  <2>1. <<b, "task">> \in Goroutines /\ node' = node /\ counter' = counter
    BY <1>1, <1>6 DEF Raise, Lane, ppVars
  <2>2. OnlyMoves(<<b, "task">>) /\ go'[<<b, "task">>].pc = "body"
    BY <1>1, <1>6, <2>1, Fields DEF Raise
  <2> QED BY <1>4, <2>1, <2>2 DEF Fanning, Release
<1>7. ASSUME NEW g \in Goroutines, PauseSystem(g) \/ PauseFrames(g) PROVE Settled /\ counter' = counter
  <2>1. PICK pc \in Fanning : Goto(g, pc) /\ go[g].pc \in Fanning /\ node' = node /\ counter' = counter
    BY <1>7 DEF PauseSystem, PauseFrames, Fanning, ppVars
  <2>2. OnlyMoves(g) /\ go'[g].pc = pc /\ go'[g].frame = go[g].frame /\ go'[g].next = go[g].next
    BY <1>1, <2>1, Fields
  <2> QED BY <1>4, <2>1, <2>2 DEF Fanning, Release
<1>8. ASSUME NEW g \in Goroutines, SinkStep(g), ~sinkPush(g) PROVE Settled /\ counter' = counter
  <2>1. /\ OnlyMoves(g) /\ node' = node /\ (go'[g].pc = "idle" \/ go'[g].frame = go[g].frame)
    BY <1>8, SinkMoves
  <2>2. counter' = counter
    BY <1>8 DEF SinkStep, flushBuffered, emitSynchronized, PushSynchronized, emit, PushBuffered,
       ResumeSystem, ResumeFrames, Push, ppVars
  <2>3. /\ go'[g].pc \in {"idle", "push"} \cup Release \cup Resume
        /\ go'[g].pc \in Release => go[g].pc \in Release
    <3>1. CASE flushBuffered(g) /\ buffered # <<>>
      <4>1. go' = [go EXCEPT ![g].pc = "pushBuffered", ![g].item = Head(buffered)] /\ go[g].pc = "flush"
        BY <3>1 DEF flushBuffered
      <4>2. go'[g] = [go[g] EXCEPT !.pc = "pushBuffered", !.item = Head(buffered)]
        BY <1>1, <4>1 DEF GoOK
      <4> QED BY <1>1, <4>1, <4>2 DEF GoOK, GoroutineType, Release
    <3>2. CASE PushBuffered(g)
      <4>1. go' = [go EXCEPT ![g].pc = "flush", ![g].item = NoFrame] /\ go[g].pc = "pushBuffered"
        BY <3>2 DEF PushBuffered
      <4>2. go'[g] = [go[g] EXCEPT !.pc = "flush", !.item = NoFrame]
        BY <1>1, <4>1 DEF GoOK
      <4> QED BY <1>1, <4>1, <4>2 DEF GoOK, GoroutineType, Release
    <3>3. CASE ~(flushBuffered(g) /\ buffered # <<>>) /\ ~PushBuffered(g)
      <4>1. CASE Done(g)
        BY <1>1, <4>1, Fields DEF Release
      <4>2. CASE ~Done(g)
        <5>1. PICK pc \in {"push"} \cup Release \cup Resume :
                  Goto(g, pc) /\ (pc \in Release => go[g].pc \in Release)
          BY <1>8, <3>3, <4>2 DEF SinkStep, flushBuffered, emitSynchronized, PushSynchronized, emit,
             ResumeSystem, ResumeFrames, Push, afterFlush, afterSync, Release, Resume
        <5> QED BY <1>1, <5>1, Fields
      <4> QED BY <4>1, <4>2
    <3> QED BY <3>1, <3>2, <3>3
  <2> QED BY <1>4, <2>1, <2>2, <2>3 DEF Fanning, Release, Resume
<1>9. ASSUME NEW p \in Node, NodeStep(p) PROVE Settled /\ counter' = counter
  BY <1>9, NodeSettled, NodeStepFrame DEF ppVars
<1>10. ASSUME NEW g \in Goroutines, FanOut(g) PROVE Settled /\ counter' = counter
  BY <1>10, FanOutSettled DEF FanOut, ppVars
<1> QED BY <1>2, <1>3, <1>5, <1>6, <1>7, <1>8, <1>9, <1>10, NextSteps DEF FanOutStep

\* Every step keeps the counters high enough.
LEMMA CountNext ==
  ASSUME TypeInv, TypeInv', PcInv, PlaceInv, CountInv, [Next]_vars
  PROVE  CountInv'
<1>1. CASE \A g \in Goroutines : ~Arm(g) /\ ~sinkPush(g)
  BY <1>1, StepSettled, CountShrink DEF Settled
<1> QED BY <1>1, CountArm, CountReport

\* A frame that the parallel pipeline does not hold and no branch owes is neither
\* owed nor released anew.
LEMMA OwesNext ==
  ASSUME TypeInv, TypeInv', PcInv, PlaceInv, [Next]_vars, NEW f, Owes(f) = {},
         f \notin Held(0, "input") \cup Held(0, "process")
  PROVE  /\ Owes(f)' = {}
         /\ \A g \in Releasing' : go'[g].frame = f => g \in Releasing /\ go[g].frame = f
<1>1. CASE \A g \in Goroutines : ~Arm(g) /\ ~sinkPush(g)
  BY <1>1, StepSettled DEF Settled
<1>2. ASSUME NEW g \in Goroutines, Arm(g)
      PROVE  /\ Owes(f)' = {}
             /\ \A h \in Releasing' : go'[h].frame = f => h \in Releasing /\ go[h].frame = f
  <2>1. go[g].frame # f
    <3>1. PICK p \in Node, l \in Lane : g = <<p, l>>
      BY DEF Goroutines
    <3>2. PcOK(g) /\ p = 0 /\ go[g].pc = "body"
      BY <1>2, <3>1 DEF PcInv, Arm
    <3> QED BY <3>1, <3>2 DEF PcOK, Lane, Held
  <2>2. PICK y : y = go[g].frame
    OBVIOUS
  <2>3. f # y /\ (\A x : x # y => Owes(x)' \subseteq Owes(x))
        /\ \A h \in Releasing' : h \in Releasing /\ go'[h] = go[h]
    BY <1>2, <2>1, <2>2, ArmSettled
  <2> QED BY <2>3
<1>3. ASSUME NEW g \in Goroutines, sinkPush(g)
      PROVE  /\ Owes(f)' = {}
             /\ \A h \in Releasing' : go'[h].frame = f => h \in Releasing /\ go[h].frame = f
  <2>1. GoOK /\ go[g].pc = "body" /\ g[1] \in Branch /\ isLifecycle(go[g].frame) /\ node' = node
    BY <1>3, Parts DEF sinkPush
  <2>2. OnlyMoves(g) /\ (go'[g].pc = "idle" \/ (go'[g].pc \in {"synchronized", "flush"} /\ go'[g].frame = go[g].frame))
    BY <1>3, <2>1, Fields DEF sinkPush, afterReport
  <2>3. go[g].frame # f
    <3>1. PICK p \in Node, l \in Lane : g = <<p, l>>
      BY DEF Goroutines
    <3>2. PcOK(g) /\ p \in Branch
      BY <2>1, <3>1 DEF PcInv
    <3>3. l \in {"input", "process"}
      BY <2>1, <3>1, <3>2 DEF PcOK, Lane
    <3>4. p \in Owes(go[g].frame)
      BY <2>1, <3>1, <3>2, <3>3 DEF Owes, Pending
    <3> QED BY <3>4
  <2>4. \A x : Owes(x)' \subseteq Owes(x)
    BY <2>1, <2>2, OwesStay DEF Fanning
  <2> QED BY <2>2, <2>3, <2>4 DEF Releasing, OnlyMoves
<1> QED BY <1>1, <1>2, <1>3

\* Who is in the middle of a release: the input goroutine of a branch, with a
\* StartFrame or a CancelFrame, or its process goroutine, with an EndFrame.
LEMMA Releaser ==
  ASSUME TypeInv, PcInv, PlaceInv, NEW g \in Releasing
  PROVE  \E b \in Branch, l \in {"input", "process"} :
            /\ g = <<b, l>> /\ go[g].frame \in Frame /\ go[g].frame \in Present(b)
            /\ go[g].pc \in Release /\ go[g].pc # "idle"
            /\ l = "input" => Kind[go[g].frame] \in {"start", "cancel"}
            /\ l = "process" => Kind[go[g].frame] = "end"
<1>1. PICK p \in Node, l \in Lane : g = <<p, l>>
  BY DEF Releasing, Goroutines
<1>2. PcOK(g) /\ go[g].pc \in Release /\ go[g].pc # "idle" /\ g \in Goroutines
  BY DEF PcInv, Releasing, Release
<1>3. p \in Branch /\ l \in {"input", "process"} /\ isLifecycle(go[g].frame)
  BY <1>1, <1>2, ParallelAssumption DEF PcOK, Release, Fanning, Node, Branch, Lane
<1>4. go[g].frame \in Frame
  BY <1>2, Parts
<1>5. go[g].frame \in Held(p, l) /\ Placed(p)
  BY <1>1, <1>2 DEF Held, PlaceInv
<1>6. go[g].frame \in Present(p)
  BY <1>3, <1>5 DEF Present
<1>7. /\ l = "input" => isSystemFrame(go[g].frame)
      /\ l = "process" => ~isSystemFrame(go[g].frame)
  BY <1>5 DEF Placed
<1>8. /\ l = "input" => Kind[go[g].frame] \in {"start", "cancel"}
      /\ l = "process" => Kind[go[g].frame] = "end"
  BY <1>3, <1>7 DEF isLifecycle, isSystemFrame, SystemKinds
<1> QED BY <1>1, <1>2, <1>3, <1>4, <1>6, <1>8

\* A CancelFrame that is released is behind the EndFrame at every branch, or no
\* branch will get to the EndFrame any more.
LEMMA CancelAlone ==
  ASSUME OneEach, TypeInv, PcInv, PlaceInv, CountInv, Running,
         NEW b \in Branch, NEW x \in Branch,
         <<b, "input">> \in Releasing, Kind[In(b).frame] = "cancel", In(b).frame \in Present(b)
  PROVE  Pr(x).pc = "idle"
<1>1. PICK c \in Frame : c = In(b).frame /\ Kind[c] = "cancel" /\ isLifecycle(c)
  <2>1. <<b, "input">> \in Goroutines /\ In(b).pc # "idle"
    BY DEF Releasing, In
  <2> QED BY <2>1, Parts DEF In, isLifecycle
<1>2. Owes(c) = {}
  BY <1>1 DEF CountInv, In
<1>3. Covers(c)
  BY <1>1 DEF Running
<1>4. ~ToFan(x, c) /\ ~Pending(x, c)
  BY <1>2 DEF Owes
<1>5. node[x].canceling
  BY <1>1, <1>3, <1>4 DEF Covers
<1>6. Canceled(x)
  BY <1>5 DEF Running
<1>7. \A y \in Frame : Kind[y] = "cancel" => y = c
  BY <1>1 DEF OneEach
<1>8. <<x, "input">> \in Goroutines /\ node[x].inputQueue \in Queue
  BY Parts DEF Lane
<1>9. node[x].inputQueue.system \in Seq(Frame)
  BY <1>8 DEF Queue
<1>10. ASSUME CancelsNow(x) PROVE In(x).frame = c
  BY <1>7, <1>8, <1>10, Parts DEF CancelsNow, In
<1>11. ASSUME NEW s, s = node[x].inputQueue.system, s # <<>>, Kind[s[Len(s)]] = "cancel" PROVE FALSE
  <2>1. s \in Seq(Frame) /\ s # <<>>
    BY <1>9, <1>11
  <2>2. Len(s) \in 1..Len(s) /\ s[Len(s)] \in Frame
    BY <2>1
  <2>3. s[Len(s)] = c
    BY <1>7, <1>11, <2>2
  <2>4. c \in FramesOf(s)
    BY <2>2, <2>3 DEF FramesOf
  <2> QED BY <1>4, <1>11, <2>4 DEF Pending, Frames
<1>12. ASSUME CancelsNow(x), In(x).pc \in {"handle", "join"} PROVE FALSE
  BY <1>4, <1>10, <1>12 DEF Pending, In
<1> QED BY <1>6, <1>11, <1>12 DEF Canceled

\* Two releases never run at once.
LEMMA OneReleaseFrom ==
  ASSUME OneEach, TypeInv, PcInv, PlaceInv, CountInv, LeadInv, PhaseInv
  PROVE  OneRelease
<1> SUFFICES ASSUME NEW g \in Releasing, NEW h \in Releasing PROVE g = h
  BY DEF OneRelease
<1>1. PICK b \in Branch, l \in {"input", "process"} :
            /\ g = <<b, l>> /\ go[g].frame \in Frame /\ go[g].frame \in Present(b)
            /\ go[g].pc \in Release /\ go[g].pc # "idle"
            /\ l = "input" => Kind[go[g].frame] \in {"start", "cancel"}
            /\ l = "process" => Kind[go[g].frame] = "end"
  BY Releaser
<1>2. PICK x \in Branch, m \in {"input", "process"} :
            /\ h = <<x, m>> /\ go[h].frame \in Frame /\ go[h].frame \in Present(x)
            /\ go[h].pc \in Release /\ go[h].pc # "idle"
            /\ m = "input" => Kind[go[h].frame] \in {"start", "cancel"}
            /\ m = "process" => Kind[go[h].frame] = "end"
  BY Releaser
<1>3. CASE out = <<>>
  <2>1. PICK f : Early(f)
    BY <1>3 DEF LeadInv
  <2>2. l = "input" /\ m = "input" /\ In(b).pc \in Release /\ In(x).pc \in Release
    BY <1>1, <1>2, <2>1 DEF Early, Side, In
  <2>3. Last(b) /\ Last(x)
    BY <2>1, <2>2 DEF Early, Side, Last, Release
  <2>4. b = x
    BY <2>1, <2>3 DEF Early, Count
  <2> QED BY <1>1, <1>2, <2>2, <2>4
<1>4. CASE \E y \in Branch : Flushing(y)
  BY <1>1, <1>2, <1>4 DEF Flushing, In, Pr
<1>5. CASE Running
  <2>1. Kind[go[g].frame] # "start" /\ Kind[go[h].frame] # "start"
    BY <1>1, <1>2, <1>5 DEF Running, Gone, isStartFrame
  <2>2. CASE Kind[go[g].frame] = Kind[go[h].frame]
    <3>1. go[g].frame = go[h].frame
      BY <1>1, <1>2, <2>1, <2>2 DEF OneEach, isLifecycle
    <3> QED BY <3>1 DEF CountInv
  <2>3. CASE l = "input" /\ m = "process"
    <3>1. Kind[In(b).frame] = "cancel" /\ In(b).frame \in Present(b) /\ <<b, "input">> \in Releasing
      BY <1>1, <2>1, <2>3 DEF In
    <3>2. Pr(x).pc = "idle"
      BY <1>5, <3>1, CancelAlone
    <3> QED BY <1>2, <2>3, <3>2 DEF Pr
  <2>4. CASE m = "input" /\ l = "process"
    <3>1. Kind[In(x).frame] = "cancel" /\ In(x).frame \in Present(x) /\ <<x, "input">> \in Releasing
      BY <1>2, <2>1, <2>4 DEF In
    <3>2. Pr(b).pc = "idle"
      BY <1>5, <3>1, CancelAlone
    <3> QED BY <1>1, <2>4, <3>2 DEF Pr
  <2> QED BY <1>1, <1>2, <2>1, <2>2, <2>3, <2>4
<1> QED BY <1>3, <1>4, <1>5 DEF PhaseInv

\* No frame has left and no branch is canceled to begin with.
LEMMA PhaseInit == Init => PhaseInv
<1> SUFFICES ASSUME Init PROVE out = <<>> /\ NoCancel
  BY DEF PhaseInv
<1>1. Branch \subseteq Node
  BY ParallelAssumption DEF Branch, Node
<1> QED BY <1>1 DEF Init, NoCancel, NewNode

\* The last branch pushes the StartFrame out: all else is still.
LEMMA FlushBegins ==
  ASSUME TypeInv, NEW f, Early(f), NoCancel, NEW b \in Branch, PushSynchronized(<<b, "input">>)
  PROVE  Flushing(b)'
<1>1. /\ 0 \in Node /\ 0 \notin Branch /\ Branch \subseteq Node /\ N \in Nat \ {0} /\ GoOK
      /\ \A p \in Node, l \in Lane : <<p, l>> \in Goroutines
  BY Parts
<1>2. /\ In(b).pc = "pushSynchronized" /\ Goto(<<b, "input">>, afterSync(In(b).frame)) /\ node' = node
      /\ heldSystem' = heldSystem
  BY DEF PushSynchronized, In, gateVars
<1>3. Unreported = {} /\ Last(b)
  BY <1>2 DEF Early, Count, Last
<1>4. \A x \in Branch : node[x].started /\ In(x).pc # "body" /\ ~Fresh(x)
  BY <1>3 DEF Unreported, Fresh
<1>5. isStartFrame(In(b).frame)
  BY <1>2 DEF Early, Side
<1>6. In(0).pc = "idle" /\ heldSystem
  <2>1. N \in Branch
    BY <1>1 DEF Branch
  <2>2. Armed /\ In(0).pc \notin {"pauseSystem", "pauseFrames"}
    BY <1>4, <2>1 DEF Early, Reach
  <2>3. In(0).pc # "fanOut"
    <3>1. In(0).next \in 1..N
      BY <1>1, Parts DEF GoroutineType, Branch
    <3>2. N >= In(0).next
      BY <1>1, <3>1
    <3> QED BY <1>4, <2>1, <3>2 DEF Early, Reach
  <2>4. In(0).pc = "idle"
    BY <2>2, <2>3 DEF Early, Front, Armed
  <2> QED BY <2>2, <2>4 DEF Early, Front, Armed
<1>7. \A x \in Branch : x # b => In(x).pc = "idle"
  BY <1>3, <1>4 DEF Early, Side, Count, Last
<1>8. \A x \in Branch : isEmpty(node[x].inputQueue) /\ isEmpty(node[x].procQueue) /\ Pr(x).pc = "idle"
  BY <1>4 DEF Early, Side, isEmpty, Pr
<1>9. isEmpty(node[0].procQueue) /\ Pr(0).pc = "idle"
  BY DEF Early, Front, Pr
<1>10. /\ OnlyMoves(<<b, "input">>) /\ In(b)'.pc = "flush" /\ In(b)'.frame = In(b).frame
  <2>1. afterSync(In(b).frame) = "flush" /\ <<b, "input">> \in Goroutines
    BY <1>1, <1>5 DEF afterSync, Lane
  <2> QED BY <1>1, <1>2, <2>1, Fields DEF In
<1>11. \A x \in Node : Pr(x)' = Pr(x) /\ (x # b => In(x)' = In(x))
  BY <1>1, <1>10 DEF OnlyMoves, Pr, In, Lane
<1> QED BY <1>1, <1>2, <1>5, <1>6, <1>7, <1>8, <1>9, <1>10, <1>11 DEF Flushing, NoCancel

\* Until then no frame leaves and no branch is canceled.
LEMMA PhaseEarly ==
  ASSUME OwnPlain, TypeInv, LeadInv, out = <<>>, NoCancel, [Next]_vars
  PROVE  PhaseInv'
<1>1. /\ 0 \in Node /\ 0 \notin Branch /\ Branch \subseteq Node /\ node \in [Node -> NodeType]
      /\ \A p \in Node : OnlyStarts(node[p].inputQueue)
  BY Parts DEF LeadInv, TypeInv, TypeOK
<1>2. PICK f : Early(f)
  BY DEF LeadInv
<1>3. ASSUME out' = out, \A b \in Branch : node'[b].canceling => node[b].canceling
      PROVE  PhaseInv'
  BY <1>3 DEF PhaseInv, NoCancel
<1>4. CASE UNCHANGED vars
  BY <1>3, <1>4 DEF vars
<1>5. ASSUME NEW h \in Frame, QueueFrame(h) PROVE PhaseInv'
  <2>1. out' = out /\ Accept(0, h)
    BY <1>5 DEF QueueFrame
  <2>2. \A b \in Branch : node'[b] = node[b]
    BY <1>1, <2>1 DEF Accept
  <2> QED BY <1>3, <2>1, <2>2
<1>6. ASSUME NEW b \in Branch, Raise(b) \/ emit(<<b, "task">>) \/ sinkPush(<<b, "input">>)
                               \/ emitSynchronized(<<b, "input">>)
      PROVE  PhaseInv'
  BY <1>3, <1>6 DEF Raise, emit, sinkPush, emitSynchronized
<1>7. ASSUME NEW p \in Node, TakeSystem(p) \/ HandleStart(p) PROVE PhaseInv'
  <2>1. out' = out /\ node[p] \in NodeType
    BY <1>1, <1>7 DEF TakeSystem, HandleStart, Handles
  <2>2. CASE TakeSystem(p)
    <3>1. node' = [node EXCEPT ![p].inputQueue = get(@)]
      BY <2>2 DEF TakeSystem
    <3>2. \A x \in Node : node'[x].canceling = node[x].canceling
      BY <1>1, <2>1, <3>1 DEF NodeType
    <3> QED BY <1>1, <1>3, <2>1, <3>2
  <2>3. CASE HandleStart(p)
    <3>1. node' = [node EXCEPT ![p].started = TRUE, ![p].running = TRUE]
      BY <2>3 DEF HandleStart
    <3>2. \A x \in Node : node'[x].canceling = node[x].canceling
      BY <1>1, <2>1, <3>1 DEF NodeType
    <3> QED BY <1>1, <1>3, <2>1, <3>2
  <2> QED BY <1>7, <2>2, <2>3
<1>8. CASE FanOutStep(<<0, "input">>)
  <2>1. CASE FanOut(<<0, "input">>)
    <3>1. PICK b \in Branch, h \in Frame : b = In(0).next /\ h = In(0).frame /\ Accept(b, h) /\ out' = out /\ isStartFrame(h)
      <4>1. In(0).next \in Branch /\ isStartFrame(In(0).frame) /\ In(0).frame \in Frame
        BY <1>1, <1>2, <2>1, Parts DEF FanOut, GoroutineType, Early, Front, In, Lane
      <4> QED BY <2>1, <4>1 DEF FanOut, In
    <3>2. node[b] \in NodeType /\ b \in Node /\ Kind[h] # "cancel"
      BY <1>1, <3>1 DEF isStartFrame
    <3>3. node' = node \/ node' = [node EXCEPT ![b].inputQueue = push(@, h),
                                               ![b].canceling = (b \in Branch /\ Kind[h] = "cancel")]
      BY <3>1 DEF Accept
    <3>4. \A x \in Branch : node'[x].canceling => node[x].canceling
      <4>1. \A x \in Node : x # b => node'[x] = node[x]
        BY <1>1, <3>3
      <4>2. node' # node => node'[b].canceling = FALSE
        BY <1>1, <3>2, <3>3 DEF NodeType
      <4> QED BY <1>1, <4>1, <4>2 DEF NoCancel
    <3> QED BY <1>3, <3>1, <3>4
  <2>2. CASE ~FanOut(<<0, "input">>)
    BY <1>3, <1>8, <2>2 DEF FanOutStep, Arm, PauseSystem, PauseFrames
  <2> QED BY <2>1, <2>2
<1>9. ASSUME NEW b \in Branch, PushSynchronized(<<b, "input">>) PROVE PhaseInv'
  BY <1>2, <1>9, FlushBegins DEF PhaseInv
<1> QED BY <1>1, <1>2, <1>4, <1>5, <1>6, <1>7, <1>8, <1>9, EarlySteps

\* While the buffer is flushed behind the StartFrame these are the only steps.
LEMMA FlushSteps ==
  ASSUME TypeInv, PcInv, NEW b \in Branch, Flushing(b), Next
  PROVE  \/ \E f \in Frame : QueueFrame(f)
         \/ \E x \in Branch : Raise(x) \/ emit(<<x, "task">>) \/ Push(<<x, "task">>)
         \/ flushBuffered(<<b, "input">>) \/ PushBuffered(<<b, "input">>)
<1>1. /\ 0 \in Node /\ 0 \notin Branch /\ Branch \subseteq Node
      /\ \A p \in Node, l \in Lane : <<p, l>> \in Goroutines
      /\ \A p \in Node : p = 0 \/ p \in Branch
  BY Parts DEF Node, Branch
<1>2. \A p \in Node : Pr(p).pc = "idle" /\ isEmpty(node[p].procQueue) /\ In(p).pc \in {"idle", "flush", "pushBuffered"}
  BY <1>1 DEF Flushing
<1>3. \A p \in Node : ~InputReady(p)
  BY <1>1 DEF Flushing, InputReady
<1>4. ASSUME NEW p \in Node, NodeStep(p) PROVE FALSE
  <2>1. In(p).pc \notin {"handle", "join"} /\ Pr(p).pc = "idle" /\ isEmpty(node[p].procQueue) /\ Pr(0).pc = "idle"
    BY <1>1, <1>2
  <2>2. ~HandOn(p) /\ ~TakeSystem(p)
    BY <1>3 DEF HandOn, TakeSystem
  <2>3. ~HandleStart(p) /\ ~HandleCancel(p) /\ ~HandleInterruption(p) /\ ~Join(p)
    BY <2>1 DEF HandleStart, HandleCancel, HandleInterruption, Handles, Join, In
  <2>4. ~TakeFrame(p) /\ ~Gate /\ ~GiveBack
    BY <2>1 DEF TakeFrame, Gate, GiveBack, Pr
  <2> QED BY <1>4, <2>2, <2>3, <2>4 DEF NodeStep
<1>5. ASSUME NEW x \in Branch, Consume(x) PROVE FALSE
  BY <1>1, <1>2, <1>5 DEF Consume, Pr
<1>6. ASSUME NEW g \in Goroutines, FanOutStep(g) \/ SinkStep(g)
      PROVE  \/ \E x \in Branch : emit(<<x, "task">>) \/ Push(<<x, "task">>)
             \/ flushBuffered(<<b, "input">>) \/ PushBuffered(<<b, "input">>)
  <2>1. PICK p \in Node, l \in Lane : g = <<p, l>>
    BY DEF Goroutines
  <2>2. PcOK(g)
    BY DEF PcInv
  <2>3. CASE l = "task"
    <3>1. p \in Branch \/ go[g].pc = "idle"
      BY <1>1, <2>1, <2>2, <2>3 DEF PcOK
    <3>2. go[g].pc \in {"idle", "body", "push"} /\ (go[g].pc # "idle" => ~isLifecycle(go[g].frame))
      BY <2>1, <2>2, <2>3 DEF PcOK
    <3>3. go[g].pc # "idle"
      BY <1>6 DEF FanOutStep, Arm, PauseSystem, PauseFrames, FanOut, SinkStep, emit, Push, sinkPush, flushBuffered,
         PushBuffered, emitSynchronized, PushSynchronized, ResumeSystem, ResumeFrames
    <3>4. p \in Branch /\ p # 0
      BY <1>1, <3>1, <3>3
    <3>5. emit(g) \/ Push(g)
      BY <1>6, <2>1, <3>2, <3>3, <3>4
      DEF FanOutStep, Arm, PauseSystem, PauseFrames, FanOut, SinkStep, sinkPush, flushBuffered,
         PushBuffered, emitSynchronized, PushSynchronized, ResumeSystem, ResumeFrames
    <3> QED BY <2>1, <2>3, <3>4, <3>5
  <2>4. CASE l # "task"
    <3>1. l = "input" \/ l = "process"
      BY <2>4 DEF Lane
    <3>2. go[g].pc \in {"idle", "flush", "pushBuffered"}
      BY <1>2, <2>1, <3>1 DEF In, Pr
    <3>3. go[g].pc # "idle" => g = <<b, "input">>
      BY <1>1, <2>1, <3>1 DEF Flushing, In, Pr
    <3>4. flushBuffered(g) \/ PushBuffered(g)
      BY <1>6, <3>2
      DEF FanOutStep, Arm, PauseSystem, PauseFrames, FanOut, SinkStep, emit, Push, sinkPush,
          emitSynchronized, PushSynchronized, ResumeSystem, ResumeFrames
    <3>5. go[g].pc # "idle"
      BY <3>4 DEF flushBuffered, PushBuffered
    <3> QED BY <3>3, <3>4, <3>5
  <2> QED BY <2>3, <2>4
<1> QED BY <1>4, <1>5, <1>6, NextSteps

\* When the buffer is empty the StartFrame is gone, and nothing else has gone in.
LEMMA FlushEnds ==
  ASSUME OneEach, TypeInv, PcInv, PlaceInv, CountInv, NEW b \in Branch, Flushing(b),
         flushBuffered(<<b, "input">>), buffered = <<>>
  PROVE  Running'
<1>1. /\ 0 \in Node /\ 0 \notin Branch /\ Branch \subseteq Node /\ GoOK
      /\ \A p \in Node, l \in Lane : <<p, l>> \in Goroutines
  BY Parts
<1>2. /\ <<b, "input">> \in Goroutines /\ In(b).pc = "flush" /\ Goto(<<b, "input">>, afterFlush(In(b).frame))
      /\ node' = node /\ unsent' = unsent
  BY <1>1 DEF flushBuffered, In, Lane
<1>3. PICK s \in Frame : s = In(b).frame /\ isStartFrame(s)
  BY <1>2, Parts DEF Flushing, In
<1>4. OnlyMoves(<<b, "input">>) /\ In(b)'.pc = "resumeSystem" /\ In(b)'.frame = s
  BY <1>1, <1>2, <1>3, Fields DEF In, afterFlush
<1>5. \A x \in Node : Pr(x)' = Pr(x) /\ (x # b => In(x)' = In(x))
  BY <1>1, <1>4 DEF OnlyMoves, Pr, In, Lane
<1>6. /\ \A p \in Node : Held(p, "process")' = {} /\ (p # b => Held(p, "input")' = {})
      /\ Held(b, "input")' = {s} /\ Held(b, "input") = {s}
      /\ \A x \in Branch : Frames(node[x].inputQueue) = {} /\ Frames(node[x].procQueue) = {}
  <2>1. \A p \in Node : p = 0 \/ p \in Branch
    BY ParallelAssumption DEF Node, Branch
  <2>2. \A p \in Node : Pr(p)'.pc = "idle" /\ (p # b => In(p)'.pc = "idle")
    BY <1>1, <1>5, <2>1 DEF Flushing
  <2>3. Held(b, "input")' = {s} /\ Held(b, "input") = {s}
    BY <1>2, <1>3, <1>4 DEF Held, In
  <2>4. \A p \in Node : Held(p, "process")' = {} /\ (p # b => Held(p, "input")' = {})
    BY <2>2 DEF Held, In, Pr
  <2>5. \A q : isEmpty(q) => Frames(q) = {}
    BY DEF isEmpty, Frames, FramesOf
  <2> QED BY <2>3, <2>4, <2>5 DEF Flushing
<1>7. \A x \in Branch : ~node'[x].canceling
  BY <1>2 DEF Flushing, NoCancel
<1>8. \A x \in Branch : Present(x)' \subseteq {s}
  BY <1>1, <1>2, <1>6 DEF Present
<1>9. Gone(s)'
  <2>1. s \in Present(b)
    BY <1>6 DEF Present
  <2>2. s \notin unsent'
    BY <1>1, <1>2, <2>1 DEF PlaceInv
  <2>3. s \notin Ahead(b)
    BY <2>1 DEF PlaceInv
  <2>4. s \notin Present(0)'
    BY <1>1, <1>2, <1>6, <2>3 DEF Present, Ahead
  <2>5. \A x \in Branch : ~Pending(x, s)'
    <3>1. \A x \in Branch : In(x)'.pc \in {"idle", "resumeSystem"} /\ Pr(x)'.pc = "idle"
      BY <1>1, <1>4, <1>5 DEF Flushing
    <3> QED BY <1>2, <1>6, <3>1 DEF Pending, In, Pr
  <2>6. ASSUME NEW g \in Releasing' PROVE go'[g].frame # s
    <3>1. g # <<b, "input">>
      BY <1>4 DEF Releasing, In
    <3>2. g \in Releasing /\ go'[g] = go[g]
      BY <1>4, <3>1 DEF Releasing, OnlyMoves
    <3>3. <<b, "input">> \in Releasing /\ go[<<b, "input">>].frame = s
      BY <1>2, <1>3 DEF Releasing, In
    <3> QED BY <3>1, <3>2, <3>3 DEF CountInv
  <2> QED BY <2>2, <2>4, <2>5, <2>6 DEF Gone
<1>10. \A f \in Frame : isStartFrame(f) => Gone(f)'
  <2>1. \A f \in Frame : isStartFrame(f) => f = s
    BY <1>3 DEF OneEach, isStartFrame, isLifecycle
  <2> QED BY <1>9, <2>1
<1>11. ASSUME NEW f \in Frame, Kind[f] = "cancel" PROVE Covers(f)'
  <2>1. f # s
    BY <1>3, <1>11 DEF isStartFrame
  <2> QED BY <1>1, <1>6, <1>8, <2>1 DEF Covers
<1> QED BY <1>7, <1>10, <1>11 DEF Running

\* The flush goes on, or ends.
LEMMA PhaseFlush ==
  ASSUME OneEach, TypeInv, PcInv, PlaceInv, CountInv, NEW b \in Branch, Flushing(b), [Next]_vars
  PROVE  PhaseInv'
<1>1. /\ 0 \in Node /\ 0 \notin Branch /\ Branch \subseteq Node /\ GoOK /\ node \in [Node -> NodeType]
      /\ \A p \in Node, l \in Lane : <<p, l>> \in Goroutines
  BY Parts DEF TypeInv, TypeOK
<1>2. ASSUME \A x \in Branch : node'[x] = node[x], node'[0].procQueue = node[0].procQueue,
             heldSystem' = heldSystem,
             \A x \in Node : Pr(x)' = Pr(x) /\ (x # b => In(x)' = In(x)),
             In(b)'.pc \in {"flush", "pushBuffered"}, In(b)'.frame = In(b).frame
      PROVE  PhaseInv'
  <2>1. Flushing(b)'
    BY <1>1, <1>2 DEF Flushing, NoCancel
  <2> QED BY <2>1 DEF PhaseInv
<1>3. ASSUME NEW x \in Branch, OnlyMoves(<<x, "task">>), node' = node, heldSystem' = heldSystem
      PROVE  PhaseInv'
  <2>1. \A p \in Node : Pr(p)' = Pr(p) /\ In(p)' = In(p)
    BY <1>1, <1>3 DEF OnlyMoves, Pr, In, Lane
  <2> QED BY <1>1, <1>2, <1>3, <2>1 DEF Flushing
<1>4. CASE UNCHANGED vars
  <2>1. node' = node /\ heldSystem' = heldSystem /\ go' = go
    BY <1>4 DEF vars, gateVars
  <2> QED BY <1>3, <2>1 DEF OnlyMoves
<1>5. ASSUME NEW f \in Frame, QueueFrame(f) PROVE PhaseInv'
  <2>1. heldSystem' = heldSystem /\ go' = go /\ Accept(0, f)
    BY <1>5 DEF QueueFrame, gateVars
  <2>2. \A x \in Branch : node'[x] = node[x]
    BY <1>1, <2>1 DEF Accept
  <2>3. node'[0].procQueue = node[0].procQueue
    BY <1>1, <2>1 DEF Accept, NodeType
  <2>4. \A p \in Node : Pr(p)' = Pr(p) /\ In(p)' = In(p)
    BY <2>1 DEF Pr, In
  <2> QED BY <1>1, <1>2, <2>1, <2>2, <2>3, <2>4 DEF Flushing
<1>6. ASSUME NEW x \in Branch, Raise(x) \/ emit(<<x, "task">>) \/ Push(<<x, "task">>) PROVE PhaseInv'
  <2>1. node' = node /\ heldSystem' = heldSystem /\ <<x, "task">> \in Goroutines
    BY <1>1, <1>6 DEF Raise, emit, Push, gateVars, Lane
  <2>2. OnlyMoves(<<x, "task">>)
    BY <1>1, <1>6, <2>1, Fields DEF Raise, emit, Push
  <2> QED BY <1>3, <2>1, <2>2
<1>7. CASE flushBuffered(<<b, "input">>) /\ buffered = <<>>
  BY <1>7, FlushEnds DEF PhaseInv
<1>8. ASSUME PushBuffered(<<b, "input">>) \/ flushBuffered(<<b, "input">>),
             NEW pc \in {"flush", "pushBuffered"}, NEW it,
             go' = [go EXCEPT ![<<b, "input">>].pc = pc, ![<<b, "input">>].item = it]
      PROVE  PhaseInv'
  <2>2. node' = node /\ heldSystem' = heldSystem /\ <<b, "input">> \in Goroutines
    BY <1>1, <1>8 DEF PushBuffered, flushBuffered, gateVars, Lane
  <2>3. OnlyMoves(<<b, "input">>) /\ go'[<<b, "input">>] = [go[<<b, "input">>] EXCEPT !.pc = pc, !.item = it]
    BY <1>1, <1>8, <2>2 DEF GoOK, OnlyMoves
  <2>4. In(b)'.pc = pc /\ In(b)'.frame = In(b).frame
    BY <1>1, <2>2, <2>3 DEF GoOK, GoroutineType, In
  <2>5. \A p \in Node : Pr(p)' = Pr(p) /\ (p # b => In(p)' = In(p))
    BY <1>1, <2>3 DEF OnlyMoves, Pr, In, Lane
  <2> QED BY <1>1, <1>2, <2>2, <2>4, <2>5
<1>9. CASE flushBuffered(<<b, "input">>) /\ buffered # <<>>
  BY <1>8, <1>9 DEF flushBuffered
<1>10. CASE PushBuffered(<<b, "input">>)
  BY <1>8, <1>10 DEF PushBuffered
<1> QED BY <1>4, <1>5, <1>6, <1>7, <1>9, <1>10, FlushSteps

\* The parallel pipeline holds nothing that it did not, but what is queued at it.
LEMMA PresentZero ==
  ASSUME TypeInv, TypeInv', PcInv, PlaceInv, [Next]_vars
  PROVE  unsent' \subseteq unsent /\ Present(0)' \subseteq Present(0) \cup unsent
<1>1. /\ GoOK /\ \A p \in Node, l \in Lane : <<p, l>> \in Goroutines
      /\ Branch \subseteq Node /\ 0 \notin Branch /\ 0 \in Node /\ node \in [Node -> NodeType]
  BY Parts DEF TypeInv, TypeOK
<1>2. ASSUME node'[0] = node[0], unsent' \subseteq unsent,
             \A l \in {"input", "process"} : Held(0, l)' \subseteq Held(0, l)
      PROVE  unsent' \subseteq unsent /\ Present(0)' \subseteq Present(0) \cup unsent
  BY <1>2 DEF Present
<1>3. ASSUME NEW g \in Goroutines, OnlyMoves(g), node'[0] = node[0], unsent' \subseteq unsent,
             \/ g[1] \in Branch
             \/ go'[g].pc = "idle"
             \/ go'[g].frame = go[g].frame /\ go[g].pc # "idle"
      PROVE  unsent' \subseteq unsent /\ Present(0)' \subseteq Present(0) \cup unsent
  <2>1. ASSUME NEW l \in {"input", "process"} PROVE Held(0, l)' \subseteq Held(0, l)
    <3>1. <<0, l>> \in Goroutines /\ <<0, l>>[1] = 0
      BY <1>1 DEF Lane
    <3>2. CASE g = <<0, l>>
      BY <1>1, <1>3, <3>1, <3>2 DEF Held
    <3>3. CASE g # <<0, l>>
      BY <1>3, <3>1, <3>3 DEF OnlyMoves, Held
    <3> QED BY <3>2, <3>3
  <2> QED BY <1>2, <1>3, <2>1
<1>4. CASE UNCHANGED vars
  <2>1. node' = node /\ go' = go /\ unsent' = unsent
    BY <1>4 DEF vars
  <2> QED BY <1>2, <2>1 DEF Held
<1>5. ASSUME NEW f \in Frame, QueueFrame(f)
      PROVE  unsent' \subseteq unsent /\ Present(0)' \subseteq Present(0) \cup unsent
  <2>1. f \in unsent /\ unsent' = unsent \ {f} /\ Accept(0, f) /\ go' = go
    BY <1>5 DEF QueueFrame
  <2>2. Held(0, "input")' = Held(0, "input") /\ Held(0, "process")' = Held(0, "process")
    BY <2>1 DEF Held
  <2>3. Placed(0) /\ f \notin Present(0)
    BY <1>1, <2>1 DEF PlaceInv
  <2>4. Present(0)' \subseteq Present(0) \cup {f}
    BY <1>1, <2>1, <2>2, <2>3, PlaceAccept
  <2> QED BY <2>1, <2>4
<1>6. ASSUME NEW b \in Branch, Raise(b)
      PROVE  unsent' \subseteq unsent /\ Present(0)' \subseteq Present(0) \cup unsent
  <2>1. <<b, "task">> \in Goroutines /\ node' = node /\ unsent' \subseteq unsent
    BY <1>1, <1>6 DEF Raise, Lane
  <2>2. OnlyMoves(<<b, "task">>)
    BY <1>1, <1>6, <2>1, Fields DEF Raise
  <2> QED BY <1>3, <2>1, <2>2
<1>7. ASSUME NEW b \in Branch, Consume(b)
      PROVE  unsent' \subseteq unsent /\ Present(0)' \subseteq Present(0) \cup unsent
  <2>1. <<b, "process">> \in Goroutines /\ node' = node /\ unsent' = unsent /\ Done(<<b, "process">>)
    BY <1>1, <1>7 DEF Consume, Lane
  <2>2. OnlyMoves(<<b, "process">>)
    BY <1>1, <2>1, Fields
  <2> QED BY <1>3, <2>1, <2>2
<1>8. ASSUME NEW g \in Goroutines, SinkStep(g)
      PROVE  unsent' \subseteq unsent /\ Present(0)' \subseteq Present(0) \cup unsent
  <2>1. /\ OnlyMoves(g) /\ node' = node /\ unsent' = unsent /\ go[g].pc # "idle"
        /\ go'[g].pc = "idle" \/ go'[g].frame = go[g].frame
    BY <1>8, SinkMoves
  <2> QED BY <1>3, <2>1
<1>9. ASSUME NEW g \in Goroutines, Arm(g) \/ PauseSystem(g) \/ PauseFrames(g)
      PROVE  unsent' \subseteq unsent /\ Present(0)' \subseteq Present(0) \cup unsent
  <2>1. PICK pc : Goto(g, pc) /\ node' = node /\ unsent' = unsent /\ go[g].pc # "idle"
    BY <1>9 DEF Arm, PauseSystem, PauseFrames
  <2>2. OnlyMoves(g) /\ go'[g].frame = go[g].frame
    BY <1>1, <2>1, Fields
  <2> QED BY <1>3, <2>1, <2>2
<1>10. ASSUME NEW g \in Goroutines, FanOut(g)
      PROVE  unsent' \subseteq unsent /\ Present(0)' \subseteq Present(0) \cup unsent
  <2>1. PICK b \in Branch : b = go[g].next
    BY Parts DEF GoroutineType
  <2>2. unsent' = unsent /\ Accept(b, go[g].frame) /\ go[g].pc = "fanOut"
    BY <1>10, <2>1 DEF FanOut
  <2>3. node'[0] = node[0]
    BY <1>1, <2>2 DEF Accept
  <2>4. OnlyMoves(g) /\ (go'[g].pc = "idle" \/ go'[g].frame = go[g].frame)
    <3>1. CASE Done(g)
      BY <1>1, <3>1, Fields
    <3>2. CASE go' = [go EXCEPT ![g].next = @ + 1]
      <4>1. OnlyMoves(g) /\ go'[g] = [go[g] EXCEPT !.next = @ + 1]
        BY <1>1, <3>2 DEF GoOK, OnlyMoves
      <4> QED BY <1>1, <4>1 DEF GoOK, GoroutineType
    <3> QED BY <1>10, <3>1, <3>2 DEF FanOut
  <2> QED BY <1>3, <2>2, <2>3, <2>4
<1>11. ASSUME NEW p \in Node, NodeStep(p)
      PROVE  unsent' \subseteq unsent /\ Present(0)' \subseteq Present(0) \cup unsent
  <2>1. PICK l \in {"input", "process"} : Moves(p, l)
    BY <1>11, NodeMoves
  <2>2. unsent' = unsent /\ \A x \in Node : x # p => node'[x] = node[x]
    BY <1>11, NodeMoves
  <2>3. <<p, l>> \in Goroutines
    BY <1>1 DEF Lane
  <2>4. CASE p # 0
    <3>1. p \in Branch
      BY <2>4, ParallelAssumption DEF Node, Branch
    <3> QED BY <1>1, <1>3, <2>1, <2>2, <2>3, <2>4, <3>1 DEF Moves
  <2>5. CASE p = 0
    <3>1. \A m \in {"input", "process"} : m # l => Held(0, m)' = Held(0, m)
      BY <1>1, <2>1, <2>5 DEF Moves, OnlyMoves, Held, Lane
    <3>2. Frames(node'[0].inputQueue) \cup Frames(node'[0].procQueue) \cup Held(0, l)' \subseteq Present(0)
      BY <2>1, <2>5 DEF Moves, Present
    <3>3. \A m \in {"input", "process"} : Held(0, m) \subseteq Present(0)
      BY DEF Present
    <3>4. Present(0)' \subseteq Present(0)
      BY <3>1, <3>2, <3>3 DEF Present
    <3> QED BY <2>2, <3>4
  <2> QED BY <2>4, <2>5
<1> QED BY <1>4, <1>5, <1>6, <1>7, <1>8, <1>9, <1>10, <1>11, NextSteps DEF FanOutStep

\* A StartFrame that is gone does not come back.
LEMMA GoneNext ==
  ASSUME TypeInv, TypeInv', PcInv, PlaceInv, [Next]_vars, NEW f, Gone(f)
  PROVE  Gone(f)'
<1>1. unsent' \subseteq unsent /\ Present(0)' \subseteq Present(0) \cup unsent
  BY PresentZero
<1>2. f \notin unsent' /\ f \notin Present(0)'
  BY <1>1 DEF Gone
<1>3. f \notin Held(0, "input") \cup Held(0, "process")
  BY DEF Gone, Present
<1>4. \A b \in Branch : ~ToFan(b, f)
  BY <1>3 DEF ToFan, Held, Fanning
<1>5. Owes(f) = {}
  BY <1>4 DEF Owes, Gone
<1>6. /\ Owes(f)' = {}
      /\ \A g \in Releasing' : go'[g].frame = f => g \in Releasing /\ go[g].frame = f
  BY <1>3, <1>5, OwesNext
<1>7. \A b \in Branch : ~Pending(b, f)'
  BY <1>6 DEF Owes
<1> QED BY <1>2, <1>6, <1>7 DEF Gone

\* The parallel pipeline hands its frame to one branch and goes on to the next.
LEMMA FanOutDoes ==
  ASSUME TypeInv, PcInv, NEW g \in Goroutines, FanOut(g)
  PROVE  \E b \in Branch, f \in Frame, l \in {"input", "process"} :
            /\ g = <<0, l>> /\ go[g].pc = "fanOut" /\ go[g].frame = f /\ go[g].next = b
            /\ Accept(b, f) /\ OnlyMoves(g)
            /\ \/ go'[g].pc = "idle" /\ b = N
               \/ go'[g].pc = "fanOut" /\ go'[g].frame = f /\ go'[g].next = b + 1
<1>1. GoOK
  BY Parts
<1>2. PICK b \in Branch, f \in Frame : b = go[g].next /\ f = go[g].frame /\ go[g].pc = "fanOut" /\ Accept(b, f)
  <2>1. go[g].next \in Branch /\ go[g].frame \in Frame
    BY Parts DEF FanOut, GoroutineType
  <2> QED BY <2>1 DEF FanOut
<1>3. PICK l \in {"input", "process"} : g = <<0, l>>
  <2>1. PICK p \in Node, l \in Lane : g = <<p, l>>
    BY DEF Goroutines
  <2>2. PcOK(g) /\ (p = 0 \/ p \in Branch)
    BY ParallelAssumption DEF PcInv, Node, Branch
  <2> QED BY <1>2, <2>1, <2>2 DEF PcOK, Release, Resume, Lane
<1>4. CASE b = N
  BY <1>1, <1>2, <1>3, <1>4, Fields DEF FanOut
<1>5. CASE b # N
  <2>1. go' = [go EXCEPT ![g].next = @ + 1]
    BY <1>2, <1>5 DEF FanOut
  <2>2. OnlyMoves(g) /\ go'[g] = [go[g] EXCEPT !.next = @ + 1]
    BY <1>1, <2>1 DEF GoOK, OnlyMoves
  <2>3. go'[g].pc = "fanOut" /\ go'[g].frame = f /\ go'[g].next = b + 1
    BY <1>1, <1>2, <2>2 DEF GoOK, GoroutineType
  <2> QED BY <1>2, <1>3, <2>2, <2>3
<1> QED BY <1>4, <1>5

\* What can happen to branch b in a step.
Untouched(b) == node'[b] = node[b] /\ In(b)' = In(b) /\ Pr(b)' = Pr(b)

Touches(b) ==
    \/ Untouched(b)
    \/ NodeStep(b)
    \/ Consume(b)
    \/ \E l \in {"input", "process"} : SinkStep(<<b, l>>)
    \/ \E g \in Goroutines : FanOut(g) /\ go[g].next = b

\* Nothing else can.
LEMMA BranchTouched ==
  ASSUME TypeInv, TypeInv', PcInv, PlaceInv, [Next]_vars, NEW b \in Branch
  PROVE  Touches(b)
<1>1. /\ GoOK /\ \A p \in Node, l \in Lane : <<p, l>> \in Goroutines
      /\ Branch \subseteq Node /\ 0 \notin Branch /\ 0 \in Node /\ node \in [Node -> NodeType]
  BY Parts DEF TypeInv, TypeOK
<1>2. ASSUME NEW p \in Node, NEW l \in Lane, OnlyMoves(<<p, l>>), p # b \/ l = "task", node'[b] = node[b]
      PROVE  Untouched(b)
  <2>1. \A m \in {"input", "process"} : <<b, m>> \in Goroutines /\ <<b, m>> # <<p, l>>
    BY <1>1, <1>2 DEF Lane
  <2> QED BY <1>2, <2>1 DEF OnlyMoves, In, Pr, Untouched
<1>3. CASE UNCHANGED vars
  BY <1>3 DEF vars, Untouched, In, Pr, Touches
<1>4. ASSUME NEW f \in Frame, QueueFrame(f) PROVE Untouched(b)
  <2>1. Accept(0, f) /\ go' = go
    BY <1>4 DEF QueueFrame
  <2>2. node'[b] = node[b]
    BY <1>1, <2>1 DEF Accept
  <2> QED BY <2>1, <2>2 DEF Untouched, In, Pr
<1>5. ASSUME NEW x \in Branch, Raise(x) PROVE Untouched(b)
  <2>1. <<x, "task">> \in Goroutines /\ node' = node /\ x \in Node /\ "task" \in Lane
    BY <1>1, <1>5 DEF Raise, Lane
  <2>2. OnlyMoves(<<x, "task">>)
    BY <1>1, <1>5, <2>1, Fields DEF Raise
  <2> QED BY <1>2, <2>1, <2>2
<1>6. ASSUME NEW x \in Branch, Consume(x) PROVE Touches(b)
  <2>1. <<x, "process">> \in Goroutines /\ node' = node /\ x \in Node /\ "process" \in Lane /\ Done(<<x, "process">>)
    BY <1>1, <1>6 DEF Consume, Lane
  <2>2. OnlyMoves(<<x, "process">>)
    BY <1>1, <2>1, Fields
  <2> QED BY <1>2, <1>6, <2>1, <2>2 DEF Touches
<1>7. ASSUME NEW p \in Node, NodeStep(p) PROVE Touches(b)
  <2>1. PICK l \in {"input", "process"} : Moves(p, l)
    BY <1>7, NodeMoves
  <2>2. b # p => node'[b] = node[b]
    BY <1>1, <1>7, NodeMoves
  <2>3. CASE p # b
    BY <1>2, <2>1, <2>2, <2>3 DEF Moves, Lane, Touches
  <2> QED BY <1>7, <2>3 DEF Touches
<1>8. ASSUME NEW g \in Goroutines, SinkStep(g) PROVE Touches(b)
  <2>1. OnlyMoves(g) /\ node' = node
    BY <1>8, SinkMoves
  <2>2. PICK p \in Node, l \in Lane : g = <<p, l>>
    BY DEF Goroutines
  <2>3. CASE p # b \/ l = "task"
    BY <1>2, <2>1, <2>2, <2>3 DEF Touches
  <2>4. CASE p = b /\ l # "task"
    BY <1>8, <2>2, <2>4 DEF Touches, Lane
  <2> QED BY <2>3, <2>4
<1>9. ASSUME NEW g \in Goroutines, Arm(g) \/ PauseSystem(g) \/ PauseFrames(g) PROVE Untouched(b)
  <2>1. PICK pc : Goto(g, pc) /\ node' = node /\ (go[g].pc \in Fanning \/ g[1] = 0)
    BY <1>9 DEF Arm, PauseSystem, PauseFrames, Fanning
  <2>2. OnlyMoves(g)
    BY <1>1, <2>1, Fields
  <2>3. PICK p \in Node, l \in Lane : g = <<p, l>>
    BY DEF Goroutines
  <2>4. p # b
    BY <1>1, <2>1, <2>3 DEF PcInv, PcOK, Fanning, Release, Resume
  <2> QED BY <1>2, <2>1, <2>2, <2>3, <2>4
<1>10. ASSUME NEW g \in Goroutines, FanOut(g) PROVE Touches(b)
  <2>1. PICK x \in Branch, f \in Frame, l \in {"input", "process"} :
            g = <<0, l>> /\ go[g].next = x /\ Accept(x, f) /\ OnlyMoves(g)
    BY <1>10, FanOutDoes
  <2>2. CASE x # b
    <3>1. node'[b] = node[b]
      BY <1>1, <2>1, <2>2 DEF Accept
    <3> QED BY <1>1, <1>2, <2>1, <3>1 DEF Touches, Lane
  <2>3. CASE x = b
    BY <1>10, <2>1, <2>3 DEF Touches
  <2> QED BY <2>2, <2>3
<1> QED BY <1>3, <1>4, <1>5, <1>6, <1>7, <1>8, <1>9, <1>10, NextSteps DEF FanOutStep, Touches

\* A branch once canceled stays so, and what is new at it the parallel pipeline
\* has just handed it.
LEMMA BranchGrows ==
  ASSUME TypeInv, TypeInv', PcInv, PlaceInv, [Next]_vars, NEW b \in Branch
  PROVE  /\ node[b].canceling => node'[b].canceling
         /\ \A f : f \in Present(b)' => \/ f \in Present(b)
                                        \/ \E l \in {"input", "process"} :
                                              f \in Held(0, l) /\ go[<<0, l>>].pc = "fanOut"
<1>1. /\ GoOK /\ \A p \in Node, l \in Lane : <<p, l>> \in Goroutines
      /\ b \in Node /\ 0 \in Node /\ b # 0 /\ node \in [Node -> NodeType] /\ node[b] \in NodeType
  BY Parts DEF TypeInv, TypeOK
<1> DEFINE Grows(f) == \/ f \in Present(b)
                       \/ \E l \in {"input", "process"} : f \in Held(0, l) /\ go[<<0, l>>].pc = "fanOut"
<1>2. CASE Untouched(b)
  BY <1>2 DEF Untouched, Present, Held, In, Pr
<1>3. ASSUME NEW g \in Goroutines, NEW m \in {"input", "process"}, g = <<b, m>>, OnlyMoves(g), node' = node,
             go'[g].pc = "idle" \/ (go'[g].frame = go[g].frame /\ go[g].pc # "idle")
      PROVE  /\ node[b].canceling => node'[b].canceling
             /\ \A f : f \in Present(b)' => Grows(f)
  <2>1. \A l \in {"input", "process"} : Held(b, l)' \subseteq Held(b, l)
    BY <1>1, <1>3 DEF OnlyMoves, Held, Lane
  <2> QED BY <1>3, <2>1 DEF Present
<1>4. CASE Consume(b)
  <2>1. <<b, "process">> \in Goroutines /\ node' = node /\ Done(<<b, "process">>)
    BY <1>1, <1>4 DEF Consume, Lane
  <2>2. OnlyMoves(<<b, "process">>) /\ go'[<<b, "process">>].pc = "idle"
    BY <1>1, <2>1, Fields
  <2> QED BY <1>3, <2>1, <2>2
<1>5. ASSUME NEW l \in {"input", "process"}, SinkStep(<<b, l>>)
      PROVE  /\ node[b].canceling => node'[b].canceling
             /\ \A f : f \in Present(b)' => Grows(f)
  <2>1. <<b, l>> \in Goroutines
    BY <1>1 DEF Lane
  <2> QED BY <1>3, <1>5, <2>1, SinkMoves
<1>6. CASE NodeStep(b)
  <2>1. PICK l \in {"input", "process"} : Moves(b, l)
    BY <1>1, <1>6, NodeMoves
  <2>2. \A m \in {"input", "process"} : m # l => Held(b, m)' = Held(b, m)
    BY <1>1, <2>1 DEF Moves, OnlyMoves, Held, Lane
  <2>3. Present(b)' \subseteq Present(b)
    <3>1. Frames(node'[b].inputQueue) \cup Frames(node'[b].procQueue) \cup Held(b, l)' \subseteq Present(b)
      BY <2>1 DEF Moves, Present
    <3>2. \A m \in {"input", "process"} : Held(b, m) \subseteq Present(b)
      BY DEF Present
    <3> QED BY <2>2, <3>1, <3>2 DEF Present
  <2>4. node[b].canceling => node'[b].canceling
    <3>1. CASE HandleCancel(b)
      BY <1>1, <3>1 DEF HandleCancel, NodeType
    <3>2. CASE HandOn(b) \/ TakeSystem(b)
      <4>1. PICK q, r : node' = [node EXCEPT ![b].inputQueue = q, ![b].procQueue = r] \/
                        node' = [node EXCEPT ![b].inputQueue = q]
        BY <3>2 DEF HandOn, TakeSystem
      <4> QED BY <1>1, <4>1 DEF NodeType
    <3>3. CASE HandleStart(b)
      BY <1>1, <3>3 DEF HandleStart, NodeType
    <3>4. CASE HandleInterruption(b) \/ Join(b) \/ TakeFrame(b)
      <4>1. \/ node' = node \/ node' = [node EXCEPT ![b].running = FALSE]
            \/ \E r : \/ node' = [node EXCEPT ![b].procQueue = r]
                      \/ node' = [node EXCEPT ![b].running = TRUE, ![b].procQueue = r]
        BY <3>4 DEF HandleInterruption, Join, TakeFrame
      <4> QED BY <1>1, <4>1 DEF NodeType
    <3> QED BY <1>1, <1>6, <3>1, <3>2, <3>3, <3>4 DEF NodeStep
  <2> QED BY <2>3, <2>4
<1>7. ASSUME NEW g \in Goroutines, FanOut(g), go[g].next = b
      PROVE  /\ node[b].canceling => node'[b].canceling
             /\ \A f : f \in Present(b)' => Grows(f)
  <2>1. PICK x \in Branch, f \in Frame, l \in {"input", "process"} :
            /\ g = <<0, l>> /\ go[g].next = x /\ Accept(x, f) /\ OnlyMoves(g) /\ go[g].pc = "fanOut" /\ go[g].frame = f
    BY <1>7, FanOutDoes
  <2>2. Held(b, "input")' = Held(b, "input") /\ Held(b, "process")' = Held(b, "process")
    BY <1>1, <2>1 DEF OnlyMoves, Held, Lane
  <2>3. f \in Held(0, l)
    BY <2>1 DEF Held
  <2>4. CASE node[b].canceling
    BY <1>7, <2>1, <2>2, <2>4 DEF Accept, Present
  <2>5. CASE ~node[b].canceling
    <3>1. f \notin Present(b)
      <4>1. b >= b
        BY ParallelAssumption DEF Branch
      <4>2. f \in Ahead(b)
        BY <1>7, <2>1, <2>3, <4>1 DEF Ahead, In, Pr
      <4> QED BY <4>2 DEF PlaceInv
    <3>2. Placed(b) /\ Accept(b, f)
      BY <1>1, <1>7, <2>1 DEF PlaceInv
    <3>3. Present(b)' \subseteq Present(b) \cup {f}
      BY <1>1, <2>2, <3>1, <3>2, PlaceAccept
    <3> QED BY <2>1, <2>3, <2>5, <3>3
  <2> QED BY <2>4, <2>5
<1> QED BY <1>2, <1>4, <1>5, <1>6, <1>7, BranchTouched DEF Touches

\* What can happen to a goroutine of the parallel pipeline in a step.
Fans(g) ==
    \/ go'[g] = go[g]
    \/ go[g].pc \notin Fanning /\ go'[g].pc \notin Fanning
    \/ go[g].pc \notin Fanning /\ go'[g].next = 1
    \/ /\ go[g].pc \in Fanning /\ go'[g].pc \in Fanning
       /\ go'[g].frame = go[g].frame /\ go'[g].next = go[g].next
    \/ FanOut(g)

\* Nothing else can.
LEMMA ZeroFans ==
  ASSUME TypeInv, TypeInv', PcInv, PlaceInv, [Next]_vars, NEW l \in {"input", "process"}
  PROVE  Fans(<<0, l>>)
<1>a. /\ GoOK /\ \A p \in Node, m \in Lane : <<p, m>> \in Goroutines
      /\ Branch \subseteq Node /\ 0 \notin Branch /\ 0 \in Node
  BY Parts
<1>b. PICK g \in Goroutines : g = <<0, l>>
  BY <1>a DEF Lane
<1>1. /\ GoOK /\ \A p \in Node, m \in Lane : <<p, m>> \in Goroutines
      /\ Branch \subseteq Node /\ 0 \notin Branch /\ 0 \in Node /\ g[1] = 0
  BY <1>a, <1>b
<1>2. PcOK(g)
  BY <1>1 DEF PcInv
<1>3. ASSUME NEW h \in Goroutines, OnlyMoves(h), h # g PROVE Fans(g)
  BY <1>1, <1>3 DEF OnlyMoves, Fans
<1>4. ASSUME go' = go PROVE Fans(g)
  BY <1>4 DEF Fans
<1>5. ASSUME NEW b \in Branch, Raise(b) \/ Consume(b) PROVE Fans(g)
  <2>1. PICK m \in Lane : (\E pc, f : Take(<<b, m>>, pc, f)) \/ Done(<<b, m>>)
    BY <1>5 DEF Raise, Consume, Lane
  <2>2. <<b, m>> \in Goroutines /\ <<b, m>> # g
    BY <1>1, <1>b
  <2>3. OnlyMoves(<<b, m>>)
    BY <1>1, <2>1, <2>2, Fields
  <2> QED BY <1>3, <2>2, <2>3
<1>6. ASSUME NEW p \in Node, NodeStep(p) PROVE Fans(g)
  <2>1. PICK m \in {"input", "process"} : Moves(p, m)
    BY <1>6, NodeMoves
  <2>2. <<p, m>> \in Goroutines
    BY <1>1 DEF Lane
  <2>3. CASE <<p, m>> = g
    BY <2>1, <2>3 DEF Moves, Fans, Fanning
  <2> QED BY <1>3, <2>1, <2>2, <2>3 DEF Moves
<1>7. ASSUME NEW h \in Goroutines, SinkStep(h) PROVE Fans(g)
  <2>1. OnlyMoves(h)
    BY <1>7, SinkMoves
  <2>2. h # g
    <3>1. h[1] \in Branch \/ go[h].pc \in {"push"} \cup Release \cup Resume
      BY <1>7 DEF SinkStep, emit, Push, sinkPush, flushBuffered, PushBuffered, emitSynchronized,
         PushSynchronized, ResumeSystem, ResumeFrames, Release, Resume
    <3> QED BY <1>1, <1>2, <3>1 DEF PcOK, Fanning, Release, Resume
  <2> QED BY <1>3, <2>1, <2>2
<1>8. ASSUME NEW h \in Goroutines, Arm(h) \/ PauseSystem(h) \/ PauseFrames(h) PROVE Fans(g)
  <2>1. PICK pc : Goto(h, pc) /\ pc \in Fanning /\ go[h].pc \in {"body", "pauseSystem", "pauseFrames"}
    BY <1>8 DEF Arm, PauseSystem, PauseFrames, Fanning
  <2>2. OnlyMoves(h) /\ go'[h].pc = pc /\ go'[h].frame = go[h].frame /\ go'[h].next = go[h].next
    BY <1>1, <2>1, Fields
  <2>3. CASE h = g
    BY <1>2, <2>1, <2>2, <2>3 DEF Fans, Fanning, PcOK
  <2> QED BY <1>3, <2>2, <2>3
<1>9. ASSUME NEW h \in Goroutines, FanOut(h) PROVE Fans(g)
  <2>1. OnlyMoves(h)
    BY <1>9, FanOutDoes
  <2> QED BY <1>3, <1>9, <2>1 DEF Fans
<1>10. ASSUME NEW h \in Goroutines, FanOutStep(h) PROVE Fans(g)
  BY <1>8, <1>9, <1>10 DEF FanOutStep
<1>11. (UNCHANGED vars \/ \E f \in Frame : QueueFrame(f)) => go' = go
  BY DEF vars, QueueFrame
<1>12. \/ go' = go
       \/ \E b \in Branch : Raise(b) \/ Consume(b)
       \/ \E p \in Node : NodeStep(p)
       \/ \E h \in Goroutines : FanOutStep(h) \/ SinkStep(h)
  BY <1>11, NextSteps
<1>13. Fans(g)
  BY <1>4, <1>5, <1>6, <1>7, <1>10, <1>12
<1> QED BY <1>b, <1>13

\* The CancelFrame that a branch is to be handed it gets, or has got one.
LEMMA FanKeeps ==
  ASSUME TypeInv, TypeInv', PcInv, PlaceInv, [Next]_vars, NEW b \in Branch,
         NEW f, Kind[f] = "cancel", ToFan(b, f)
  PROVE  ToFan(b, f)' \/ node'[b].canceling
<1>1. PICK l \in {"input", "process"} :
         go[<<0, l>>].frame = f /\ go[<<0, l>>].pc \in Fanning /\ b >= go[<<0, l>>].next
  BY DEF ToFan
<1>2. <<0, l>> \in Goroutines /\ b \in Node /\ node \in [Node -> NodeType] /\ node[b] \in NodeType
  BY Parts DEF Lane, TypeInv, TypeOK
<1>3. CASE FanOut(<<0, l>>)
  <2>1. PICK x \in Branch :
            /\ go[<<0, l>>].next = x /\ Accept(x, f)
            /\ \/ go'[<<0, l>>].pc = "idle" /\ x = N
               \/ go'[<<0, l>>].pc = "fanOut" /\ go'[<<0, l>>].frame = f /\ go'[<<0, l>>].next = x + 1
    BY <1>1, <1>2, <1>3, FanOutDoes
  <2>2. CASE x = b
    <3>1. node'[b].canceling
      BY <1>2, <2>1, <2>2 DEF Accept, NodeType
    <3> QED BY <3>1
  <2>3. CASE x # b
    <3>1. b >= x + 1 /\ x # N
      BY <1>1, <2>1, <2>3, ParallelAssumption DEF Branch
    <3>2. go'[<<0, l>>].pc \in Fanning /\ go'[<<0, l>>].frame = f /\ b >= go'[<<0, l>>].next
      BY <2>1, <3>1 DEF Fanning
    <3> QED BY <3>2 DEF ToFan
  <2> QED BY <2>2, <2>3
<1>4. CASE ~FanOut(<<0, l>>)
  <2>1. Fans(<<0, l>>)
    BY ZeroFans
  <2>2. go'[<<0, l>>].frame = f /\ go'[<<0, l>>].pc \in Fanning /\ b >= go'[<<0, l>>].next
    BY <1>1, <1>4, <2>1 DEF Fans
  <2> QED BY <2>2 DEF ToFan
<1> QED BY <1>3, <1>4

\* So the CancelFrame that has got to one branch gets to all.
LEMMA CoversNext ==
  ASSUME TypeInv, TypeInv', PcInv, PlaceInv, [Next]_vars, NEW f, Kind[f] = "cancel", Covers(f)
  PROVE  Covers(f)'
<1> DEFINE A == (f \in Held(0, "input") /\ In(0).pc \in Fanning) \/ (\E b \in Branch : f \in Present(b))
<1>1. 0 \in Node /\ <<0, "input">> \in Goroutines
  BY Parts DEF Lane
<1>2. CASE A
  <2>1. \A b \in Branch : node[b].canceling \/ ToFan(b, f)
    BY <1>2 DEF Covers
  <2>2. \A b \in Branch : node'[b].canceling \/ ToFan(b, f)'
    BY <2>1, BranchGrows, FanKeeps
  <2> QED BY <2>2 DEF Covers
<1>3. CASE ~A
  <2>1. ASSUME NEW b \in Branch, f \in Present(b)' PROVE FALSE
    <3>1. PICK l \in {"input", "process"} : f \in Held(0, l) /\ go[<<0, l>>].pc = "fanOut"
      BY <1>3, <2>1, BranchGrows
    <3>2. isSystemFrame(f)
      BY DEF isSystemFrame, SystemKinds
    <3>3. l = "input"
      BY <1>1, <3>1, <3>2 DEF PlaceInv, Placed
    <3> QED BY <1>3, <3>1, <3>3 DEF In, Fanning
  <2>2. ASSUME f \in Held(0, "input")', In(0)'.pc \in Fanning PROVE \A b \in Branch : ToFan(b, f)'
    <3>1. go'[<<0, "input">>].frame = f /\ go'[<<0, "input">>].pc \in Fanning
      BY <2>2 DEF Held, In
    <3>2. Fans(<<0, "input">>)
      BY ZeroFans
    <3>3. ~FanOut(<<0, "input">>)
      <4>1. SUFFICES ASSUME FanOut(<<0, "input">>) PROVE FALSE
        OBVIOUS
      <4>2. go[<<0, "input">>].pc = "fanOut" /\ go[<<0, "input">>].frame = f
        BY <1>1, <3>1, <4>1, FanOutDoes DEF Fanning
      <4> QED BY <1>3, <4>2 DEF Held, In, Fanning
    <3>4. go[<<0, "input">>].pc \notin Fanning \/ go[<<0, "input">>].frame # f
      BY <1>3 DEF Held, In, Fanning
    <3>5. go'[<<0, "input">>].next = 1
      BY <3>1, <3>2, <3>3, <3>4 DEF Fans
    <3>6. \A b \in Branch : b >= 1
      BY ParallelAssumption DEF Branch
    <3> QED BY <3>1, <3>5, <3>6 DEF ToFan
  <2> QED BY <2>1, <2>2 DEF Covers
<1> QED BY <1>2, <1>3

\* Taking a frame from a queue whose last system frame is a CancelFrame, when no
\* StartFrame is left, ends with that CancelFrame.
LEMMA LastSystem ==
  ASSUME NEW q \in Queue, q.start = <<>>, q.system # <<>>, NEW s, s = q.system, Kind[s[Len(s)]] = "cancel"
  PROVE  /\ head(q) = Head(s) /\ get(q).system = Tail(s)
         /\ \/ Tail(s) = <<>> /\ Kind[Head(s)] = "cancel"
            \/ Tail(s) # <<>> /\ Kind[Tail(s)[Len(Tail(s))]] = "cancel"
<1>1. s \in Seq(Frame) /\ s # <<>>
  BY DEF Queue
<1>2. /\ Head(s) = s[1] /\ Tail(s) \in Seq(Frame) /\ Len(Tail(s)) = Len(s) - 1
      /\ \A i \in 1..Len(Tail(s)) : Tail(s)[i] = s[i+1]
  BY <1>1, HeadAndTail
<1>3. head(q) = Head(s) /\ get(q).system = Tail(s)
  BY <1>1 DEF head, get, startsNext, systemNext, Queue
<1>4. Len(s) \in Nat /\ Len(s) # 0
  BY <1>1
<1>5. CASE Len(s) = 1
  BY <1>2, <1>3, <1>5
<1>6. CASE Len(s) # 1
  <2>1. PICK n \in Nat, t \in Seq(Frame) : n = Len(s) /\ t = Tail(s)
    BY <1>2, <1>4
  <2>2. n # 0 /\ n # 1 /\ Len(t) = n - 1 /\ \A i \in 1..(n - 1) : t[i] = s[i+1]
    BY <1>2, <1>4, <1>6, <2>1
  <2>3. n - 1 \in 1..(n - 1) /\ (n - 1) + 1 = n
    BY <2>2
  <2>4. t[n - 1] = s[n]
    BY <2>2, <2>3
  <2>5. t # <<>>
    <3>1. Len(t) # 0
      BY <2>2
    <3> QED BY <3>1
  <2> QED BY <1>3, <2>1, <2>2, <2>4, <2>5
<1> QED BY <1>5, <1>6

\* What a CancelFrame does to a branch that it has got to, step by step: the
\* branch reads it after every system frame before it, ...
LEMMA CanceledTake ==
  ASSUME TypeInv, PlaceInv, NEW b \in Branch, TakeSystem(b) \/ HandOn(b), Canceled(b),
         \A f \in Frame : isStartFrame(f) => ~Pending(b, f)
  PROVE  Canceled(b)'
<1> DEFINE q == node[b].inputQueue
<1>1. /\ GoOK /\ <<b, "input">> \in Goroutines /\ <<b, "process">> \in Goroutines /\ b \in Node
      /\ node \in [Node -> NodeType] /\ node[b] \in NodeType /\ q \in Queue
  BY Parts DEF Lane, TypeInv, TypeOK
<1>2. ~isEmpty(q) /\ In(b).pc = "idle"
  BY DEF TakeSystem, HandOn, InputReady, In
<1>3. Tiered(q)
  BY <1>1 DEF PlaceInv, Placed, Apart
<1>4. q.start = <<>>
  <2>1. SUFFICES ASSUME q.start # <<>> PROVE FALSE
    OBVIOUS
  <2>2. q.start \in Seq(Frame) /\ Head(q.start) = q.start[1] /\ 1 \in 1..Len(q.start) /\ Head(q.start) \in Frame
    BY <1>1, <2>1, HeadAndTail DEF Queue
  <2>3. Head(q.start) \in FramesOf(q.start)
    BY <2>2 DEF FramesOf
  <2>4. isStartFrame(Head(q.start)) /\ Head(q.start) \in Frames(q)
    BY <1>1, <1>3, <2>3, TiersApart DEF Frames
  <2> QED BY <2>2, <2>4 DEF Pending
<1>5. \/ q.system # <<>> /\ Kind[q.system[Len(q.system)]] = "cancel"
      \/ q.system = <<>> /\ ~node[b].running /\ Pr(b).pc = "idle"
  BY <1>2 DEF Canceled
<1>6. CASE HandOn(b)
  <2>1. PICK r : node' = [node EXCEPT ![b].inputQueue = get(q), ![b].procQueue = r]
    BY <1>6 DEF HandOn
  <2>2. ~isSystemFrame(head(q)) /\ go' = go
    BY <1>6 DEF HandOn
  <2>3. q.system = <<>>
    <3>1. SUFFICES ASSUME q.system # <<>> PROVE FALSE
      OBVIOUS
    <3>2. head(q) = Head(q.system) /\ q.system \in Seq(Frame)
      BY <1>1, <1>4, <3>1 DEF head, startsNext, systemNext, Queue
    <3>3. Head(q.system) = q.system[1] /\ 1 \in 1..Len(q.system)
      BY <3>1, <3>2, HeadAndTail
    <3>4. Head(q.system) \in FramesOf(q.system)
      BY <3>3 DEF FramesOf
    <3> QED BY <1>1, <1>3, <2>2, <3>2, <3>4, TiersApart
  <2>4. get(q).system = <<>>
    BY <1>1, <1>2, <1>3, <2>2, <2>3, GetTiers
  <2>5. node'[b].inputQueue = get(q) /\ node'[b].running = node[b].running
    BY <1>1, <2>1 DEF NodeType
  <2>6. In(b)' = In(b) /\ Pr(b)' = Pr(b)
    BY <2>2 DEF In, Pr
  <2> QED BY <1>2, <1>5, <2>3, <2>4, <2>5, <2>6 DEF Canceled
<1>7. CASE TakeSystem(b)
  <2>1. node' = [node EXCEPT ![b].inputQueue = get(q)] /\ isSystemFrame(head(q))
        /\ Take(<<b, "input">>, "handle", head(q))
    BY <1>7 DEF TakeSystem
  <2>2. node'[b].inputQueue = get(q)
    BY <1>1, <2>1 DEF NodeType
  <2>3. In(b)'.pc = "handle" /\ In(b)'.frame = head(q)
    BY <1>1, <2>1, Fields DEF In
  <2>4. q.system # <<>>
    <3>1. SUFFICES ASSUME q.system = <<>> PROVE FALSE
      OBVIOUS
    <3>2. head(q) = Head(q.other) /\ q.other # <<>> /\ q.other \in Seq(Frame)
      BY <1>1, <1>2, <1>4, <3>1 DEF head, startsNext, systemNext, isEmpty, Queue
    <3>3. Head(q.other) = q.other[1] /\ 1 \in 1..Len(q.other)
      BY <3>2, HeadAndTail
    <3>4. Head(q.other) \in FramesOf(q.other)
      BY <3>3 DEF FramesOf
    <3> QED BY <1>1, <1>3, <2>1, <3>2, <3>4, TiersApart
  <2>5. PICK s : s = q.system /\ Kind[s[Len(s)]] = "cancel"
    BY <1>5, <2>4
  <2>6. /\ head(q) = Head(s) /\ get(q).system = Tail(s)
        /\ \/ Tail(s) = <<>> /\ Kind[Head(s)] = "cancel"
           \/ Tail(s) # <<>> /\ Kind[Tail(s)[Len(Tail(s))]] = "cancel"
    BY <1>1, <1>4, <2>4, <2>5, LastSystem
  <2>7. CASE Tail(s) = <<>> /\ Kind[Head(s)] = "cancel"
    BY <2>2, <2>3, <2>6, <2>7 DEF Canceled, CancelsNow
  <2>8. CASE Tail(s) # <<>> /\ Kind[Tail(s)[Len(Tail(s))]] = "cancel"
    BY <2>2, <2>6, <2>8 DEF Canceled
  <2> QED BY <2>6, <2>7, <2>8
<1> QED BY <1>6, <1>7

\* ... stops its process goroutine, waits for it, and handles nothing more.
LEMMA CanceledNode ==
  ASSUME TypeInv, TypeInv', PlaceInv, NEW b \in Branch, NodeStep(b), Canceled(b),
         \A f \in Frame : isStartFrame(f) => ~Pending(b, f)
  PROVE  Canceled(b)'
<1> DEFINE s == node[b].inputQueue.system
<1>1. /\ GoOK /\ <<b, "input">> \in Goroutines /\ <<b, "process">> \in Goroutines /\ b \in Node /\ b # 0
      /\ node \in [Node -> NodeType] /\ node[b] \in NodeType /\ <<b, "input">> # <<b, "process">>
  BY Parts DEF Lane, TypeInv, TypeOK
<1>2. CASE TakeSystem(b) \/ HandOn(b)
  BY <1>2, CanceledTake
<1>3. ASSUME node'[b].inputQueue = node[b].inputQueue, s # <<>> PROVE Canceled(b)'
  BY <1>3 DEF Canceled
<1>4. CASE HandleStart(b)
  <2>1. In(b).pc = "handle" /\ isStartFrame(In(b).frame) /\ In(b).frame \in Frame
    BY <1>1, <1>4, Parts DEF HandleStart, Handles, In, isStartFrame
  <2> QED BY <2>1 DEF Pending, In
<1>5. CASE HandleCancel(b)
  <2>1. /\ In(b).pc = "handle" /\ Goto(<<b, "input">>, "join") /\ Kind[In(b).frame] = "cancel"
        /\ node' = [node EXCEPT ![b].canceling = TRUE, ![b].running = FALSE]
    BY <1>5 DEF HandleCancel, Handles, In
  <2>2. node'[b].inputQueue = node[b].inputQueue /\ node'[b].running = FALSE
    BY <1>1, <2>1 DEF NodeType
  <2>3. In(b)'.pc = "join" /\ In(b)'.frame = In(b).frame
    BY <1>1, <2>1, Fields DEF In
  <2>4. CASE s = <<>>
    BY <2>1, <2>2, <2>3, <2>4 DEF Canceled, CancelsNow
  <2> QED BY <1>3, <2>2, <2>4
<1>6. CASE HandleInterruption(b)
  <2>1. /\ In(b).pc = "handle" /\ Kind[In(b).frame] = "interruption"
        /\ (\E r : node' = [node EXCEPT ![b].procQueue = r]) \/ node' = [node EXCEPT ![b].running = FALSE]
    BY <1>6 DEF HandleInterruption, Handles, In
  <2>2. node'[b].inputQueue = node[b].inputQueue
    BY <1>1, <2>1 DEF NodeType
  <2>3. s # <<>>
    BY <2>1 DEF Canceled, CancelsNow
  <2> QED BY <1>3, <2>2, <2>3
<1>7. CASE Join(b)
  <2>1. /\ In(b).pc = "join" /\ Pr(b).pc = "idle" /\ Goto(<<b, "input">>, "body")
        /\ node' = node \/ \E r : node' = [node EXCEPT ![b].running = TRUE, ![b].procQueue = r]
        /\ Kind[In(b).frame] # "interruption" => node' = node
    BY <1>7 DEF Join, In, Pr
  <2>2. node'[b].inputQueue = node[b].inputQueue
    BY <1>1, <2>1 DEF NodeType
  <2>3. CASE s = <<>>
    <3>1. CancelsNow(b) /\ ~node[b].running
      BY <2>1, <2>3 DEF Canceled
    <3>2. node' = node
      BY <2>1, <3>1 DEF CancelsNow
    <3>3. OnlyMoves(<<b, "input">>) /\ In(b)'.pc = "body" /\ In(b)'.frame = In(b).frame
      BY <1>1, <2>1, Fields DEF In
    <3>4. Pr(b)' = Pr(b)
      BY <1>1, <3>3 DEF OnlyMoves, Pr
    <3> QED BY <2>1, <2>3, <3>1, <3>2, <3>3, <3>4 DEF Canceled, CancelsNow
  <2> QED BY <1>3, <2>2, <2>3
<1>8. CASE TakeFrame(b)
  <2>1. /\ Pr(b).pc = "idle" /\ node[b].running /\ (\E r : node' = [node EXCEPT ![b].procQueue = r])
        /\ \E pc, f : Take(<<b, "process">>, pc, f)
    BY <1>8 DEF TakeFrame, Pr
  <2>2. node'[b].inputQueue = node[b].inputQueue
    BY <1>1, <2>1 DEF NodeType
  <2>3. CASE s = <<>>
    <3>1. CancelsNow(b) /\ In(b).pc = "handle"
      BY <2>1, <2>3 DEF Canceled
    <3>2. In(b)' = In(b)
      BY <1>1, <2>1, Fields DEF OnlyMoves, In
    <3> QED BY <2>2, <2>3, <3>1, <3>2 DEF Canceled, CancelsNow
  <2> QED BY <1>3, <2>2, <2>3
<1> QED BY <1>1, <1>2, <1>4, <1>5, <1>6, <1>7, <1>8 DEF NodeStep

\* Every step of a canceled branch keeps it from handling another frame.
LEMMA CanceledNext ==
  ASSUME TypeInv, TypeInv', PcInv, PlaceInv, [Next]_vars, NEW b \in Branch,
         \A f \in Frame : isStartFrame(f) => Gone(f),
         \A f \in Frame : Kind[f] = "cancel" => Covers(f),
         node[b].canceling => Canceled(b), node'[b].canceling
  PROVE  Canceled(b)'
<1>1. /\ GoOK /\ <<b, "input">> \in Goroutines /\ <<b, "process">> \in Goroutines /\ b \in Node /\ b # 0
      /\ node \in [Node -> NodeType] /\ node[b] \in NodeType /\ node[b].inputQueue \in Queue
      /\ \A f \in Frame : isStartFrame(f) => ~Pending(b, f)
  BY Parts DEF Lane, TypeInv, TypeOK, Gone
<1>2. CASE Untouched(b)
  BY <1>2 DEF Untouched, Canceled, CancelsNow
<1>3. CASE NodeStep(b)
  <2>1. CASE node[b].canceling
    BY <1>1, <1>3, <2>1, CanceledNode
  <2>2. CASE ~node[b].canceling
    <3>1. CASE HandleCancel(b)
      <4>1. PICK f \in Frame : f = In(b).frame /\ Kind[f] = "cancel" /\ In(b).pc = "handle"
        BY <1>1, <3>1, Parts DEF HandleCancel, Handles, In
      <4>2. f \in Present(b)
        BY <4>1 DEF Present, Held, In
      <4>3. ~ToFan(b, f)
        BY <4>2, NotBoth
      <4>4. node[b].canceling
        BY <4>1, <4>2, <4>3 DEF Covers
      <4> QED BY <2>2, <4>4
    <3>2. CASE ~HandleCancel(b)
      <4>1. \/ node' = node
            \/ \E q, r : \/ node' = [node EXCEPT ![b].inputQueue = q, ![b].procQueue = r]
                         \/ node' = [node EXCEPT ![b].inputQueue = q]
                         \/ node' = [node EXCEPT ![b].procQueue = r]
                         \/ node' = [node EXCEPT ![b].running = TRUE, ![b].procQueue = r]
            \/ node' = [node EXCEPT ![b].started = TRUE, ![b].running = TRUE]
            \/ node' = [node EXCEPT ![b].running = FALSE]
        BY <1>1, <1>3, <3>2 DEF NodeStep, HandOn, TakeSystem, HandleStart, HandleInterruption, Join, TakeFrame
      <4>2. node'[b].canceling = node[b].canceling
        BY <1>1, <4>1 DEF NodeType
      <4> QED BY <2>2, <4>2
    <3> QED BY <3>1, <3>2
  <2> QED BY <2>1, <2>2
<1>4. CASE Consume(b) \/ SinkStep(<<b, "process">>)
  <2>1. OnlyMoves(<<b, "process">>) /\ node' = node /\ Pr(b).pc # "idle"
    <3>1. CASE Consume(b)
      BY <1>1, <3>1, Fields DEF Consume, Pr
    <3>2. CASE SinkStep(<<b, "process">>)
      BY <1>1, <3>2, SinkMoves DEF Pr
    <3> QED BY <1>4, <3>1, <3>2
  <2>2. In(b)' = In(b)
    BY <1>1, <2>1 DEF OnlyMoves, In
  <2> QED BY <2>1, <2>2 DEF Canceled, CancelsNow
<1>5. CASE SinkStep(<<b, "input">>)
  <2>1. /\ OnlyMoves(<<b, "input">>) /\ node' = node /\ In(b).pc # "idle"
        /\ In(b)'.pc = "idle" \/ In(b)'.frame = In(b).frame
    BY <1>1, <1>5, SinkMoves DEF In
  <2>2. Pr(b)' = Pr(b)
    BY <1>1, <2>1 DEF OnlyMoves, Pr
  <2>3. In(b).pc \notin {"handle", "join"}
    BY <1>5 DEF SinkStep, emit, Push, sinkPush, flushBuffered, PushBuffered, emitSynchronized,
       PushSynchronized, ResumeSystem, ResumeFrames, In
  <2>4. In(b)'.pc \notin {"handle", "join"}
    <3>1. CASE Done(<<b, "input">>)
      BY <1>1, <3>1, Fields DEF In
    <3>2. CASE ~Done(<<b, "input">>)
      <4>1. \/ \E pc \in {"push", "flush"} \cup Release \cup Resume : Goto(<<b, "input">>, pc)
            \/ \E it : \/ go' = [go EXCEPT ![<<b, "input">>].pc = "pushBuffered", ![<<b, "input">>].item = it]
                       \/ go' = [go EXCEPT ![<<b, "input">>].pc = "flush", ![<<b, "input">>].item = it]
        BY <1>5, <3>2 DEF SinkStep, emit, Push, sinkPush, flushBuffered, PushBuffered, emitSynchronized,
           PushSynchronized, ResumeSystem, ResumeFrames, afterReport, afterFlush, afterSync, Release, Resume
      <4>2. ASSUME NEW pc \in {"push", "flush"} \cup Release \cup Resume, Goto(<<b, "input">>, pc)
            PROVE  In(b)'.pc = pc /\ pc \notin {"handle", "join"}
        BY <1>1, <4>2, Fields DEF In, Release, Resume
      <4>3. ASSUME NEW it, NEW pc \in {"pushBuffered", "flush"},
                   go' = [go EXCEPT ![<<b, "input">>].pc = pc, ![<<b, "input">>].item = it]
            PROVE  In(b)'.pc = pc
        BY <1>1, <4>3 DEF GoOK, GoroutineType, In
      <4> QED BY <4>1, <4>2, <4>3
    <3> QED BY <3>1, <3>2
  <2> QED BY <2>1, <2>2, <2>3, <2>4 DEF Canceled, CancelsNow
<1>6. ASSUME NEW g \in Goroutines, FanOut(g), go[g].next = b PROVE Canceled(b)'
  <2>1. PICK f \in Frame, l \in {"input", "process"} : g = <<0, l>> /\ Accept(b, f) /\ OnlyMoves(g)
    BY <1>6, FanOutDoes
  <2>2. In(b)' = In(b) /\ Pr(b)' = Pr(b)
    BY <1>1, <2>1 DEF OnlyMoves, In, Pr
  <2>3. CASE node[b].canceling
    BY <2>1, <2>2, <2>3 DEF Accept, Canceled, CancelsNow
  <2>4. CASE ~node[b].canceling
    <3>1. node'[b].canceling = (b \in Branch /\ Kind[f] = "cancel") /\ node'[b].inputQueue = push(node[b].inputQueue, f)
      BY <1>1, <2>1, <2>4 DEF Accept, NodeType
    <3>2. Kind[f] = "cancel" /\ ~isStartFrame(f) /\ isSystemFrame(f)
      BY <3>1 DEF isStartFrame, isSystemFrame, SystemKinds
    <3>3. PICK s \in Seq(Frame) : s = node[b].inputQueue.system
      BY <1>1 DEF Queue
    <3>4. node'[b].inputQueue.system = Append(s, f)
      BY <1>1, <3>1, <3>2, <3>3 DEF push, Queue
    <3>5. Append(s, f) # <<>> /\ Append(s, f)[Len(Append(s, f))] = f
      <4>1. /\ Append(s, f) \in Seq(Frame) /\ Len(Append(s, f)) = Len(s) + 1 /\ Len(s) \in Nat
            /\ Append(s, f)[Len(s) + 1] = f
        BY AppendTo
      <4> QED BY <4>1
    <3> QED BY <3>2, <3>4, <3>5 DEF Canceled
  <2> QED BY <2>3, <2>4
<1>7. Touches(b)
  BY BranchTouched
<1> QED BY <1>2, <1>3, <1>4, <1>5, <1>6, <1>7 DEF Touches

\* Every step keeps the phase, or begins the next.
LEMMA PhaseNext ==
  ASSUME OwnPlain, OneEach, TypeInv, TypeInv', PcInv, PlaceInv, CountInv, LeadInv, PhaseInv, [Next]_vars
  PROVE  PhaseInv'
<1>1. CASE out = <<>> /\ NoCancel
  BY <1>1, PhaseEarly
<1>2. CASE \E b \in Branch : Flushing(b)
  BY <1>2, PhaseFlush
<1>3. CASE Running
  <2>1. \A f \in Frame : isStartFrame(f) => Gone(f)'
    BY <1>3, GoneNext DEF Running
  <2>2. \A f \in Frame : Kind[f] = "cancel" => Covers(f)'
    BY <1>3, CoversNext DEF Running
  <2>3. \A b \in Branch : node'[b].canceling => Canceled(b)'
    BY <1>3, CanceledNext DEF Running
  <2>4. Running'
    BY <2>1, <2>2, <2>3 DEF Running
  <2> QED BY <2>4 DEF PhaseInv
<1> QED BY <1>1, <1>2, <1>3 DEF PhaseInv

\* Of any number of branches, none of which pushes a lifecycle frame of its own,
\* and with at most one frame of each lifecycle kind, at most one goroutine is
\* in the middle of a release: the branch that flushes the buffer and pushes the
\* StartFrame, the EndFrame or the CancelFrame (sinkPush, flushBuffered) is
\* alone, also when the CancelFrame overtakes the EndFrame.
THEOREM OneReleaseHolds == OwnPlain /\ OneEach => (Spec => []OneRelease)
<1>1. SUFFICES ASSUME OwnPlain, OneEach PROVE Spec => []OneRelease
  OBVIOUS
<1> DEFINE Inv == TypeInv /\ LeadInv /\ PcInv /\ PlaceInv /\ CountInv /\ PhaseInv
<1>2. Init => Inv
  BY TypeInit, LeadInit, PcInit, PlaceInit, CountInit, PhaseInit
<1>3. Inv /\ [Next]_vars => Inv'
  <2> SUFFICES ASSUME Inv, [Next]_vars PROVE Inv'
    OBVIOUS
  <2>1. TypeInv'
    BY TypeNext
  <2>2. LeadInv' /\ PcInv'
    BY <1>1, LeadNext, PcNext
  <2>3. PlaceInv' /\ CountInv'
    BY <2>1, PlaceNext, CountNext
  <2>4. PhaseInv'
    BY <1>1, <2>1, PhaseNext
  <2> QED BY <2>1, <2>2, <2>3, <2>4
<1>4. Inv => OneRelease
  BY <1>1, OneReleaseFrom
<1> QED BY <1>2, <1>3, <1>4, PTL DEF Spec

-----------------------------------------------------------------------------
(***************************************************************************)
(* The EndFrame trails.  A data or control frame x that was queued ahead   *)
(* of the EndFrame e stays ahead of it at every node (OrderAt), is past    *)
(* the parallel pipeline before e is fanned out, and past a branch before  *)
(* the branch reports e.  So counter[e] is at least the number of branches *)
(* that owe e or have x still (Late), x is at no branch once e is          *)
(* released, and behind the flush it is nowhere any more (Spent).          *)
(***************************************************************************)
Sorted(s, x, e) == \A i, j \in 1..Len(s) : s[i] = x /\ s[j] = e => i < j

\* In a line that is in the hands h first, then in q, then in i.
Ordered(i, q, h, x, e) ==
    /\ Sorted(i, x, e) /\ Sorted(q, x, e)
    /\ x \in FramesOf(i) => e \notin FramesOf(q) \cup h
    /\ x \in FramesOf(q) => e \notin h

OrderAt(p, x, e) ==
    Ordered(node[p].inputQueue.other, node[p].procQueue.other, Held(p, "process"), x, e)

\* e has been armed and is on its way to a branch or at one.
Sent(e) == \E b \in Branch : e \in Present(b) \/ ToFan(b, e)

Late(x, e) == {b \in Branch : b \in Owes(e) \/ x \in Present(b)}

\* The buffer has been flushed for e.
Leaving(e) == \/ e \in FramesOf(out)
              \/ \E g \in Goroutines : go[g].frame = e /\ go[g].pc \in {"synchronized", "pushSynchronized"}

Spent(x) == /\ \A p \in Node : x \notin Present(p)
            /\ x \notin FramesOf(buffered)
            /\ \A g \in Goroutines : Carries(g) => Carried(g) # x

Trails(x, e) ==
    /\ \A p \in Node : OrderAt(p, x, e)
    /\ Sent(e) => x \notin Present(0)
    /\ Owes(e) # {} => counter[e] >= Cardinality(Late(x, e))
    /\ \A g \in Releasing : go[g].frame = e => \A b \in Branch : x \notin Present(b)
    /\ Leaving(e) => Spent(x)

\* What has been queued or seen is not unsent, and a lifecycle frame is neither
\* buffered nor pushed like another.
SentInv ==
    /\ Distinct(arrived) /\ FramesOf(arrived) \cap unsent = {} /\ seen \cap unsent = {}
    /\ \A b \in Branch : go[<<b, "task">>].pc # "idle" =>
           go[<<b, "task">>].frame \notin unsent \cup FramesOf(arrived)
    /\ \A f \in FramesOf(buffered) : ~isLifecycle(f)
    /\ \A g \in Goroutines : /\ go[g].pc = "push" => ~isLifecycle(go[g].frame)
                             /\ go[g].pc = "pushBuffered" => ~isLifecycle(go[g].item)

TrailInv ==
    /\ \A x, e \in Frame : ~isSystemFrame(x) /\ Kind[e] = "end" /\ Before(x, e) => Trails(x, e)
    /\ EndTrails

\* Two frames in a sequence stay in order when another is appended, ...
LEMMA SortedAppend ==
  ASSUME NEW s \in Seq(Frame), NEW y \in Frame, NEW x, NEW e, x # e, Sorted(s, x, e),
         y = x => e \notin FramesOf(s)
  PROVE  Sorted(Append(s, y), x, e) /\ FramesOf(Append(s, y)) = FramesOf(s) \cup {y}
<1>1. /\ Len(Append(s, y)) = Len(s) + 1 /\ Append(s, y)[Len(s) + 1] = y /\ Len(s) \in Nat
      /\ \A i \in 1..Len(s) : Append(s, y)[i] = s[i]
      /\ FramesOf(Append(s, y)) = FramesOf(s) \cup {y}
  BY AppendTo
<1>2. ASSUME NEW i \in 1..(Len(s) + 1), NEW j \in 1..(Len(s) + 1), Append(s, y)[i] = x, Append(s, y)[j] = e
      PROVE  i < j
  <2>1. CASE i = Len(s) + 1
    <3>1. y = x /\ j # i
      BY <1>1, <1>2, <2>1
    <3>2. j \in 1..Len(s)
      BY <1>1, <2>1, <3>1
    <3>3. s[j] = e
      BY <1>1, <1>2, <3>2
    <3> QED BY <3>1, <3>2, <3>3 DEF FramesOf
  <2>2. CASE i \in 1..Len(s) /\ j = Len(s) + 1
    BY <1>1, <2>2
  <2>3. CASE i \in 1..Len(s) /\ j \in 1..Len(s)
    BY <1>1, <1>2, <2>3 DEF Sorted
  <2>4. \A k \in 1..(Len(s) + 1) : k = Len(s) + 1 \/ k \in 1..Len(s)
    BY <1>1
  <2> QED BY <2>1, <2>2, <2>3, <2>4
<1> QED BY <1>1, <1>2 DEF Sorted

\* ... when the first is taken, ...
LEMMA SortedTail ==
  ASSUME NEW s \in Seq(Frame), s # <<>>, NEW x, NEW e, Sorted(s, x, e)
  PROVE  /\ Sorted(Tail(s), x, e) /\ FramesOf(s) = FramesOf(Tail(s)) \cup {Head(s)}
         /\ Head(s) = e => x \notin FramesOf(s)
<1>1. /\ Head(s) = s[1] /\ Len(Tail(s)) = Len(s) - 1 /\ Len(s) \in Nat /\ Len(s) # 0
      /\ \A i \in 1..Len(Tail(s)) : Tail(s)[i] = s[i+1]
  BY HeadAndTail
<1>2. PICK n \in Nat, t \in Seq(Frame) : n = Len(s) /\ t = Tail(s)
  BY <1>1, HeadAndTail
<1>3. n # 0 /\ Len(t) = n - 1 /\ (\A i \in 1..(n - 1) : t[i] = s[i+1]) /\ 1 \in 1..n
  BY <1>1, <1>2
<1>4. \A i \in 1..(n - 1) : i + 1 \in 1..n /\ i \in Int
  BY <1>2
<1>5. Sorted(t, x, e)
  <2>1. ASSUME NEW i \in 1..(n - 1), NEW j \in 1..(n - 1), t[i] = x, t[j] = e PROVE i < j
    <3>1. i + 1 < j + 1
      BY <1>2, <1>3, <1>4, <2>1 DEF Sorted
    <3> QED BY <1>4, <3>1
  <2> QED BY <1>3, <2>1 DEF Sorted
<1>6. FramesOf(s) = FramesOf(t) \cup {Head(s)}
  <2>1. ASSUME NEW y \in FramesOf(s) PROVE y \in FramesOf(t) \cup {Head(s)}
    <3>1. PICK k \in 1..n : y = s[k]
      BY <1>2 DEF FramesOf
    <3>2. CASE k = 1
      BY <1>1, <3>1, <3>2
    <3>3. CASE k # 1
      <4>1. k - 1 \in 1..(n - 1) /\ (k - 1) + 1 = k
        BY <1>2, <3>3
      <4>2. t[k - 1] = y
        BY <1>3, <3>1, <4>1
      <4> QED BY <1>3, <4>1, <4>2 DEF FramesOf
    <3> QED BY <3>2, <3>3
  <2>2. ASSUME NEW y \in FramesOf(t) PROVE y \in FramesOf(s)
    <3>1. PICK k \in 1..(n - 1) : y = t[k]
      BY <1>3, <2>2 DEF FramesOf
    <3> QED BY <1>2, <1>3, <1>4, <3>1 DEF FramesOf
  <2>3. Head(s) \in FramesOf(s)
    BY <1>1, <1>2, <1>3 DEF FramesOf
  <2> QED BY <2>1, <2>2, <2>3
<1>7. ASSUME Head(s) = e, x \in FramesOf(s) PROVE FALSE
  <2>1. PICK k \in 1..n : s[k] = x
    BY <1>2, <1>7 DEF FramesOf
  <2>2. k < 1
    BY <1>1, <1>2, <1>3, <1>7, <2>1 DEF Sorted
  <2> QED BY <2>2
<1> QED BY <1>2, <1>5, <1>6, <1>7

\* ... when one is put in front, ...
LEMMA SortedFront ==
  ASSUME NEW s \in Seq(Frame), NEW y \in Frame, NEW x, NEW e, x # e, Sorted(s, x, e),
         y = e => x \notin FramesOf(s)
  PROVE  Sorted(<<y>> \o s, x, e) /\ FramesOf(<<y>> \o s) = FramesOf(s) \cup {y}
<1> DEFINE r == <<y>> \o s
           n == Len(s)
<1>1. n \in Nat
  OBVIOUS
<1>2. Len(r) = n + 1 /\ r[1] = y /\ \A i \in 1..n : r[i+1] = s[i]
  OBVIOUS
<1> HIDE DEF r
<1>3. \A k \in 1..(n + 1) : k = 1 \/ (k - 1 \in 1..n /\ (k - 1) + 1 = k)
  BY <1>1
<1>4. \A k \in 1..(n + 1) : k # 1 => k - 1 \in 1..n /\ r[k] = s[k - 1]
  BY <1>2, <1>3
<1>5. ASSUME NEW i \in 1..(n + 1), NEW j \in 1..(n + 1), r[i] = x, r[j] = e PROVE i < j
  <2>1. CASE j = 1
    <3>1. y = e /\ i # 1
      BY <1>2, <1>5, <2>1
    <3>2. i - 1 \in 1..n /\ s[i - 1] = x
      BY <1>4, <1>5, <3>1
    <3> QED BY <1>1, <3>1, <3>2 DEF FramesOf
  <2>2. CASE i = 1 /\ j # 1
    BY <1>1, <2>2
  <2>3. CASE i # 1 /\ j # 1
    <3>1. i - 1 < j - 1
      BY <1>1, <1>4, <1>5, <2>3 DEF Sorted
    <3> QED BY <3>1
  <2> QED BY <2>1, <2>2, <2>3
<1>6. FramesOf(r) = FramesOf(s) \cup {y}
  <2>1. ASSUME NEW z \in FramesOf(r) PROVE z \in FramesOf(s) \cup {y}
    BY <1>1, <1>2, <1>4, <2>1 DEF FramesOf
  <2>2. ASSUME NEW z \in FramesOf(s) PROVE z \in FramesOf(r)
    <3>1. PICK k \in 1..n : z = s[k]
      BY <1>1, <2>2 DEF FramesOf
    <3>2. k + 1 \in 1..(n + 1) /\ r[k + 1] = z
      BY <1>1, <1>2, <3>1
    <3> QED BY <1>2, <3>2 DEF FramesOf
  <2>3. y \in FramesOf(r)
    <3>1. 1 \in 1..(n + 1)
      BY <1>1
    <3> QED BY <1>2, <3>1 DEF FramesOf
  <2> QED BY <2>1, <2>2, <2>3
<1> QED BY <1>1, <1>2, <1>5, <1>6 DEF Sorted, r

\* ... and when the interruptible ones are dropped.
LEMMA SortedKeep ==
  ASSUME NEW s \in Seq(Frame), NEW x, NEW e, Sorted(s, x, e)
  PROVE  Sorted(keep(s), x, e) /\ FramesOf(keep(s)) \subseteq FramesOf(s)
<1>1. PICK from \in [1..Len(keep(s)) -> 1..Len(s)] :
         /\ \A k \in 1..Len(keep(s)) : keep(s)[k] = s[from[k]]
         /\ \A k, l \in 1..Len(keep(s)) : k < l => from[k] < from[l]
  BY KeepOrder
<1>2. keep(s) \in Seq(Frame) /\ FramesOf(keep(s)) \subseteq FramesOf(s)
  BY KeepProperties
<1>3. PICK m \in Nat : m = Len(keep(s))
  BY <1>2
<1>4. ASSUME NEW i \in 1..m, NEW j \in 1..m, keep(s)[i] = x, keep(s)[j] = e PROVE i < j
  <2>1. from[i] < from[j] /\ from[i] \in Int /\ from[j] \in Int
    BY <1>1, <1>3, <1>4 DEF Sorted
  <2>2. ~(j < i) /\ i # j
    <3>1. j < i => from[j] < from[i]
      BY <1>1, <1>3
    <3> QED BY <2>1, <3>1
  <2> QED BY <2>2
<1> QED BY <1>2, <1>3, <1>4 DEF Sorted

\* What the steps before the merge do to it.
Outer(g) ==
    /\ OnlyMoves(g) /\ g[2] # "task" /\ go'[g].pc \notin {"push"} \cup Release
    /\ UNCHANGED <<unsent, seen, buffered, arrived, out>>

\* Nothing: they move one goroutine to where it pushes nothing out.
LEMMA OuterSteps ==
  ASSUME TypeInv, TypeInv', PcInv, PlaceInv, Next
  PROVE  \/ \E f \in Frame : QueueFrame(f)
         \/ \E b \in Branch : Raise(b)
         \/ \E g \in Goroutines : Outer(g) \/ SinkStep(g)
<1>1. /\ GoOK /\ \A p \in Node, m \in Lane : <<p, m>> \in Goroutines
      /\ Branch \subseteq Node /\ 0 \notin Branch /\ 0 \in Node
  BY Parts
<1>2. ASSUME NEW b \in Branch, Consume(b) PROVE \E g \in Goroutines : Outer(g)
  <2>1. <<b, "process">> \in Goroutines /\ Done(<<b, "process">>)
        /\ UNCHANGED <<unsent, seen, buffered, arrived, out>>
    BY <1>1, <1>2 DEF Consume, Lane, ppVars
  <2>2. OnlyMoves(<<b, "process">>) /\ go'[<<b, "process">>].pc = "idle"
    BY <1>1, <2>1, Fields
  <2>3. Outer(<<b, "process">>)
    BY <2>1, <2>2 DEF Outer, Release
  <2> QED BY <2>1, <2>3
<1>3. ASSUME NEW p \in Node, NodeStep(p) PROVE \E g \in Goroutines : Outer(g)
  <2>1. PICK l \in {"input", "process"} : Moves(p, l)
    BY <1>3, NodeMoves
  <2>2. UNCHANGED <<unsent, ppVars, arrived, out>> /\ <<p, l>> \in Goroutines
    BY <1>1, <1>3, NodeStepFrame DEF Lane
  <2>3. Outer(<<p, l>>)
    BY <2>1, <2>2 DEF Outer, Moves, Release, ppVars
  <2> QED BY <2>2, <2>3
<1>4. ASSUME NEW g \in Goroutines, FanOutStep(g) PROVE Outer(g)
  <2>1. UNCHANGED <<unsent, seen, buffered, arrived, out>> /\ go[g].pc # "idle"
        /\ (g[1] = 0 \/ go[g].pc \in Fanning)
    BY <1>4 DEF FanOutStep, Arm, PauseSystem, PauseFrames, FanOut, ppVars, Fanning
  <2>2. g[2] # "task"
    <3>1. PICK p \in Node, l \in Lane : g = <<p, l>>
      BY DEF Goroutines
    <3> QED BY <2>1, <3>1 DEF PcInv, PcOK, Fanning
  <2>3. CASE Arm(g) \/ PauseSystem(g) \/ PauseFrames(g)
    <3>1. PICK pc : Goto(g, pc) /\ pc \in Fanning
      BY <2>3 DEF Arm, PauseSystem, PauseFrames, Fanning
    <3>2. OnlyMoves(g) /\ go'[g].pc = pc
      BY <1>1, <3>1, Fields
    <3> QED BY <2>1, <2>2, <3>1, <3>2 DEF Outer, Fanning, Release
  <2>4. CASE FanOut(g)
    <3>1. OnlyMoves(g) /\ go'[g].pc \in {"idle", "fanOut"}
      BY <2>4, FanOutDoes
    <3> QED BY <2>1, <2>2, <3>1 DEF Outer, Release
  <2> QED BY <1>4, <2>3, <2>4 DEF FanOutStep
<1> QED BY <1>2, <1>3, <1>4, NextSteps

\* Nothing is queued to begin with.
LEMMA SentInit == Init => SentInv
<1> SUFFICES ASSUME Init PROVE SentInv
  OBVIOUS
<1>1. arrived = <<>> /\ seen = {} /\ buffered = <<>> /\ \A g \in Goroutines : go[g] = Idle
  BY DEF Init
<1>2. Distinct(arrived) /\ FramesOf(arrived) = {} /\ FramesOf(buffered) = {}
  BY <1>1 DEF Distinct, FramesOf
<1>3. \A g \in Goroutines : go[g].pc = "idle"
  BY <1>1 DEF Idle
<1>4. \A b \in Branch : <<b, "task">> \in Goroutines
  BY Parts, TypeInit DEF Lane
<1> QED BY <1>1, <1>2, <1>3, <1>4 DEF SentInv

\* One goroutine moves.
LEMMA SentMove ==
  ASSUME TypeInv, SentInv, NEW g \in Goroutines, OnlyMoves(g), unsent' = unsent, arrived' = arrived,
         g[2] = "task" => go'[g].pc = "idle" \/ (go[g].pc # "idle" /\ go'[g].frame = go[g].frame),
         seen' \cap unsent = {}, \A f \in FramesOf(buffered)' : ~isLifecycle(f),
         go'[g].pc = "push" => ~isLifecycle(go'[g].frame),
         go'[g].pc = "pushBuffered" => ~isLifecycle(go'[g].item)
  PROVE  SentInv'
<1>1. \A b \in Branch : <<b, "task">> \in Goroutines /\ <<b, "task">>[2] = "task"
  BY Parts DEF Lane
<1>2. ASSUME NEW b \in Branch, go'[<<b, "task">>].pc # "idle"
      PROVE  go'[<<b, "task">>].frame \notin unsent \cup FramesOf(arrived)
  <2>1. CASE g = <<b, "task">>
    BY <1>1, <1>2, <2>1 DEF SentInv
  <2>2. CASE g # <<b, "task">>
    <3>1. go'[<<b, "task">>] = go[<<b, "task">>]
      BY <1>1, <2>2 DEF OnlyMoves
    <3> QED BY <1>2, <3>1 DEF SentInv
  <2> QED BY <2>1, <2>2
<1>3. ASSUME NEW h \in Goroutines
      PROVE  /\ go'[h].pc = "push" => ~isLifecycle(go'[h].frame)
             /\ go'[h].pc = "pushBuffered" => ~isLifecycle(go'[h].item)
  BY DEF OnlyMoves, SentInv
<1>4. Distinct(arrived)' /\ FramesOf(arrived)' = FramesOf(arrived)
  BY DEF SentInv, Distinct, FramesOf
<1> QED BY <1>2, <1>3, <1>4 DEF SentInv

\* A frame that a branch's goroutine is to merge is not unsent.
LEMMA MergedSent ==
  ASSUME TypeInv, PcInv, PlaceInv, SentInv, NEW g \in Goroutines, g[1] \in Branch, go[g].pc # "idle"
  PROVE  go[g].frame \notin unsent
<1>1. PICK p \in Node, l \in Lane : g = <<p, l>>
  BY DEF Goroutines
<1>2. CASE l = "task"
  BY <1>1, <1>2 DEF SentInv
<1>3. CASE l \in {"input", "process"}
  <2>1. go[g].frame \in Held(p, l)
    BY <1>1 DEF Held
  <2>2. go[g].frame \in Present(p)
    BY <1>3, <2>1 DEF Present
  <2> QED BY <2>2 DEF PlaceInv
<1> QED BY <1>1, <1>2, <1>3 DEF Lane

\* What a step of the merge does: it pushes out what the goroutine carries, ...
Gives(g) ==
    /\ Carries(g) /\ out' = Append(out, Carried(g)) /\ seen' = seen /\ buffered' = buffered
    /\ go'[g].pc \in {"idle", "flush", "resumeSystem"}

\* ... puts into its hands, or into the buffer, a frame that it has not seen, ...
Keeps(g) ==
    /\ go[g].pc = "body" /\ ~isLifecycle(go[g].frame) /\ out' = out
    /\ seen' = seen \cup {go[g].frame}
    /\ \/ go'[g].pc = "idle" /\ buffered' = Append(buffered, go[g].frame)
       \/ go'[g].pc = "push" /\ buffered' = buffered

Syncs(g) ==
    /\ go[g].pc = "synchronized" /\ go'[g].pc = "pushSynchronized"
    /\ out' = out /\ seen' = seen \cup {go[g].frame} /\ buffered' = buffered

\* ... a frame out of the buffer, ...
Unbuffers(g) ==
    /\ go[g].pc = "flush" /\ buffered # <<>> /\ go'[g].pc = "pushBuffered"
    /\ go'[g].item = Head(buffered) /\ buffered' = Tail(buffered)
    /\ seen' = seen /\ out' = out

\* ... or none of these.
Rests(g) ==
    /\ go'[g].pc \notin {"push", "pushBuffered", "pushSynchronized"}
    /\ seen' \in {seen, seen \cup {go[g].frame}} /\ buffered' = buffered /\ out' = out
    /\ go'[g].pc = "synchronized" =>
           isStartFrame(go[g].frame) \/ (go[g].pc = "flush" /\ buffered = <<>>)

\* A step of the merge is one of these.
LEMMA SinkDoes ==
  ASSUME TypeInv, PcInv, NEW g \in Goroutines, SinkStep(g)
  PROVE  /\ OnlyMoves(g) /\ node' = node /\ unsent' = unsent /\ arrived' = arrived
         /\ go[g].pc # "idle" /\ (go'[g].pc = "idle" \/ go'[g].frame = go[g].frame) /\ g[1] \in Branch
         /\ Gives(g) \/ Keeps(g) \/ Syncs(g) \/ Unbuffers(g) \/ Rests(g)
<1>1. GoOK /\ go[g] \in GoroutineType
  BY Parts
<1>2. /\ OnlyMoves(g) /\ node' = node /\ unsent' = unsent /\ go[g].pc # "idle"
      /\ go'[g].pc = "idle" \/ go'[g].frame = go[g].frame
  BY SinkMoves
<1>3. arrived' = arrived
  BY DEF SinkStep, emit, Push, sinkPush, flushBuffered, PushBuffered, emitSynchronized,
         PushSynchronized, ResumeSystem, ResumeFrames
<1>4. g[1] \in Branch
  <2>1. PICK p \in Node, l \in Lane : g = <<p, l>>
    BY DEF Goroutines
  <2>2. p = 0 \/ p \in Branch
    BY ParallelAssumption DEF Node, Branch
  <2>3. g[1] \in Branch \/ go[g].pc \in {"push"} \cup Release \cup Resume
    BY DEF SinkStep, emit, Push, sinkPush, flushBuffered, PushBuffered, emitSynchronized,
           PushSynchronized, ResumeSystem, ResumeFrames, Release, Resume
  <2> QED BY <2>1, <2>2, <2>3 DEF PcInv, PcOK, Fanning, Release, Resume
<1>5. CASE emit(g)
  <2>1. CASE go[g].frame \in seen
    <3>1. go'[g].pc = "idle"
      BY <1>1, <1>5, <2>1, Fields DEF emit
    <3> QED BY <1>5, <2>1, <3>1, <1>2, <1>3, <1>4 DEF emit, Rests
  <2>2. CASE go[g].frame \notin seen /\ syncing
    <3>1. go'[g].pc = "idle"
      BY <1>1, <1>5, <2>2, Fields DEF emit
    <3> QED BY <1>5, <2>2, <3>1, <1>2, <1>3, <1>4 DEF emit, Keeps
  <2>3. CASE go[g].frame \notin seen /\ ~syncing
    <3>1. go'[g].pc = "push"
      BY <1>1, <1>5, <2>3, Fields DEF emit
    <3> QED BY <1>5, <2>3, <3>1, <1>2, <1>3, <1>4 DEF emit, Keeps
  <2> QED BY <2>1, <2>2, <2>3
<1>6. CASE Push(g)
  <2>1. go'[g].pc = "idle"
    BY <1>1, <1>6, Fields DEF Push
  <2> QED BY <1>6, <2>1, <1>2, <1>3, <1>4 DEF Push, Gives, Carries, Carried, ppVars
<1>7. CASE sinkPush(g)
  <2>1. Done(g) \/ (Goto(g, "synchronized") /\ isStartFrame(go[g].frame)) \/ Goto(g, "flush")
    BY <1>7 DEF sinkPush, afterReport
  <2>2. go'[g].pc = "idle" \/ (go'[g].pc = "synchronized" /\ isStartFrame(go[g].frame)) \/ go'[g].pc = "flush"
    BY <1>1, <2>1, Fields
  <2> QED BY <1>7, <2>2, <1>2, <1>3, <1>4 DEF sinkPush, Rests
<1>8. CASE flushBuffered(g) /\ buffered = <<>>
  <2>1. Goto(g, "resumeSystem") \/ Goto(g, "synchronized")
    BY <1>8 DEF flushBuffered, afterFlush
  <2>2. go'[g].pc \in {"resumeSystem", "synchronized"}
    BY <1>1, <2>1, Fields
  <2> QED BY <1>8, <2>2, <1>2, <1>3, <1>4 DEF flushBuffered, Rests
<1>9. CASE flushBuffered(g) /\ buffered # <<>>
  <2>1. go' = [go EXCEPT ![g].pc = "pushBuffered", ![g].item = Head(buffered)]
    BY <1>9 DEF flushBuffered
  <2>2. go'[g].pc = "pushBuffered" /\ go'[g].item = Head(buffered)
    BY <1>1, <2>1 DEF GoOK, GoroutineType
  <2> QED BY <1>9, <2>2, <1>2, <1>3, <1>4 DEF flushBuffered, Unbuffers
<1>10. CASE PushBuffered(g)
  <2>1. go'[g].pc = "flush"
    BY <1>1, <1>10 DEF PushBuffered, GoOK, GoroutineType
  <2> QED BY <1>10, <2>1, <1>2, <1>3, <1>4 DEF PushBuffered, Gives, Carries, Carried, ppVars
<1>11. CASE emitSynchronized(g)
  <2>1. CASE go[g].frame \in seen
    <3>1. Goto(g, "flush") \/ Goto(g, "resumeSystem")
      BY <1>11, <2>1 DEF emitSynchronized, afterSync
    <3>2. go'[g].pc \in {"flush", "resumeSystem"}
      BY <1>1, <3>1, Fields
    <3> QED BY <1>11, <3>2, <1>2, <1>3, <1>4 DEF emitSynchronized, Rests
  <2>2. CASE go[g].frame \notin seen
    <3>1. go'[g].pc = "pushSynchronized"
      BY <1>1, <1>11, <2>2, Fields DEF emitSynchronized
    <3> QED BY <1>11, <3>1, <1>2, <1>3, <1>4 DEF emitSynchronized, Syncs
  <2> QED BY <2>1, <2>2
<1>12. CASE PushSynchronized(g)
  <2>1. Goto(g, "flush") \/ Goto(g, "resumeSystem")
    BY <1>12 DEF PushSynchronized, afterSync
  <2>2. go'[g].pc \in {"flush", "resumeSystem"}
    BY <1>1, <2>1, Fields
  <2> QED BY <1>12, <2>2, <1>2, <1>3, <1>4 DEF PushSynchronized, Gives, Carries, Carried, ppVars
<1>13. CASE ResumeSystem(g)
  <2>1. go'[g].pc = "resumeFrames"
    BY <1>1, <1>13, Fields DEF ResumeSystem
  <2> QED BY <1>13, <2>1, <1>2, <1>3, <1>4 DEF ResumeSystem, Rests, ppVars
<1>14. CASE ResumeFrames(g)
  <2>1. go'[g].pc = "idle"
    BY <1>1, <1>14, Fields DEF ResumeFrames
  <2> QED BY <1>14, <2>1, <1>2, <1>3, <1>4 DEF ResumeFrames, Rests, ppVars
<1> QED BY <1>5, <1>6, <1>7, <1>8, <1>9, <1>10, <1>11, <1>12, <1>13, <1>14 DEF SinkStep

\* Every step keeps apart what is unsent and what is not.
LEMMA SentNext ==
  ASSUME TypeInv, TypeInv', PcInv, PlaceInv, SentInv, [Next]_vars
  PROVE  SentInv'
<1>1. /\ GoOK /\ \A b \in Branch : <<b, "task">> \in Goroutines
      /\ buffered \in Seq(Frame) /\ arrived \in Seq(Frame)
  BY Parts DEF TypeInv, TypeOK, Lane
<1>2. CASE UNCHANGED vars
  BY <1>2 DEF vars, ppVars, SentInv, FramesOf, Distinct
<1>3. ASSUME NEW f \in Frame, QueueFrame(f) PROVE SentInv'
  <2>1. /\ f \in unsent /\ unsent' = unsent \ {f} /\ go' = go /\ seen' = seen /\ buffered' = buffered
        /\ arrived' = Append(arrived, f)
    BY <1>3 DEF QueueFrame, ppVars
  <2>2. PICK a \in Seq(Frame) : a = arrived'
    BY DEF TypeInv, TypeOK
  <2>3. f \notin FramesOf(arrived)
    BY <2>1 DEF SentInv
  <2>4. FramesOf(a) = FramesOf(arrived) \cup {f} /\ Distinct(a)
    BY <1>1, <2>1, <2>2, <2>3, AppendTo, DistinctAppend DEF SentInv
  <2>a. FramesOf(arrived)' = FramesOf(a)
    BY <2>2 DEF FramesOf
  <2>b. Distinct(arrived)'
    BY <2>2, <2>4 DEF Distinct
  <2>5. Distinct(arrived)' /\ FramesOf(arrived)' = FramesOf(arrived) \cup {f}
    BY <2>4, <2>a, <2>b
  <2>6. FramesOf(buffered)' = FramesOf(buffered)
    BY <2>1 DEF FramesOf
  <2> QED BY <2>1, <2>5, <2>6 DEF SentInv
<1>4. ASSUME NEW b \in Branch, Raise(b) PROVE SentInv'
  <2>1. PICK f \in unsent : Take(<<b, "task">>, "body", f) /\ unsent' = unsent \ {f}
    BY <1>4 DEF Raise
  <2>2. seen' = seen /\ buffered' = buffered /\ arrived' = arrived
    BY <1>4 DEF Raise, ppVars
  <2>3. OnlyMoves(<<b, "task">>) /\ go'[<<b, "task">>].pc = "body" /\ go'[<<b, "task">>].frame = f
    BY <1>1, <2>1, Fields
  <2>4. FramesOf(buffered)' = FramesOf(buffered) /\ FramesOf(arrived)' = FramesOf(arrived)
        /\ (Distinct(arrived)' <=> Distinct(arrived))
    BY <2>2 DEF FramesOf, Distinct
  <2>5. ASSUME NEW x \in Branch, go'[<<x, "task">>].pc # "idle"
        PROVE  go'[<<x, "task">>].frame \notin unsent' \cup FramesOf(arrived)
    <3>1. CASE x = b
      BY <2>1, <2>3, <3>1 DEF SentInv
    <3>2. CASE x # b
      <4>1. go'[<<x, "task">>] = go[<<x, "task">>]
        BY <1>1, <2>3, <3>2 DEF OnlyMoves
      <4> QED BY <2>1, <2>5, <4>1 DEF SentInv
    <3> QED BY <3>1, <3>2
  <2>6. ASSUME NEW h \in Goroutines
        PROVE  /\ go'[h].pc = "push" => ~isLifecycle(go'[h].frame)
               /\ go'[h].pc = "pushBuffered" => ~isLifecycle(go'[h].item)
    BY <2>3 DEF OnlyMoves, SentInv
  <2> QED BY <2>1, <2>2, <2>4, <2>5, <2>6 DEF SentInv
<1>5. ASSUME NEW g \in Goroutines, Outer(g) PROVE SentInv'
  <2>1. /\ OnlyMoves(g) /\ g[2] # "task" /\ go'[g].pc \notin {"push", "pushBuffered"}
        /\ unsent' = unsent /\ seen' = seen /\ buffered' = buffered /\ arrived' = arrived
    BY <1>5 DEF Outer, Release
  <2>2. \A f \in FramesOf(buffered)' : ~isLifecycle(f)
    BY <2>1 DEF FramesOf, SentInv
  <2>3. seen' \cap unsent = {}
    BY <2>1 DEF SentInv
  <2> QED BY <2>1, <2>2, <2>3, SentMove
<1>6. ASSUME NEW g \in Goroutines, SinkStep(g) PROVE SentInv'
  <2>1. /\ OnlyMoves(g) /\ unsent' = unsent /\ arrived' = arrived /\ go[g].pc # "idle"
        /\ go'[g].pc = "idle" \/ go'[g].frame = go[g].frame
        /\ g[1] \in Branch
        /\ Gives(g) \/ Keeps(g) \/ Syncs(g) \/ Unbuffers(g) \/ Rests(g)
    BY <1>6, SinkDoes
  <2>2. go[g].frame \notin unsent /\ go[g].frame \in Frame
    BY <2>1, MergedSent, Parts
  <2>3. seen' \cap unsent = {}
    <3>1. seen' = seen \/ seen' = seen \cup {go[g].frame}
      BY <2>1 DEF Gives, Keeps, Syncs, Unbuffers, Rests
    <3> QED BY <2>2, <3>1 DEF SentInv
  <2>4. PICK t \in Seq(Frame) : t = buffered'
    BY DEF TypeInv, TypeOK
  <2>5. \A f \in FramesOf(t) : ~isLifecycle(f)
    <3>1. CASE t = buffered
      BY <3>1 DEF SentInv
    <3>2. CASE Keeps(g) /\ t = Append(buffered, go[g].frame)
      <4>1. FramesOf(t) = FramesOf(buffered) \cup {go[g].frame}
        BY <1>1, <2>2, <3>2, AppendTo
      <4> QED BY <3>2, <4>1 DEF SentInv, Keeps
    <3>3. CASE Unbuffers(g)
      <4>1. buffered # <<>> /\ t = Tail(buffered)
        BY <2>4, <3>3 DEF Unbuffers
      <4>2. FramesOf(t) \subseteq FramesOf(buffered)
        <5>1. Len(t) = Len(buffered) - 1 /\ \A i \in 1..Len(t) : t[i] = buffered[i + 1]
          BY <1>1, <4>1, HeadAndTail
        <5>2. \A i \in 1..Len(t) : i + 1 \in 1..Len(buffered)
          BY <1>1, <5>1
        <5> QED BY <5>1, <5>2 DEF FramesOf
      <4> QED BY <4>2 DEF SentInv
    <3> QED BY <2>1, <2>4, <3>1, <3>2, <3>3 DEF Gives, Keeps, Syncs, Unbuffers, Rests
  <2>6. \A f \in FramesOf(buffered)' : ~isLifecycle(f)
    BY <2>4, <2>5 DEF FramesOf
  <2>7. go'[g].pc = "push" => ~isLifecycle(go'[g].frame)
    BY <2>1 DEF Gives, Keeps, Syncs, Unbuffers, Rests
  <2>8. go'[g].pc = "pushBuffered" => ~isLifecycle(go'[g].item)
    <3>1. SUFFICES ASSUME go'[g].pc = "pushBuffered" PROVE ~isLifecycle(go'[g].item)
      OBVIOUS
    <3>2. buffered # <<>> /\ go'[g].item = Head(buffered)
      BY <2>1, <3>1 DEF Gives, Keeps, Syncs, Unbuffers, Rests
    <3>3. Head(buffered) = buffered[1] /\ 1 \in 1..Len(buffered)
      BY <1>1, <3>2, HeadAndTail
    <3> QED BY <3>2, <3>3 DEF SentInv, FramesOf
  <2> QED BY <2>1, <2>3, <2>6, <2>7, <2>8, SentMove
<1> QED BY <1>2, <1>3, <1>4, <1>5, <1>6, OuterSteps

\* The order in a line is kept when its hands hand on to the queue behind them, ...
LEMMA OrderedHandOn ==
  ASSUME NEW i \in Seq(Frame), NEW q \in Seq(Frame), NEW h, NEW x, NEW e, x # e, i # <<>>,
         Ordered(i, q, h, x, e)
  PROVE  Ordered(Tail(i), Append(q, Head(i)), h, x, e)
<1>1. Head(i) \in Frame
  BY HeadAndTail
<1>2. /\ Sorted(Tail(i), x, e) /\ FramesOf(i) = FramesOf(Tail(i)) \cup {Head(i)}
      /\ Head(i) = e => x \notin FramesOf(i)
  BY SortedTail DEF Ordered
<1>3. Head(i) = x => e \notin FramesOf(q)
  BY <1>2 DEF Ordered
<1>4. Sorted(q, x, e)
  BY DEF Ordered
<1>5. Sorted(Append(q, Head(i)), x, e) /\ FramesOf(Append(q, Head(i))) = FramesOf(q) \cup {Head(i)}
  BY <1>1, <1>3, <1>4, SortedAppend
<1> QED BY <1>2, <1>5 DEF Ordered

\* ... when the first is taken, ...
LEMMA OrderedTake ==
  ASSUME NEW i \in Seq(Frame), NEW q \in Seq(Frame), NEW h, NEW x, NEW e, x # e, q # <<>>,
         Ordered(i, q, h, x, e)
  PROVE  Ordered(i, Tail(q), {Head(q)}, x, e)
<1>1. /\ Sorted(Tail(q), x, e) /\ FramesOf(q) = FramesOf(Tail(q)) \cup {Head(q)}
      /\ Head(q) = e => x \notin FramesOf(q)
  BY SortedTail DEF Ordered
<1> QED BY <1>1 DEF Ordered

\* ... or given back, ...
LEMMA OrderedBack ==
  ASSUME NEW i \in Seq(Frame), NEW q \in Seq(Frame), NEW y \in Frame, NEW x, NEW e, x # e,
         Ordered(i, q, {y}, x, e)
  PROVE  Ordered(i, <<y>> \o q, {}, x, e)
<1>1. Sorted(<<y>> \o q, x, e) /\ FramesOf(<<y>> \o q) = FramesOf(q) \cup {y}
  BY SortedFront DEF Ordered
<1> QED BY <1>1 DEF Ordered

\* ... when interruptible ones are dropped or the hands are emptied, ...
LEMMA OrderedDrop ==
  ASSUME NEW i \in Seq(Frame), NEW q \in Seq(Frame), NEW h, NEW r \in SUBSET h, NEW x, NEW e,
         Ordered(i, q, h, x, e)
  PROVE  Ordered(i, keep(q), r, x, e) /\ Ordered(i, q, r, x, e)
<1>1. Sorted(keep(q), x, e) /\ FramesOf(keep(q)) \subseteq FramesOf(q)
  BY SortedKeep DEF Ordered
<1> QED BY <1>1 DEF Ordered

\* ... and when one comes in behind.
LEMMA OrderedCome ==
  ASSUME NEW i \in Seq(Frame), NEW q, NEW h, NEW y \in Frame, NEW x, NEW e, x # e,
         Ordered(i, q, h, x, e), y = x => e \notin FramesOf(i) \cup FramesOf(q) \cup h
  PROVE  Ordered(Append(i, y), q, h, x, e)
<1>1. Sorted(Append(i, y), x, e) /\ FramesOf(Append(i, y)) = FramesOf(i) \cup {y}
  BY SortedAppend DEF Ordered
<1> QED BY <1>1 DEF Ordered

\* What the order at a node in the next state is about.
LEMMA OrderNow ==
  ASSUME NEW p, NEW x \in Frame, NEW e \in Frame
  PROVE  OrderAt(p, x, e)' <=> Ordered(node'[p].inputQueue.other, node'[p].procQueue.other,
                                       Held(p, "process")', x, e)
  BY DEF OrderAt

\* A node's own steps keep the order of its data and control frames.
LEMMA OrderNode ==
  ASSUME TypeInv, TypeInv', PcInv, PlaceInv, NEW p \in Node, NodeStep(p),
         NEW x \in Frame, NEW e \in Frame, x # e, OrderAt(p, x, e)
  PROVE  OrderAt(p, x, e)'
<1> DEFINE i == <<p, "input">>
           l == <<p, "process">>
           q == node[p].inputQueue
           r == node[p].procQueue
           h == Held(p, "process")
<1>1. /\ GoOK /\ i \in Goroutines /\ l \in Goroutines /\ q \in Queue /\ r \in Queue
      /\ node \in [Node -> NodeType] /\ node[p] \in NodeType /\ i # l
  BY Parts DEF Lane, TypeInv, TypeOK
<1>2. Placed(p) /\ Tiered(q) /\ Tiered(r)
  BY DEF PlaceInv, Placed, Apart
<1>3. q.other \in Seq(Frame) /\ r.other \in Seq(Frame) /\ Ordered(q.other, r.other, h, x, e)
  BY <1>1 DEF Queue, OrderAt
<1>4. CASE HandOn(p)
  <2>1. ~isEmpty(q) /\ ~isSystemFrame(head(q)) /\ go' = go
    BY <1>4 DEF HandOn, InputReady
  <2>2. node'[p] = [node[p] EXCEPT !.inputQueue = get(q), !.procQueue = push(r, head(q))]
    BY <1>1, <1>4 DEF HandOn
  <2>3. node'[p].inputQueue = get(q) /\ node'[p].procQueue = push(r, head(q))
    BY <1>1, <2>2 DEF NodeType
  <2>4. /\ q.other # <<>> /\ head(q) = Head(q.other) /\ get(q).other = Tail(q.other) /\ head(q) \in Frame
    BY <1>1, <1>2, <2>1, GetTiers, GetProperties
  <2>5. push(r, head(q)).other = Append(r.other, head(q))
    BY <1>1, <1>2, <2>1, <2>4, PushTiers
  <2>6. Held(p, "process")' = h
    BY <2>1 DEF Held
  <2>7. Ordered(Tail(q.other), Append(r.other, Head(q.other)), h, x, e)
    BY <1>3, <2>4, OrderedHandOn
  <2> QED BY <2>3, <2>4, <2>5, <2>6, <2>7, OrderNow
<1>5. CASE TakeSystem(p)
  <2>1. ~isEmpty(q) /\ isSystemFrame(head(q)) /\ Take(i, "handle", head(q))
    BY <1>5 DEF TakeSystem, InputReady
  <2>2. node'[p] = [node[p] EXCEPT !.inputQueue = get(q)]
    BY <1>1, <1>5 DEF TakeSystem
  <2>3. node'[p].inputQueue = get(q) /\ node'[p].procQueue = r
    BY <1>1, <2>2 DEF NodeType
  <2>4. get(q).other = q.other
    BY <1>1, <1>2, <2>1, GetTiers
  <2>5. OnlyMoves(i)
    BY <1>1, <2>1, Fields
  <2>6. Held(p, "process")' = h
    BY <1>1, <2>5 DEF Held, OnlyMoves
  <2> QED BY <1>3, <2>3, <2>4, <2>6, OrderNow
<1>6. CASE HandleStart(p) \/ HandleCancel(p) \/ HandleInterruption(p) \/ Join(p)
  <2>1. PICK pc \in {"body", "join"} : Goto(i, pc) /\ go[i].pc \in {"handle", "join"}
    BY <1>6 DEF HandleStart, HandleCancel, HandleInterruption, Handles, Join
  <2>2. OnlyMoves(i)
    BY <1>1, <2>1, Fields
  <2>3. Held(p, "process")' = h
    BY <1>1, <2>2 DEF Held, OnlyMoves
  <2>4. node'[p].inputQueue = q /\ node'[p].procQueue \in {r, reset(r)}
    <3>1. CASE HandleStart(p) \/ HandleCancel(p)
      BY <1>1, <3>1 DEF NodeType, HandleStart, HandleCancel, Handles
    <3>2. CASE HandleInterruption(p)
      <4>1. \/ node' = [node EXCEPT ![p].procQueue = reset(@)]
            \/ node' = [node EXCEPT ![p].running = FALSE]
        BY <3>2 DEF HandleInterruption
      <4> QED BY <1>1, <4>1 DEF NodeType
    <3>3. CASE Join(p)
      <4>1. \/ node' = [node EXCEPT ![p].running = TRUE, ![p].procQueue = reset(@)]
            \/ node' = node
        BY <3>3 DEF Join
      <4> QED BY <1>1, <4>1 DEF NodeType
    <3> QED BY <1>6, <3>1, <3>2, <3>3
  <2>5. reset(r).other = keep(r.other)
    BY <1>1, <1>2, OtherTiers
  <2>6. h \in SUBSET h
    OBVIOUS
  <2>7. Ordered(q.other, keep(r.other), h, x, e)
    BY <1>3, <2>6, OrderedDrop
  <2> QED BY <1>3, <2>3, <2>4, <2>5, <2>7, OrderNow
<1>7. CASE TakeFrame(p)
  <2>1. PICK pc \in {"gate", "body"} : ~isEmpty(r) /\ Take(l, pc, head(r))
    BY <1>7 DEF TakeFrame
  <2>2. node'[p] = [node[p] EXCEPT !.procQueue = get(r)]
    BY <1>1, <1>7 DEF TakeFrame
  <2>3. node'[p].inputQueue = q /\ node'[p].procQueue = get(r)
    BY <1>1, <2>2 DEF NodeType
  <2>4. ~isSystemFrame(head(r))
    <3>1. head(r) \in Frames(r)
      BY <1>1, <2>1, ApartGet, <1>2 DEF Placed
    <3> QED BY <1>2, <3>1 DEF Placed
  <2>5. r.other # <<>> /\ head(r) = Head(r.other) /\ get(r).other = Tail(r.other)
    BY <1>1, <1>2, <2>1, <2>4, GetTiers
  <2>6. go'[l].pc = pc /\ go'[l].frame = head(r)
    BY <1>1, <2>1, Fields
  <2>7. Held(p, "process")' = {head(r)}
    BY <2>1, <2>6 DEF Held
  <2>8. Ordered(q.other, Tail(r.other), {Head(r.other)}, x, e)
    BY <1>3, <2>5, OrderedTake
  <2> QED BY <2>3, <2>5, <2>7, <2>8, OrderNow
<1>8. CASE p = 0 /\ Gate
  <2>1. Goto(l, "body") /\ go[l].pc = "gate" /\ node' = node
    BY <1>8 DEF Gate
  <2>2. go'[l].pc = "body" /\ go'[l].frame = go[l].frame
    BY <1>1, <2>1, Fields
  <2>3. Held(p, "process")' = h
    BY <2>1, <2>2 DEF Held
  <2> QED BY <1>3, <2>1, <2>3, OrderNow
<1>9. CASE p = 0 /\ GiveBack
  <2> DEFINE f == go[l].frame
  <2>1. Done(l) /\ go[l].pc = "gate"
    BY <1>9 DEF GiveBack
  <2>2. node'[p] = [node[p] EXCEPT !.procQueue = IF Interruptible(f) THEN r ELSE requeue(r, f)]
    BY <1>1, <1>9 DEF GiveBack
  <2>3. node'[p].inputQueue = q /\ node'[p].procQueue = IF Interruptible(f) THEN r ELSE requeue(r, f)
    BY <1>1, <2>2 DEF NodeType
  <2>4. go'[l].pc = "idle"
    BY <1>1, <2>1, Fields
  <2>5. h = {f} /\ Held(p, "process")' = {}
    BY <2>1, <2>4 DEF Held
  <2>6. f \in Frame /\ ~isSystemFrame(f)
    BY <1>1, <1>2, <2>1, <2>5, Parts DEF Placed
  <2>7. requeue(r, f).other = <<f>> \o r.other
    BY <1>1, <1>2, <2>6, OtherTiers
  <2>8. Ordered(q.other, r.other, {}, x, e)
    BY <1>3, OrderedDrop
  <2>9. Ordered(q.other, <<f>> \o r.other, {}, x, e)
    BY <1>3, <2>5, <2>6, OrderedBack
  <2> QED BY <2>3, <2>5, <2>7, <2>8, <2>9, OrderNow
<1> QED BY <1>4, <1>5, <1>6, <1>7, <1>8, <1>9 DEF NodeStep

\* Nor does a frame that is queued at the node, if it is not x coming behind e.
LEMMA OrderAccept ==
  ASSUME TypeInv, PlaceInv, NEW p \in Node, NEW f \in Frame, Accept(p, f),
         Held(p, "process")' = Held(p, "process"),
         NEW x \in Frame, NEW e \in Frame, x # e, OrderAt(p, x, e), f = x => e \notin Present(p)
  PROVE  OrderAt(p, x, e)'
<1> DEFINE q == node[p].inputQueue
           r == node[p].procQueue
           h == Held(p, "process")
<1>1. /\ q \in Queue /\ r \in Queue /\ node \in [Node -> NodeType] /\ node[p] \in NodeType
  BY Parts DEF TypeInv, TypeOK
<1>2. Tiered(q)
  BY DEF PlaceInv, Placed, Apart
<1>3. q.other \in Seq(Frame) /\ Ordered(q.other, r.other, h, x, e)
  BY <1>1 DEF Queue, OrderAt
<1>4. CASE node[p].canceling
  <2>1. node' = node
    BY <1>4 DEF Accept
  <2> QED BY <1>3, <2>1, OrderNow
<1>5. CASE ~node[p].canceling
  <2>1. PICK c : node' = [node EXCEPT ![p].inputQueue = push(@, f), ![p].canceling = c]
    BY <1>5 DEF Accept
  <2>2. node'[p] = [node[p] EXCEPT !.inputQueue = push(q, f), !.canceling = c]
    BY <1>1, <2>1
  <2>3. node'[p].inputQueue = push(q, f) /\ node'[p].procQueue = r
    BY <1>1, <2>2 DEF NodeType
  <2>4. CASE isSystemFrame(f)
    <3>1. push(q, f).other = q.other
      BY <1>1, <1>2, <2>4, PushTiers
    <3> QED BY <1>3, <2>3, <3>1, OrderNow
  <2>5. CASE ~isSystemFrame(f)
    <3>1. push(q, f).other = Append(q.other, f)
      BY <1>1, <1>2, <2>5, PushTiers
    <3>2. f = x => e \notin FramesOf(q.other) \cup FramesOf(r.other) \cup h
      BY DEF Present, Frames
    <3>3. Ordered(Append(q.other, f), r.other, h, x, e)
      BY <1>3, <3>2, OrderedCome
    <3> QED BY <2>3, <3>1, <3>3, OrderNow
  <2> QED BY <2>4, <2>5
<1> QED BY <1>4, <1>5

\* So x and e stay in order everywhere.
LEMMA OrderNext ==
  ASSUME TypeInv, TypeInv', PcInv, PlaceInv, [Next]_vars, NEW p \in Node,
         NEW x \in Frame, NEW e \in Frame, x # e, OrderAt(p, x, e), x \notin unsent,
         Sent(e) => x \notin Present(0)
  PROVE  OrderAt(p, x, e)'
<1>1. /\ GoOK /\ \A a \in Node, m \in Lane : <<a, m>> \in Goroutines
      /\ Branch \subseteq Node /\ 0 \notin Branch /\ 0 \in Node /\ node \in [Node -> NodeType]
      /\ node[p].inputQueue \in Queue /\ node[p].procQueue \in Queue
  BY Parts DEF TypeInv, TypeOK
<1> DEFINE l == <<p, "process">>
<1>2. ASSUME node'[p] = node[p], Held(p, "process")' \subseteq Held(p, "process")
      PROVE  OrderAt(p, x, e)'
  <2>1. PICK r \in SUBSET Held(p, "process") : r = Held(p, "process")'
    BY <1>2
  <2>2. Ordered(node[p].inputQueue.other, node[p].procQueue.other, r, x, e)
    <3>1. node[p].inputQueue.other \in Seq(Frame) /\ node[p].procQueue.other \in Seq(Frame)
      BY <1>1 DEF Queue
    <3>2. Ordered(node[p].inputQueue.other, node[p].procQueue.other, Held(p, "process"), x, e)
      BY DEF OrderAt
    <3> QED BY <3>1, <3>2, OrderedDrop
  <2> QED BY <1>2, <2>1, <2>2, OrderNow
<1>3. ASSUME NEW g \in Goroutines, OnlyMoves(g), node'[p] = node[p],
             g = l => go'[g].pc = "idle" \/ (go'[g].frame = go[g].frame /\ go[g].pc # "idle")
      PROVE  OrderAt(p, x, e)'
  <2>1. Held(p, "process")' \subseteq Held(p, "process")
    <3>1. CASE g = l
      BY <1>3, <3>1 DEF Held
    <3>2. CASE g # l
      BY <1>1, <1>3, <3>2 DEF Held, OnlyMoves, Lane
    <3> QED BY <3>1, <3>2
  <2> QED BY <1>2, <1>3, <2>1
<1>4. CASE UNCHANGED vars
  <2>1. node' = node /\ go' = go
    BY <1>4 DEF vars
  <2> QED BY <1>2, <2>1 DEF Held
<1>5. ASSUME NEW f \in Frame, QueueFrame(f) PROVE OrderAt(p, x, e)'
  <2>1. f \in unsent /\ Accept(0, f) /\ go' = go /\ f # x
    BY <1>5 DEF QueueFrame
  <2>2. Held(p, "process")' = Held(p, "process")
    BY <2>1 DEF Held
  <2>3. CASE p = 0
    BY <2>1, <2>2, <2>3, OrderAccept
  <2>4. CASE p # 0
    <3>1. node'[p] = node[p]
      BY <1>1, <2>1, <2>4 DEF Accept
    <3> QED BY <1>2, <2>2, <3>1
  <2> QED BY <2>3, <2>4
<1>6. ASSUME NEW b \in Branch, Raise(b) PROVE OrderAt(p, x, e)'
  <2>1. <<b, "task">> \in Goroutines /\ node' = node
    BY <1>1, <1>6 DEF Raise, Lane
  <2>2. OnlyMoves(<<b, "task">>)
    BY <1>1, <1>6, <2>1, Fields DEF Raise
  <2> QED BY <1>3, <2>1, <2>2
<1>7. ASSUME NEW b \in Branch, Consume(b) PROVE OrderAt(p, x, e)'
  <2>1. <<b, "process">> \in Goroutines /\ node' = node /\ Done(<<b, "process">>)
    BY <1>1, <1>7 DEF Consume, Lane
  <2>2. OnlyMoves(<<b, "process">>) /\ go'[<<b, "process">>].pc = "idle"
    BY <1>1, <2>1, Fields
  <2> QED BY <1>3, <2>1, <2>2
<1>8. ASSUME NEW a \in Node, NodeStep(a) PROVE OrderAt(p, x, e)'
  <2>1. CASE a = p
    BY <1>8, <2>1, OrderNode
  <2>2. CASE a # p
    <3>1. PICK m \in {"input", "process"} : Moves(a, m)
      BY <1>8, NodeMoves
    <3>2. node'[p] = node[p] /\ <<a, m>> \in Goroutines /\ <<a, m>> # l
      BY <1>1, <1>8, <2>2, NodeMoves DEF Lane
    <3> QED BY <1>3, <3>1, <3>2 DEF Moves
  <2> QED BY <2>1, <2>2
<1>9. ASSUME NEW g \in Goroutines, SinkStep(g) PROVE OrderAt(p, x, e)'
  <2>1. /\ OnlyMoves(g) /\ node' = node /\ go[g].pc # "idle"
        /\ go'[g].pc = "idle" \/ go'[g].frame = go[g].frame
    BY <1>9, SinkMoves
  <2> QED BY <1>3, <2>1
<1>10. ASSUME NEW g \in Goroutines, Arm(g) \/ PauseSystem(g) \/ PauseFrames(g) PROVE OrderAt(p, x, e)'
  <2>1. PICK pc : Goto(g, pc) /\ node' = node /\ go[g].pc # "idle"
    BY <1>10 DEF Arm, PauseSystem, PauseFrames
  <2>2. OnlyMoves(g) /\ go'[g].frame = go[g].frame
    BY <1>1, <2>1, Fields
  <2> QED BY <1>3, <2>1, <2>2
<1>11. ASSUME NEW g \in Goroutines, FanOut(g) PROVE OrderAt(p, x, e)'
  <2>1. PICK b \in Branch, f \in Frame, m \in {"input", "process"} :
            /\ g = <<0, m>> /\ go[g].pc = "fanOut" /\ go[g].frame = f /\ go[g].next = b
            /\ Accept(b, f) /\ OnlyMoves(g)
            /\ \/ go'[g].pc = "idle" /\ b = N
               \/ go'[g].pc = "fanOut" /\ go'[g].frame = f /\ go'[g].next = b + 1
    BY <1>11, FanOutDoes
  <2>2. CASE p # b
    <3>1. node'[p] = node[p]
      BY <1>1, <2>1, <2>2 DEF Accept
    <3> QED BY <1>3, <2>1, <3>1
  <2>3. CASE p = b
    <3>1. Held(p, "process")' = Held(p, "process")
      BY <1>1, <2>1, <2>3 DEF Held, OnlyMoves, Lane
    <3>2. f = x => x \in Present(0)
      BY <2>1 DEF Present, Held
    <3>3. f = x => e \notin Present(p)
      BY <2>3, <3>2 DEF Sent
    <3> QED BY <2>1, <2>3, <3>1, <3>3, OrderAccept
  <2> QED BY <2>2, <2>3
<1> QED BY <1>4, <1>5, <1>6, <1>7, <1>8, <1>9, <1>10, <1>11, NextSteps DEF FanOutStep

\* When a process goroutine has got to e, x is not at the node any more.
LEMMA NoneBehind ==
  ASSUME TypeInv, PlaceInv, NEW p \in Node, NEW x \in Frame, NEW e \in Frame, x # e,
         ~isSystemFrame(x), OrderAt(p, x, e), e \in Held(p, "process")
  PROVE  x \notin Present(p)
<1>1. Placed(p) /\ node[p].inputQueue \in Queue /\ node[p].procQueue \in Queue
  BY Parts DEF PlaceInv
<1>2. x \notin FramesOf(node[p].inputQueue.other) /\ x \notin FramesOf(node[p].procQueue.other)
  BY DEF OrderAt, Ordered
<1>3. x \notin Frames(node[p].inputQueue) /\ x \notin Frames(node[p].procQueue)
  BY <1>1, <1>2, TiersApart DEF Frames, Placed, Apart
<1>4. x \notin Held(p, "input")
  BY <1>1 DEF Placed
<1>5. x \notin Held(p, "process")
  BY DEF Held
<1> QED BY <1>3, <1>4, <1>5 DEF Present

\* A goroutine of the parallel pipeline that fans out had the frame before.
LEMMA FanBegins ==
  ASSUME TypeInv, TypeInv', PcInv, PlaceInv, [Next]_vars, NEW l \in {"input", "process"},
         go'[<<0, l>>].pc \in Fanning
  PROVE  go[<<0, l>>].pc # "idle" /\ go'[<<0, l>>].frame = go[<<0, l>>].frame
<1>a. /\ GoOK /\ \A p \in Node, m \in Lane : <<p, m>> \in Goroutines
      /\ Branch \subseteq Node /\ 0 \notin Branch /\ 0 \in Node
  BY Parts
<1>b. PICK g \in Goroutines : g = <<0, l>>
  BY <1>a DEF Lane
<1> DEFINE Goal == go[g].pc # "idle" /\ go'[g].frame = go[g].frame
<1>1. g[1] = 0
  BY <1>b
<1>3. ASSUME go'[g] = go[g] PROVE Goal
  BY <1>b, <1>1, <1>3 DEF Fanning
<1>4. ASSUME NEW h \in Goroutines, OnlyMoves(h), h # g PROVE Goal
  BY <1>3, <1>4 DEF OnlyMoves
<1>5. ASSUME NEW b \in Branch, Raise(b) \/ Consume(b) PROVE Goal
  <2>1. PICK m \in Lane : (\E pc, f : Take(<<b, m>>, pc, f)) \/ Done(<<b, m>>)
    BY <1>5 DEF Raise, Consume, Lane
  <2>2. <<b, m>> \in Goroutines /\ <<b, m>> # g
    BY <1>a, <1>b
  <2>3. OnlyMoves(<<b, m>>)
    BY <1>a, <2>1, <2>2, Fields
  <2> QED BY <1>4, <2>2, <2>3
<1>6. ASSUME NEW p \in Node, NodeStep(p) PROVE Goal
  <2>1. PICK m \in {"input", "process"} : Moves(p, m)
    BY <1>6, NodeMoves
  <2>2. <<p, m>> \in Goroutines /\ <<p, m>> # g
    BY <1>a, <1>b, <2>1 DEF Lane, Moves, Fanning
  <2> QED BY <1>4, <2>1, <2>2 DEF Moves
<1>7. ASSUME NEW h \in Goroutines, SinkStep(h) PROVE Goal
  <2>1. OnlyMoves(h) /\ h[1] \in Branch
    BY <1>7, SinkDoes
  <2> QED BY <1>a, <1>1, <1>4, <2>1
<1>8. ASSUME NEW h \in Goroutines, Arm(h) \/ PauseSystem(h) \/ PauseFrames(h) PROVE Goal
  <2>1. PICK pc : Goto(h, pc) /\ go[h].pc # "idle"
    BY <1>8 DEF Arm, PauseSystem, PauseFrames
  <2>2. OnlyMoves(h) /\ go'[h].frame = go[h].frame
    BY <1>a, <2>1, Fields
  <2>3. CASE h = g
    BY <2>1, <2>2, <2>3
  <2> QED BY <1>4, <2>2, <2>3
<1>9. ASSUME NEW h \in Goroutines, FanOut(h) PROVE Goal
  <2>1. PICK f \in Frame : /\ go[h].pc = "fanOut" /\ go[h].frame = f /\ OnlyMoves(h)
                           /\ go'[h].pc = "idle" \/ go'[h].frame = f
    BY <1>9, FanOutDoes
  <2>2. CASE h = g
    BY <1>b, <2>1, <2>2 DEF Fanning
  <2> QED BY <1>4, <2>1, <2>2
<1>10. (UNCHANGED vars \/ \E f \in Frame : QueueFrame(f)) => go' = go
  BY DEF vars, QueueFrame
<1>11. \/ go' = go
       \/ \E b \in Branch : Raise(b) \/ Consume(b)
       \/ \E p \in Node : NodeStep(p)
       \/ \E h \in Goroutines : FanOutStep(h) \/ SinkStep(h)
  BY <1>10, NextSteps
<1>12. Goal
  BY <1>3, <1>5, <1>6, <1>7, <1>8, <1>9, <1>11 DEF FanOutStep
<1> QED BY <1>b, <1>12

\* Once e is on its way to a branch x has left the parallel pipeline's own node.
LEMMA TrailsSent ==
  ASSUME TypeInv, TypeInv', PcInv, PlaceInv, [Next]_vars, NEW x \in Frame, NEW e \in Frame, x # e,
         ~isSystemFrame(x), ~isSystemFrame(e), OrderAt(0, x, e), x \notin unsent,
         Sent(e) => x \notin Present(0), Sent(e)'
  PROVE  x \notin Present(0)'
<1>1. 0 \in Node /\ Placed(0) /\ \A l \in {"input", "process"} : <<0, l>> \in Goroutines
  BY Parts DEF PlaceInv, Lane
<1>2. x \notin Present(0) => x \notin Present(0)'
  BY PresentZero
<1>3. ASSUME NEW l \in {"input", "process"}, e \in Held(0, l) PROVE x \notin Present(0)
  <2>1. l = "process"
    BY <1>1, <1>3 DEF Placed
  <2> QED BY <1>1, <1>3, <2>1, NoneBehind
<1>4. PICK b \in Branch : e \in Present(b)' \/ ToFan(b, e)'
  BY DEF Sent
<1>5. CASE e \in Present(b)'
  <2>1. CASE e \in Present(b)
    BY <1>2, <2>1 DEF Sent
  <2>2. CASE e \notin Present(b)
    <3>1. PICK l \in {"input", "process"} : e \in Held(0, l)
      BY <1>5, <2>2, BranchGrows
    <3> QED BY <1>2, <1>3, <3>1
  <2> QED BY <2>1, <2>2
<1>6. CASE ToFan(b, e)'
  <2>1. PICK l \in {"input", "process"} : go'[<<0, l>>].frame = e /\ go'[<<0, l>>].pc \in Fanning
    BY <1>6 DEF ToFan
  <2>2. go[<<0, l>>].pc # "idle" /\ go[<<0, l>>].frame = e
    BY <2>1, FanBegins
  <2>3. e \in Held(0, l)
    BY <2>2 DEF Held
  <2> QED BY <1>2, <1>3, <2>3
<1> QED BY <1>4, <1>5, <1>6

\* e has been sent when a branch owes it or releases it.
LEMMA OwedSent ==
  ASSUME TypeInv, PcInv, PlaceInv, NEW e
  PROVE  /\ Owes(e) # {} => Sent(e)
         /\ \A g \in Releasing : go[g].frame = e => Sent(e)
<1>1. ASSUME NEW b \in Branch, Pending(b, e) PROVE e \in Present(b)
  BY <1>1 DEF Pending, Present, Held
<1>2. Owes(e) # {} => Sent(e)
  BY <1>1 DEF Owes, Sent
<1>3. ASSUME NEW g \in Releasing, go[g].frame = e PROVE Sent(e)
  <2>1. PICK b \in Branch : go[g].frame \in Present(b)
    BY Releaser
  <2> QED BY <1>3, <2>1 DEF Sent
<1> QED BY <1>2, <1>3

\* A branch is handed nothing that the parallel pipeline has not.
LEMMA NotHanded ==
  ASSUME TypeInv, TypeInv', PcInv, PlaceInv, [Next]_vars, NEW b \in Branch, NEW x, x \notin Present(0)
  PROVE  x \in Present(b)' => x \in Present(b)
<1>1. \A l \in {"input", "process"} : x \notin Held(0, l)
  BY DEF Present
<1> QED BY <1>1, BranchGrows

\* The counter covers the branches that are late with x or e, and e is released
\* when none is: in a step that neither arms nor reports e, ...
LEMMA TrailsKept ==
  ASSUME TypeInv, TypeInv', PcInv, PlaceInv, [Next]_vars, NEW x, NEW e \in Frame,
         Sent(e) => x \notin Present(0),
         Owes(e) # {} => counter[e] >= Cardinality(Late(x, e)),
         \A g \in Releasing : go[g].frame = e => \A b \in Branch : x \notin Present(b),
         Owes(e)' \subseteq Owes(e), counter'[e] = counter[e],
         \A g \in Releasing' : go'[g].frame = e => g \in Releasing /\ go[g].frame = e
  PROVE  /\ Owes(e)' # {} => counter'[e] >= Cardinality(Late(x, e)')
         /\ \A g \in Releasing' : go'[g].frame = e => \A b \in Branch : x \notin Present(b)'
<1>1. ASSUME Owes(e)' # {} PROVE counter'[e] >= Cardinality(Late(x, e)')
  <2>1. Owes(e) # {} /\ x \notin Present(0)
    BY <1>1, OwedSent
  <2>2. PICK U \in SUBSET Branch, T \in SUBSET Branch : U = Late(x, e) /\ T = Late(x, e)'
    BY DEF Late
  <2>3. T \subseteq U
    <3>1. ASSUME NEW b \in Late(x, e)' PROVE b \in Late(x, e)
      <4>1. b \in Branch /\ (b \in Owes(e)' \/ x \in Present(b)')
        BY <3>1 DEF Late
      <4>2. b \in Owes(e) \/ x \in Present(b)
        BY <2>1, <4>1, NotHanded
      <4> QED BY <4>1, <4>2 DEF Late
    <3> QED BY <2>2, <3>1
  <2>4. Cardinality(T) \in Nat /\ Cardinality(U) \in Nat /\ Cardinality(T) <= Cardinality(U)
    BY <2>3, Fewer
  <2>5. counter[e] >= Cardinality(U) /\ counter[e] \in 0..N /\ N \in Nat
    BY <2>1, <2>2, ParallelAssumption DEF TypeInv, TypeOK
  <2>6. counter[e] >= Cardinality(T)
    BY <2>4, <2>5
  <2> QED BY <2>2, <2>6
<1>2. ASSUME NEW g \in Releasing', go'[g].frame = e, NEW b \in Branch PROVE x \notin Present(b)'
  <2>1. g \in Releasing /\ go[g].frame = e
    BY <1>2
  <2>2. x \notin Present(0) /\ x \notin Present(b)
    BY <2>1, OwedSent
  <2> QED BY <2>2, NotHanded
<1> QED BY <1>1, <1>2

\* ... when e is armed, ...
LEMMA TrailsArmed ==
  ASSUME TypeInv, TypeInv', PcInv, PlaceInv, [Next]_vars, NEW x, NEW e \in Frame, isLifecycle(e),
         NEW g \in Goroutines, Arm(g), go[g].frame = e
  PROVE  /\ Owes(e)' # {} => counter'[e] >= Cardinality(Late(x, e)')
         /\ \A h \in Releasing' : go'[h].frame # e
<1>1. counter' = [counter EXCEPT ![e] = N] /\ counter \in [Frame -> 0..N] /\ N \in Nat
  BY ParallelAssumption DEF Arm, TypeInv, TypeOK
<1>2. PICK T \in SUBSET Branch : T = Late(x, e)'
  BY DEF Late
<1>3. Branch \in SUBSET Branch /\ Cardinality(Branch) = N
  BY <1>1, Counting
<1>4. Cardinality(T) \in Nat /\ Cardinality(T) <= Cardinality(Branch)
  BY <1>3, Fewer
<1>5. counter'[e] = N
  BY <1>1
<1>6. counter'[e] >= Cardinality(T)
  BY <1>1, <1>3, <1>4, <1>5
<1>7. \A h \in Releasing' : go'[h].frame # e
  BY ArmSettled
<1> QED BY <1>2, <1>6, <1>7

\* ... when a branch reports e, and when the last does.
LEMMA TrailsReported ==
  ASSUME TypeInv, TypeInv', PcInv, PlaceInv, CountInv, [Next]_vars, NEW x \in Frame, NEW e \in Frame, x # e,
         ~isSystemFrame(x), Kind[e] = "end", \A p \in Node : OrderAt(p, x, e),
         Sent(e) => x \notin Present(0),
         Owes(e) # {} => counter[e] >= Cardinality(Late(x, e)),
         NEW g \in Goroutines, sinkPush(g), go[g].frame = e
  PROVE  /\ counter'[e] >= Cardinality(Late(x, e)')
         /\ \A h \in Releasing' : go'[h].frame = e => \A a \in Branch : x \notin Present(a)'
<1>1. PICK b \in Branch, l \in {"input", "process"} :
         g = <<b, l>> /\ e \in Held(b, l) /\ b \in Owes(e) /\ b \notin Owes(e)'
  BY ReportDoes
<1>2. /\ OnlyMoves(g) /\ counter' = [counter EXCEPT ![e] = Reported(e)]
      /\ Reported(e) > 0 => go'[g].pc = "idle"
      /\ Owes(e)' \subseteq Owes(e)
  BY ReportDoes
<1>3. Branch \subseteq Node /\ b \in Node /\ Placed(b)
  BY Parts DEF PlaceInv
<1>4. l = "process"
  BY <1>1, <1>3 DEF Placed, isSystemFrame, SystemKinds
<1>5. x \notin Present(b)
  BY <1>1, <1>3, <1>4, NoneBehind
<1>6. x \notin Present(0)
  BY <1>1, OwedSent
<1>7. PICK U \in SUBSET Branch, T \in SUBSET Branch : U = Late(x, e) /\ T = Late(x, e)'
  BY DEF Late
<1>8. T \subseteq U \ {b} /\ b \in U
  <2>1. ASSUME NEW a \in Late(x, e)' PROVE a \in Late(x, e) \ {b}
    <3>1. a \in Branch /\ (a \in Owes(e)' \/ x \in Present(a)')
      BY <2>1 DEF Late
    <3>2. a # b
      BY <1>1, <1>5, <1>6, <3>1, NotHanded
    <3>3. a \in Owes(e) \/ x \in Present(a)
      BY <1>2, <1>6, <3>1, NotHanded
    <3> QED BY <3>1, <3>2, <3>3 DEF Late
  <2>2. b \in Late(x, e)
    BY <1>1 DEF Late
  <2> QED BY <1>7, <2>1, <2>2
<1>9. counter \in [Frame -> 0..N] /\ N \in Nat /\ counter[e] \in Nat
  <2>1. counter \in [Frame -> 0..N] /\ N \in Nat
    BY ParallelAssumption DEF TypeInv, TypeOK
  <2> QED BY <2>1
<1>10. /\ Cardinality(U) \in Nat /\ Cardinality(T) \in Nat /\ Cardinality(T) <= Cardinality(U) - 1
       /\ counter[e] >= Cardinality(U) /\ Cardinality(U) # 0 /\ (Cardinality(T) = 0 => T = {})
  <2>1. Cardinality(U) \in Nat /\ Cardinality(U \ {b}) = Cardinality(U) - 1 /\ Cardinality(U) # 0
        /\ (Cardinality(T) = 0 => T = {})
    BY <1>8, <1>9, Counting
  <2>2. U \ {b} \in SUBSET Branch
    OBVIOUS
  <2>3. Cardinality(T) \in Nat /\ Cardinality(T) <= Cardinality(U \ {b})
    BY <1>8, <2>2, Fewer
  <2> QED BY <1>1, <1>7, <2>1, <2>3
<1>11. counter'[e] = counter[e] - 1 /\ Reported(e) = counter[e] - 1
  BY <1>2, <1>9, <1>10 DEF Reported
<1>12. counter'[e] >= Cardinality(T)
  BY <1>9, <1>10, <1>11
<1>13. ASSUME NEW h \in Releasing', go'[h].frame = e, NEW a \in Branch PROVE x \notin Present(a)'
  <2>1. h = g
    <3>1. ASSUME h # g PROVE FALSE
      <4>1. h \in Releasing /\ go[h].frame = e
        BY <1>2, <1>13, <3>1 DEF Releasing, OnlyMoves
      <4> QED BY <1>1, <4>1 DEF CountInv
    <3> QED BY <3>1
  <2>2. ~(Reported(e) > 0)
    BY <1>2, <1>13, <2>1 DEF Releasing
  <2>3. Cardinality(T) = 0
    BY <1>9, <1>10, <1>11, <2>2
  <2>4. Late(x, e)' = {}
    BY <1>7, <1>10, <2>3
  <2> QED BY <2>4 DEF Late
<1> QED BY <1>7, <1>12, <1>13

\* So every step keeps these two parts.
LEMMA TrailsCounted ==
  ASSUME TypeInv, TypeInv', PcInv, PlaceInv, CountInv, [Next]_vars, NEW x \in Frame, NEW e \in Frame, x # e,
         ~isSystemFrame(x), Kind[e] = "end", \A p \in Node : OrderAt(p, x, e),
         Sent(e) => x \notin Present(0),
         Owes(e) # {} => counter[e] >= Cardinality(Late(x, e)),
         \A g \in Releasing : go[g].frame = e => \A b \in Branch : x \notin Present(b)
  PROVE  /\ Owes(e)' # {} => counter'[e] >= Cardinality(Late(x, e)')
         /\ \A g \in Releasing' : go'[g].frame = e => \A b \in Branch : x \notin Present(b)'
<1>1. isLifecycle(e) /\ counter \in [Frame -> 0..N]
  BY DEF isLifecycle, TypeInv, TypeOK
<1>2. CASE \A g \in Goroutines : ~Arm(g) /\ ~sinkPush(g)
  <2>1. Settled /\ counter' = counter
    BY <1>2, StepSettled
  <2> QED BY <2>1, TrailsKept DEF Settled
<1>3. ASSUME NEW g \in Goroutines, Arm(g)
      PROVE  /\ Owes(e)' # {} => counter'[e] >= Cardinality(Late(x, e)')
             /\ \A h \in Releasing' : go'[h].frame = e => \A b \in Branch : x \notin Present(b)'
  <2>1. CASE go[g].frame = e
    BY <1>1, <1>3, <2>1, TrailsArmed
  <2>2. CASE go[g].frame # e
    <3>1. PICK f \in Frame : f = go[g].frame
      BY <1>3, Parts DEF Arm
    <3>2. Owes(e)' \subseteq Owes(e) /\ \A h \in Releasing' : h \in Releasing /\ go'[h] = go[h]
      BY <1>3, <2>2, <3>1, ArmSettled
    <3>3. counter'[e] = counter[e]
      BY <1>1, <1>3, <2>2, <3>1 DEF Arm
    <3> QED BY <3>2, <3>3, TrailsKept
  <2> QED BY <2>1, <2>2
<1>4. ASSUME NEW g \in Goroutines, sinkPush(g)
      PROVE  /\ Owes(e)' # {} => counter'[e] >= Cardinality(Late(x, e)')
             /\ \A h \in Releasing' : go'[h].frame = e => \A b \in Branch : x \notin Present(b)'
  <2>1. CASE go[g].frame = e
    BY <1>4, <2>1, TrailsReported
  <2>2. CASE go[g].frame # e
    <3>1. PICK f \in Frame : f = go[g].frame
      BY <1>4, ReportDoes
    <3>2. /\ OnlyMoves(g) /\ counter' = [counter EXCEPT ![f] = Reported(f)] /\ Owes(e)' \subseteq Owes(e)
          /\ go'[g].pc = "idle" \/ go'[g].frame = f
      BY <1>4, <3>1, ReportDoes
    <3>3. counter'[e] = counter[e]
      BY <1>1, <2>2, <3>1, <3>2
    <3>4. ASSUME NEW h \in Releasing', go'[h].frame = e PROVE h \in Releasing /\ go[h].frame = e
      BY <2>2, <3>1, <3>2, <3>4 DEF Releasing, OnlyMoves
    <3> QED BY <3>2, <3>3, <3>4, TrailsKept
  <2> QED BY <2>1, <2>2
<1> QED BY <1>2, <1>3, <1>4

\* What leaves was in the hands of a goroutine.
LEMMA OutGives ==
  ASSUME TypeInv, TypeInv', PcInv, PlaceInv, [Next]_vars
  PROVE  out' = out \/ \E g \in Goroutines : Carries(g) /\ out' = Append(out, Carried(g)) /\ Carried(g) \in Frame
<1>1. ASSUME NEW g \in Goroutines, SinkStep(g)
      PROVE  out' = out \/ (Carries(g) /\ out' = Append(out, Carried(g)) /\ Carried(g) \in Frame)
  <2>1. Gives(g) \/ Keeps(g) \/ Syncs(g) \/ Unbuffers(g) \/ Rests(g)
    BY <1>1, SinkDoes
  <2>2. CASE Gives(g)
    <3>1. Carries(g) /\ out' = Append(out, Carried(g))
      BY <2>2 DEF Gives
    <3>2. Carried(g) \in Frame
      BY <3>1 DEF TypeInv, HandOK, Carries, Carried
    <3> QED BY <3>1, <3>2
  <2> QED BY <2>1, <2>2 DEF Keeps, Syncs, Unbuffers, Rests
<1>2. (UNCHANGED vars \/ (\E f \in Frame : QueueFrame(f)) \/ (\E b \in Branch : Raise(b))) => out' = out
  BY DEF vars, QueueFrame, Raise
<1>3. \A g \in Goroutines : Outer(g) => out' = out
  BY DEF Outer
<1> QED BY <1>1, <1>2, <1>3, OuterSteps

\* A frame that was queued and is at no branch is not one that is merged.
LEMMA NotMerged ==
  ASSUME TypeInv, SentInv, NEW x, x \in FramesOf(arrived), \A b \in Branch : x \notin Present(b),
         NEW g \in Goroutines, g[1] \in Branch, go[g].pc # "idle"
  PROVE  go[g].frame # x
<1>1. PICK p \in Node, l \in Lane : g = <<p, l>>
  BY DEF Goroutines
<1>2. CASE l = "task"
  BY <1>1, <1>2 DEF SentInv
<1>3. CASE l \in {"input", "process"}
  <2>1. go[g].frame \in Held(p, l)
    BY <1>1 DEF Held
  <2>2. go[g].frame \in Present(p) /\ p \in Branch
    BY <1>1, <1>3, <2>1 DEF Present
  <2> QED BY <2>2
<1> QED BY <1>1, <1>2, <1>3 DEF Lane

\* A frame that is nowhere any more does not come back.
LEMMA SpentNext ==
  ASSUME TypeInv, TypeInv', PcInv, PlaceInv, SentInv, [Next]_vars, NEW x, x \in FramesOf(arrived), Spent(x)
  PROVE  Spent(x)'
<1>1. /\ GoOK /\ \A b \in Branch : <<b, "task">> \in Goroutines
      /\ buffered \in Seq(Frame) /\ 0 \in Node /\ Branch \subseteq Node
  BY Parts DEF TypeInv, TypeOK, Lane
<1>2. x \notin Present(0) /\ x \notin unsent /\ \A b \in Branch : x \notin Present(b)
  BY <1>1 DEF Spent, SentInv
<1>3. \A p \in Node : x \notin Present(p)'
  <2>1. x \notin Present(0)'
    BY <1>2, PresentZero
  <2>2. \A b \in Branch : x \notin Present(b)'
    BY <1>2, NotHanded
  <2>3. \A p \in Node : p = 0 \/ p \in Branch
    BY ParallelAssumption DEF Node, Branch
  <2> QED BY <2>1, <2>2, <2>3
<1>4. ASSUME NEW g \in Goroutines, OnlyMoves(g), x \notin FramesOf(buffered)',
             go'[g].pc \in {"push", "pushSynchronized"} => go'[g].frame # x,
             go'[g].pc = "pushBuffered" => go'[g].item # x
      PROVE  Spent(x)'
  <2>1. ASSUME NEW h \in Goroutines, Carries(h)' PROVE Carried(h)' # x
    <3>1. CASE h = g
      BY <1>4, <2>1, <3>1 DEF Carries, Carried
    <3>2. CASE h # g
      BY <1>4, <2>1, <3>2 DEF Carries, Carried, OnlyMoves, Spent
    <3> QED BY <3>1, <3>2
  <2> QED BY <1>3, <1>4, <2>1 DEF Spent
<1>5. ASSUME go' = go, buffered' = buffered PROVE Spent(x)'
  <2>1. x \notin FramesOf(buffered)'
    BY <1>5 DEF Spent, FramesOf
  <2>2. \A h \in Goroutines : Carries(h)' => Carried(h)' # x
    BY <1>5 DEF Spent, Carries, Carried
  <2> QED BY <1>3, <2>1, <2>2 DEF Spent
<1>6. ASSUME NEW b \in Branch, Raise(b) PROVE Spent(x)'
  <2>1. PICK f \in unsent : Take(<<b, "task">>, "body", f)
    BY <1>6 DEF Raise
  <2>2. OnlyMoves(<<b, "task">>) /\ go'[<<b, "task">>].pc = "body"
    BY <1>1, <2>1, Fields
  <2>3. x \notin FramesOf(buffered)'
    BY <1>6 DEF Raise, ppVars, Spent, FramesOf
  <2> QED BY <1>1, <1>4, <2>2, <2>3
<1>7. ASSUME NEW g \in Goroutines, Outer(g) PROVE Spent(x)'
  <2>1. x \notin FramesOf(buffered)'
    BY <1>7 DEF Outer, Spent, FramesOf
  <2> QED BY <1>4, <1>7, <2>1 DEF Outer, Release
<1>8. ASSUME NEW g \in Goroutines, SinkStep(g) PROVE Spent(x)'
  <2>1. /\ OnlyMoves(g) /\ go[g].pc # "idle" /\ (go'[g].pc = "idle" \/ go'[g].frame = go[g].frame)
        /\ g[1] \in Branch
        /\ Gives(g) \/ Keeps(g) \/ Syncs(g) \/ Unbuffers(g) \/ Rests(g)
    BY <1>8, SinkDoes
  <2>2. go[g].frame # x /\ go[g].frame \in Frame
    BY <1>2, <2>1, NotMerged, Parts
  <2>3. PICK t \in Seq(Frame) : t = buffered'
    BY DEF TypeInv, TypeOK
  <2>4. x \notin FramesOf(buffered)
    BY DEF Spent
  <2>5. x \notin FramesOf(t) /\ (go'[g].pc = "pushBuffered" => go'[g].item # x)
    <3>1. CASE t = buffered /\ go'[g].pc # "pushBuffered"
      BY <2>4, <3>1
    <3>2. CASE t = Append(buffered, go[g].frame) /\ go'[g].pc # "pushBuffered"
      <4>1. FramesOf(t) = FramesOf(buffered) \cup {go[g].frame}
        BY <1>1, <2>2, <3>2, AppendTo
      <4> QED BY <2>2, <2>4, <3>2, <4>1
    <3>3. CASE Unbuffers(g)
      <4>1. buffered # <<>> /\ t = Tail(buffered) /\ go'[g].item = Head(buffered)
        BY <2>3, <3>3 DEF Unbuffers
      <4>2. /\ Len(t) = Len(buffered) - 1 /\ \A i \in 1..Len(t) : t[i] = buffered[i + 1]
            /\ Head(buffered) = buffered[1] /\ 1 \in 1..Len(buffered)
        BY <1>1, <4>1, HeadAndTail
      <4>3. \A i \in 1..Len(t) : i + 1 \in 1..Len(buffered)
        BY <1>1, <4>2
      <4> QED BY <2>4, <4>1, <4>2, <4>3 DEF FramesOf
    <3> QED BY <2>1, <2>3, <3>1, <3>2, <3>3 DEF Gives, Keeps, Syncs, Unbuffers, Rests
  <2>6. x \notin FramesOf(buffered)'
    BY <2>3, <2>5 DEF FramesOf
  <2> QED BY <1>4, <2>1, <2>2, <2>5, <2>6
<1>9. (UNCHANGED vars \/ \E f \in Frame : QueueFrame(f)) => go' = go /\ buffered' = buffered
  BY DEF vars, QueueFrame, ppVars
<1> QED BY <1>5, <1>6, <1>7, <1>8, <1>9, OuterSteps

\* Nothing queued ahead of e is left when the buffer has been flushed for e.
LEMMA TrailsLeaving ==
  ASSUME OneEach, TypeInv, TypeInv', PcInv, PlaceInv, CountInv, LeadInv, PhaseInv, SentInv, [Next]_vars,
         NEW x \in FramesOf(arrived), NEW e \in Frame, Kind[e] = "end",
         Sent(e) => x \notin Present(0),
         \A g \in Releasing : go[g].frame = e => \A b \in Branch : x \notin Present(b),
         Leaving(e) => Spent(x), Leaving(e)'
  PROVE  Spent(x)'
<1> SUFFICES Spent(x)
  BY SpentNext
<1>1. isLifecycle(e) /\ ~isStartFrame(e) /\ out \in Seq(Frame)
  BY DEF isLifecycle, isStartFrame, TypeInv, TypeOK
<1>2. ASSUME NEW g \in Goroutines, go[g].frame = e, go[g].pc \in {"synchronized", "pushSynchronized"}
      PROVE  Spent(x)
  BY <1>2 DEF Leaving
<1>3. ASSUME NEW g \in Goroutines, Carries(g), Carried(g) = e PROVE Spent(x)
  <2>1. go[g].pc = "pushSynchronized" /\ go[g].frame = e
    BY <1>1, <1>3 DEF SentInv, Carries, Carried
  <2> QED BY <1>2, <2>1
<1>4. ASSUME NEW g \in Goroutines, go[g].pc = "flush", go[g].frame = e, buffered = <<>> PROVE Spent(x)
  <2>1. g \in Releasing
    BY <1>4 DEF Releasing
  <2>2. (\A b \in Branch : x \notin Present(b)) /\ x \notin Present(0)
    BY <1>4, <2>1, OwedSent
  <2>3. \A p \in Node : p = 0 \/ p \in Branch
    BY ParallelAssumption DEF Node, Branch
  <2>4. x \notin FramesOf(buffered)
    BY <1>4 DEF FramesOf
  <2>5. ASSUME NEW h \in Goroutines, Carries(h) PROVE Carried(h) # x
    <3>1. CASE h \in Releasing
      <4>1. h = g
        BY <2>1, <3>1, OneReleaseFrom DEF OneRelease
      <4> QED BY <1>4, <2>5, <4>1 DEF Carries
    <3>2. CASE h \notin Releasing
      <4>1. go[h].pc = "push"
        BY <2>5, <3>2 DEF Carries, Releasing
      <4>2. h[1] \in Branch
        <5>1. PICK p \in Node, l \in Lane : h = <<p, l>>
          BY DEF Goroutines
        <5> QED BY <2>3, <4>1, <5>1 DEF PcInv, PcOK, Fanning
      <4>3. go[h].frame # x
        BY <2>2, <4>1, <4>2, NotMerged
      <4> QED BY <4>1, <4>3 DEF Carried
    <3> QED BY <3>1, <3>2
  <2> QED BY <2>2, <2>3, <2>4, <2>5 DEF Spent
<1>5. CASE e \in FramesOf(out)'
  <2>1. PICK o \in Seq(Frame) : o = out'
    BY DEF TypeInv, TypeOK
  <2>2. e \in FramesOf(o)
    BY <1>5, <2>1 DEF FramesOf
  <2>3. CASE o = out
    BY <2>2, <2>3 DEF Leaving
  <2>4. ASSUME NEW g \in Goroutines, Carries(g), o = Append(out, Carried(g)), Carried(g) \in Frame
        PROVE  Spent(x)
    <3>1. e \in FramesOf(out) \/ e = Carried(g)
      BY <1>1, <2>2, <2>4, AppendTo
    <3> QED BY <1>3, <2>4, <3>1 DEF Leaving
  <2> QED BY <2>1, <2>3, <2>4, OutGives
<1>6. ASSUME NEW h \in Goroutines, go'[h].frame = e, go'[h].pc \in {"synchronized", "pushSynchronized"}
      PROVE  Spent(x)
  <2>1. ASSUME NEW g \in Goroutines, OnlyMoves(g), h # g PROVE Spent(x)
    BY <1>2, <1>6, <2>1 DEF OnlyMoves
  <2>2. CASE go' = go
    BY <1>2, <1>6, <2>2
  <2>3. ASSUME NEW b \in Branch, Raise(b) PROVE Spent(x)
    <3>1. <<b, "task">> \in Goroutines /\ GoOK
      BY Parts DEF Lane
    <3>2. OnlyMoves(<<b, "task">>) /\ go'[<<b, "task">>].pc = "body"
      BY <2>3, <3>1, Fields DEF Raise
    <3> QED BY <1>6, <2>1, <3>1, <3>2
  <2>4. ASSUME NEW g \in Goroutines, Outer(g) PROVE Spent(x)
    BY <1>6, <2>1, <2>4 DEF Outer, Release
  <2>5. ASSUME NEW g \in Goroutines, SinkStep(g) PROVE Spent(x)
    <3>1. /\ OnlyMoves(g) /\ (go'[g].pc = "idle" \/ go'[g].frame = go[g].frame)
          /\ Gives(g) \/ Keeps(g) \/ Syncs(g) \/ Unbuffers(g) \/ Rests(g)
      BY <2>5, SinkDoes
    <3>2. CASE h = g
      <4>1. go[g].frame = e
        BY <1>6, <3>1, <3>2
      <4>2. go[g].pc = "synchronized" \/ (go[g].pc = "flush" /\ buffered = <<>>)
        BY <1>1, <1>6, <3>1, <3>2, <4>1 DEF Gives, Keeps, Syncs, Unbuffers, Rests
      <4> QED BY <1>2, <1>4, <4>1, <4>2
    <3> QED BY <2>1, <3>1, <3>2
  <2>6. (UNCHANGED vars \/ \E f \in Frame : QueueFrame(f)) => go' = go
    BY DEF vars, QueueFrame
  <2> QED BY <2>2, <2>3, <2>4, <2>5, <2>6, OuterSteps
<1> QED BY <1>5, <1>6 DEF Leaving

\* Every step keeps e behind x.
LEMMA TrailsNext ==
  ASSUME OneEach, TypeInv, TypeInv', PcInv, PlaceInv, CountInv, LeadInv, PhaseInv, SentInv, [Next]_vars,
         NEW x \in Frame, NEW e \in Frame, x # e, x \in FramesOf(arrived), ~isSystemFrame(x),
         Kind[e] = "end", Trails(x, e)
  PROVE  Trails(x, e)'
<1>1. x \notin unsent /\ ~isSystemFrame(e) /\ 0 \in Node
  BY Parts DEF SentInv, isSystemFrame, SystemKinds
<1>2. /\ \A p \in Node : OrderAt(p, x, e)
      /\ Sent(e) => x \notin Present(0)
      /\ Owes(e) # {} => counter[e] >= Cardinality(Late(x, e))
      /\ \A g \in Releasing : go[g].frame = e => \A b \in Branch : x \notin Present(b)
      /\ Leaving(e) => Spent(x)
  BY DEF Trails
<1>3. \A p \in Node : OrderAt(p, x, e)'
  BY <1>1, <1>2, OrderNext
<1>4. Sent(e)' => x \notin Present(0)'
  BY <1>1, <1>2, TrailsSent
<1>5. /\ Owes(e)' # {} => counter'[e] >= Cardinality(Late(x, e)')
      /\ \A g \in Releasing' : go'[g].frame = e => \A b \in Branch : x \notin Present(b)'
  BY <1>2, TrailsCounted
<1>6. Leaving(e)' => Spent(x)'
  BY <1>2, TrailsLeaving
<1> QED BY <1>3, <1>4, <1>5, <1>6 DEF Trails

\* Nothing has come before an EndFrame that is still unsent.
LEMMA TrailsNew ==
  ASSUME TypeInv, PcInv, PlaceInv, OnceInv, SentInv, NEW x, NEW e \in unsent
  PROVE  Trails(x, e)
<1>1. /\ Branch \subseteq Node /\ 0 \in Node /\ \A p \in Node : e \notin Present(p)
  BY Parts DEF PlaceInv
<1>2. ASSUME NEW p \in Node PROVE OrderAt(p, x, e)
  <2>1. /\ e \notin FramesOf(node[p].inputQueue.other) /\ e \notin FramesOf(node[p].procQueue.other)
        /\ e \notin Held(p, "process")
    BY <1>1 DEF Present, Frames
  <2>2. Sorted(node[p].inputQueue.other, x, e) /\ Sorted(node[p].procQueue.other, x, e)
    BY <2>1 DEF Sorted, FramesOf
  <2> QED BY <2>1, <2>2 DEF OrderAt, Ordered
<1>3. ~Sent(e)
  <2>1. \A b \in Branch : ToFan(b, e) => e \in Present(0)
    BY DEF ToFan, Fanning, Present, Held
  <2> QED BY <1>1, <2>1 DEF Sent
<1>4. Owes(e) = {} /\ \A g \in Releasing : go[g].frame # e
  BY <1>3, OwedSent
<1>5. e \notin FramesOf(out)
  BY DEF OnceInv, AllSeen, SentInv, FramesOf
<1>6. ~Leaving(e)
  BY <1>4, <1>5 DEF Leaving, Releasing
<1> QED BY <1>2, <1>3, <1>4, <1>6 DEF Trails

\* A frame gets behind another by being queued.
LEMMA BeforeNext ==
  ASSUME TypeInv, SentInv, [Next]_vars, NEW x, NEW e, Before(x, e)'
  PROVE  /\ x \in FramesOf(arrived) /\ x # e
         /\ Before(x, e) \/ e \in unsent
<1>1. arrived \in Seq(Frame) /\ Distinct(arrived) /\ Len(arrived) \in Nat
  BY DEF TypeInv, TypeOK, SentInv
<1>2. ASSUME Before(x, e) PROVE x \in FramesOf(arrived) /\ x # e
  <2>1. PICK i \in 1..Len(arrived), j \in 1..Len(arrived) : i < j /\ arrived[i] = x /\ arrived[j] = e
    BY <1>2 DEF Before
  <2>2. i # j
    BY <1>1, <2>1
  <2> QED BY <1>1, <2>1, <2>2 DEF Distinct, FramesOf
<1>3. CASE arrived' = arrived
  <2>1. Before(x, e)
    BY <1>3 DEF Before
  <2> QED BY <1>2, <2>1
<1>4. ASSUME NEW f \in Frame, QueueFrame(f)
      PROVE  x \in FramesOf(arrived) /\ x # e /\ (Before(x, e) \/ e \in unsent)
  <2>1. f \in unsent /\ arrived' = Append(arrived, f)
    BY <1>4 DEF QueueFrame
  <2>2. /\ Len(arrived') = Len(arrived) + 1 /\ arrived'[Len(arrived) + 1] = f
        /\ \A i \in 1..Len(arrived) : arrived'[i] = arrived[i]
    BY <1>1, <2>1, AppendTo
  <2>3. PICK i \in 1..Len(arrived'), j \in 1..Len(arrived') : i < j /\ arrived'[i] = x /\ arrived'[j] = e
    BY DEF Before
  <2>4. i \in 1..Len(arrived) /\ (j \in 1..Len(arrived) \/ j = Len(arrived) + 1)
    BY <1>1, <2>2, <2>3
  <2>5. CASE j \in 1..Len(arrived)
    <3>1. Before(x, e)
      BY <2>2, <2>3, <2>4, <2>5 DEF Before
    <3> QED BY <1>2, <3>1
  <2>6. CASE j = Len(arrived) + 1
    <3>1. x \in FramesOf(arrived) /\ e = f
      BY <2>2, <2>3, <2>4, <2>6 DEF FramesOf
    <3> QED BY <2>1, <3>1 DEF SentInv
  <2> QED BY <2>4, <2>5, <2>6
<1>5. (\E f \in Frame : QueueFrame(f)) \/ arrived' = arrived
  <2>1. ASSUME NEW g \in Goroutines, FanOutStep(g) \/ SinkStep(g) PROVE arrived' = arrived
    BY <2>1 DEF FanOutStep, Arm, PauseSystem, PauseFrames, FanOut, SinkStep, emit, Push, sinkPush,
       flushBuffered, PushBuffered, emitSynchronized, PushSynchronized, ResumeSystem, ResumeFrames
  <2>2. \A p \in Node : NodeStep(p) => arrived' = arrived
    BY NodeStepFrame
  <2>3. \A b \in Branch : Raise(b) \/ Consume(b) => arrived' = arrived
    BY DEF Raise, Consume
  <2>4. UNCHANGED vars => arrived' = arrived
    BY DEF vars
  <2> QED BY <2>1, <2>2, <2>3, <2>4, NextSteps
<1> QED BY <1>3, <1>4, <1>5

\* So nothing leaves behind the EndFrame that was queued ahead of it.
LEMMA EndTrailsNext ==
  ASSUME TypeInv, TypeInv', PcInv, PlaceInv, OnceInv, SentInv, TrailInv, [Next]_vars
  PROVE  EndTrails'
<1>1. out \in Seq(Frame) /\ Len(out) \in Nat
  BY DEF TypeInv, TypeOK
<1>2. ASSUME NEW x, NEW e, e \in FramesOf(out), Before(x, e)' PROVE Before(x, e)
  <2>1. e \notin unsent
    BY <1>2 DEF OnceInv, AllSeen, SentInv, FramesOf
  <2> QED BY <1>2, <2>1, BeforeNext
<1>3. CASE out' = out
  <2>1. ASSUME NEW i \in 1..Len(out), NEW j \in 1..Len(out), i < j, Kind[out[i]] = "end",
               ~isSystemFrame(out[j]), Before(out[j], out[i])'
        PROVE  FALSE
    <3>1. PICK x, e : x = out[j] /\ e = out[i]
      OBVIOUS
    <3>2. Before(x, e)' /\ e \in FramesOf(out)
      BY <1>3, <2>1, <3>1 DEF Before, FramesOf
    <3>3. Before(x, e)
      BY <1>2, <3>2
    <3> QED BY <2>1, <3>1, <3>3 DEF TrailInv, EndTrails
  <2> QED BY <1>3, <2>1 DEF EndTrails
<1>4. ASSUME NEW g \in Goroutines, Carries(g), out' = Append(out, Carried(g)), Carried(g) \in Frame
      PROVE  EndTrails'
  <2>1. /\ Len(out') = Len(out) + 1 /\ out'[Len(out) + 1] = Carried(g)
        /\ \A i \in 1..Len(out) : out'[i] = out[i]
    BY <1>1, <1>4, AppendTo
  <2>2. ASSUME NEW i \in 1..Len(out'), NEW j \in 1..Len(out'), i < j, NEW x, NEW e, x = out'[j], e = out'[i],
               Kind[e] = "end", ~isSystemFrame(x), Before(x, e)'
        PROVE  FALSE
    <3>1. i \in 1..Len(out) /\ (j \in 1..Len(out) \/ j = Len(out) + 1)
      BY <1>1, <2>1, <2>2
    <3>2. e = out[i] /\ e \in FramesOf(out) /\ e \in Frame
      BY <1>1, <2>1, <2>2, <3>1 DEF FramesOf
    <3>3. Before(x, e)
      BY <1>2, <2>2, <3>2
    <3>4. CASE j \in 1..Len(out)
      BY <2>1, <2>2, <3>1, <3>2, <3>3, <3>4 DEF TrailInv, EndTrails
    <3>5. CASE j = Len(out) + 1
      <4>1. x = Carried(g) /\ x \in Frame
        BY <1>4, <2>1, <2>2, <3>5
      <4>2. Trails(x, e)
        BY <2>2, <3>2, <3>3, <4>1 DEF TrailInv
      <4>3. Spent(x)
        BY <3>2, <4>2 DEF Trails, Leaving
      <4> QED BY <1>4, <4>1, <4>3 DEF Spent
    <3> QED BY <3>1, <3>4, <3>5
  <2>3. ASSUME NEW i \in 1..Len(out'), NEW j \in 1..Len(out'), i < j, Kind[out'[i]] = "end",
               ~isSystemFrame(out'[j]), Before(out[j], out[i])'
        PROVE  FALSE
    <3>1. PICK x, e : x = out'[j] /\ e = out'[i]
      OBVIOUS
    <3>2. Before(x, e)'
      BY <2>3, <3>1 DEF Before
    <3> QED BY <2>2, <2>3, <3>1, <3>2
  <2> QED BY <2>3 DEF EndTrails
<1> QED BY <1>3, <1>4, OutGives

\* Nothing has been queued or has left to begin with.
LEMMA TrailInit == Init => TrailInv
<1> SUFFICES ASSUME Init PROVE TrailInv
  OBVIOUS
<1>1. Len(arrived) = 0 /\ Len(out) = 0
  BY DEF Init
<1>2. \A x, e : ~Before(x, e)
  BY <1>1 DEF Before
<1> QED BY <1>1, <1>2 DEF TrailInv, EndTrails

\* Every step keeps each EndFrame behind what was queued ahead of it.
LEMMA TrailNext ==
  ASSUME OneEach, TypeInv, TypeInv', PcInv, PlaceInv, CountInv, LeadInv, PhaseInv, OnceInv, SentInv,
         TrailInv, [Next]_vars
  PROVE  TrailInv'
<1>1. ASSUME NEW x \in Frame, NEW e \in Frame, ~isSystemFrame(x), Kind[e] = "end", Before(x, e)'
      PROVE  Trails(x, e)'
  <2>1. x \in FramesOf(arrived) /\ x # e /\ (Before(x, e) \/ e \in unsent)
    BY <1>1, BeforeNext
  <2>2. Trails(x, e)
    BY <1>1, <2>1, TrailsNew DEF TrailInv
  <2> QED BY <1>1, <2>1, <2>2, TrailsNext
<1>2. EndTrails'
  BY EndTrailsNext
<1> QED BY <1>1, <1>2 DEF TrailInv

\* The EndFrame leaves behind everything that was queued at the parallel pipeline
\* ahead of it and goes through the branches in order, however unevenly the
\* branches advance and whatever interrupts or cancels them.
THEOREM EndTrailsHolds == OwnPlain /\ OneEach => (Spec => []EndTrails)
<1>1. SUFFICES ASSUME OwnPlain, OneEach PROVE Spec => []EndTrails
  OBVIOUS
<1> DEFINE Inv == /\ TypeInv /\ LeadInv /\ PcInv /\ PlaceInv /\ CountInv /\ PhaseInv
                  /\ OnceInv /\ SentInv /\ TrailInv
<1>2. Init => Inv
  BY TypeInit, LeadInit, PcInit, PlaceInit, CountInit, PhaseInit, OnceInit, SentInit, TrailInit
<1>3. Inv /\ [Next]_vars => Inv'
  <2> SUFFICES ASSUME Inv, [Next]_vars PROVE Inv'
    OBVIOUS
  <2>1. TypeInv'
    BY TypeNext
  <2>2. LeadInv' /\ PcInv' /\ OnceInv'
    BY <1>1, LeadNext, PcNext, OnceNext
  <2>3. PlaceInv' /\ CountInv' /\ SentInv'
    BY <2>1, PlaceNext, CountNext, SentNext
  <2>4. PhaseInv'
    BY <1>1, <2>1, PhaseNext
  <2>5. TrailInv'
    BY <1>1, <2>1, TrailNext
  <2> QED BY <2>1, <2>2, <2>3, <2>4, <2>5
<1>4. Inv => EndTrails
  BY DEF TrailInv
<1> QED BY <1>2, <1>3, <1>4, PTL DEF Spec
=============================================================================
