-------------------------- MODULE ProcessorProofs --------------------------
(***************************************************************************)
(* What holds of a processor for every set of frames and any number of     *)
(* interruptions, pauses and withdrawals: type correctness; at most one    *)
(* process goroutine works at a time; Cleanup and a CancelFrame are final; *)
(* the StartFrame is handled first; a data or control frame is at one      *)
(* place and is handled once; a frame that an interruption dropped is      *)
(* never handled; and every step of the processor is a step of             *)
(* OrderedDelivery, or none, so that its queues and goroutines are one     *)
(* line of frames to whoever queues them.                                  *)
(***************************************************************************)
EXTENDS Delivery, FrameQueueProofs

(***************************************************************************)
(* Type correctness.  TypeOK is not inductive as it stands: that the       *)
(* history and the queues hold frames and never nil rests on HandOK, which *)
(* says that a goroutine that has taken a frame off a queue holds one.     *)
(***************************************************************************)
HandOK == \A g \in Goroutines : go[g].pc \in HandPcs => go[g].frame \in Frame

TypeInv == TypeOK /\ HandOK

GoOK == go \in Seq(Goroutine) /\ Len(go) >= 3 /\ HandOK

\* One goroutine changes; it stays one that holds a frame where it must.
LEMMA UpdateType ==
  ASSUME GoOK, NEW g \in Goroutines, NEW r \in Goroutine, Update(g, r),
         r.pc \in HandPcs => r.frame \in Frame
  PROVE  GoOK'
<1>1. /\ go' \in Seq(Goroutine) /\ Len(go') = Len(go)
      /\ \A h \in Goroutines : go'[h] = IF h = g THEN r ELSE go[h]
  BY ExceptSeq DEF Update, Goroutines, GoOK
<1> QED BY <1>1 DEF HandOK, Goroutines, GoOK

\* One goroutine moves on to pc.
LEMMA GotoType ==
  ASSUME GoOK, NEW g \in Goroutines, NEW pc \in Pcs, Goto(g, pc),
         pc \in HandPcs => go[g].frame \in Frame
  PROVE  GoOK'
<1> DEFINE r == [go[g] EXCEPT !.pc = pc]
<1>1. go[g] \in Goroutine
  BY ElementOfSeq DEF GoOK, Goroutines
<1>2. r \in Goroutine /\ r.pc = pc /\ r.frame = go[g].frame
  BY <1>1 DEF Goroutine
<1>3. Update(g, r)
  BY DEF Goto
<1> HIDE DEF r
<1> QED BY <1>2, <1>3, UpdateType

\* An event is set or cleared; an event nobody made is not there to change.
LEMMA EventType ==
  ASSUME NEW evs \in Seq(BOOLEAN), NEW e, NEW b \in BOOLEAN
  PROVE  [evs EXCEPT ![e] = b] \in Seq(BOOLEAN) /\ Len([evs EXCEPT ![e] = b]) = Len(evs)
<1> DEFINE new == [evs EXCEPT ![e] = b]
<1>1. evs \in [1..Len(evs) -> BOOLEAN] /\ Len(evs) \in Nat
  BY LenProperties
<1>2. new \in [1..Len(evs) -> BOOLEAN]
  BY <1>1
<1>3. new \in Seq(BOOLEAN)
  BY <1>1, <1>2, SeqDef
<1>4. DOMAIN new = 1..Len(new) /\ Len(new) \in Nat /\ DOMAIN new = 1..Len(evs)
  BY <1>2, <1>3, LenProperties
<1> HIDE DEF new
<1>5. Len(new) = Len(evs)
  <2>1. Len(evs) \in Nat
    BY <1>1
  <2> QED BY <1>4, <2>1
<1> QED BY <1>3, <1>5 DEF new

\* Setting an event wakes goroutines but moves only the one that sets it.
LEMMA SetEventType ==
  ASSUME GoOK, events \in Seq(BOOLEAN), Len(events) >= 1,
         NEW g \in Goroutines, NEW e \in Nat, NEW pc \in Pcs \ HandPcs,
         SetEvent(g, e, pc)
  PROVE  GoOK' /\ events' \in Seq(BOOLEAN) /\ Len(events') = Len(events)
<1>1. \A h \in Goroutines : go[h] \in Goroutine
  BY ElementOfSeq DEF GoOK, Goroutines
<1>2. Len(go) \in Nat
  BY DEF GoOK
<1>3. go' \in [1..Len(go) -> Goroutine]
  BY <1>1 DEF SetEvent, Goroutines, Goroutine
<1>4. go' \in Seq(Goroutine) /\ Len(go') = Len(go)
  <2>1. go' \in Seq(Goroutine)
    BY <1>2, <1>3, SeqDef
  <2>2. DOMAIN go' = 1..Len(go') /\ Len(go') \in Nat /\ DOMAIN go' = 1..Len(go)
    BY <1>3, <2>1, LenProperties
  <2> QED BY <1>2, <2>1, <2>2
<1>5. \A h \in Goroutines : /\ go'[h].frame = go[h].frame
                            /\ h # g => go'[h].pc = go[h].pc
                            /\ h = g => go'[h].pc = pc
  BY <1>1 DEF SetEvent, Goroutines, Goroutine
<1>6. GoOK'
  BY <1>4, <1>5 DEF GoOK, HandOK, Goroutines
<1>7. events' \in Seq(BOOLEAN) /\ Len(events') = Len(events)
  BY EventType DEF SetEvent
<1> QED BY <1>6, <1>7

\* A new processor (New) is well typed and holds no frame.
LEMMA TypeInit == Init => TypeInv
<1> SUFFICES ASSUME Init PROVE TypeInv
  OBVIOUS
<1>1. goroutine("new") \in Goroutine /\ goroutine("none") \in Goroutine
  BY DEF goroutine, Goroutine, Pcs, LifePcs
<1>2. go \in Seq(Goroutine) /\ Len(go) = 3 /\ \A g \in Goroutines : go[g].pc \notin HandPcs
  BY <1>1 DEF Init, Goroutines, goroutine, HandPcs
<1>3. newQueue \in Queue
  BY DEF newQueue, Queue
<1>4. events \in Seq(BOOLEAN) /\ Len(events) = 1
  BY DEF Init
<1>5. arrived \in Seq(Frame) /\ begun \in Seq(Frame)
  BY DEF Init
<1>6. sent \in [Frame -> {"unsent", "opening", "queued", "refused"}]
  BY DEF Init
<1>7. HandOK
  BY <1>2 DEF HandOK
<1>8. QueueOK
  BY <1>3, <1>6 DEF Init, QueueOK
<1>9. FlagsOK
  BY DEF Init, FlagsOK
<1>10. TaskOK
  BY <1>2 DEF Init, TaskOK
<1>11. EventsOK
  BY <1>4 DEF Init, EventsOK
<1>12. HistoryOK
  BY <1>5 DEF Init, HistoryOK
<1> QED BY <1>7, <1>8, <1>9, <1>10, <1>11, <1>12 DEF TypeInv, TypeOK

\* Everything TypeInv says of the goroutines is GoOK, and of a goroutine its type.
LEMMA TypeInvGo ==
  ASSUME TypeInv
  PROVE  /\ GoOK /\ Len(go) \in Nat
         /\ \A g \in Goroutines : go[g] \in Goroutine /\ (go[g].pc \in HandPcs => go[g].frame \in Frame)
         /\ {Life, Watch, Input} \subseteq Goroutines /\ Loops \subseteq Goroutines
<1>1. go \in Seq(Goroutine) /\ Len(go) >= 3 /\ HandOK
  BY DEF TypeInv, TypeOK, TaskOK
<1>2. \A g \in Goroutines : go[g] \in Goroutine
  BY <1>1, ElementOfSeq DEF Goroutines
<1>3. {Life, Watch, Input} \subseteq Goroutines /\ Loops \subseteq Goroutines
  BY <1>1 DEF Life, Watch, Input, Goroutines, Loops
<1> QED BY <1>1, <1>2, <1>3 DEF GoOK, HandOK

\* A step that changes nothing but the goroutines.
LEMMA OnlyGo ==
  ASSUME TypeInv, GoOK',
         UNCHANGED <<queueVars, startVars, taskVars, pauseVars, histVars>>
  PROVE  TypeInv'
  BY DEF TypeInv, TypeOK, QueueOK, FlagsOK, TaskOK, EventsOK, HistoryOK, GoOK,
         queueVars, startVars, taskVars, pauseVars, histVars

\* The places a goroutine can go to are where a goroutine can be.
LEMMA NextPcs ==
  ASSUME NEW g
  PROVE  /\ Loop(g) \in Pcs \ HandPcs
         /\ AfterResume(g) \in Pcs \ HandPcs
         /\ AfterJoin(g) \in Pcs \ HandPcs
         /\ \A f : FirstPc(f) \in Pcs \ HandPcs
<1> USE DEF Pcs, HandPcs, HandlerPcs, ResumePcs, LifePcs
<1>1. Loop(g) \in Pcs \ HandPcs
  BY DEF Loop
<1>2. AfterResume(g) \in Pcs \ HandPcs
  BY <1>1 DEF AfterResume, Loop
<1>3. AfterJoin(g) \in Pcs \ HandPcs
  BY DEF AfterJoin
<1>4. \A f : FirstPc(f) \in Pcs \ HandPcs
  BY DEF FirstPc
<1> QED BY <1>1, <1>2, <1>3, <1>4

\* Queueing a frame, refusing it, opening the gate for it.
LEMMA TypeSend ==
  ASSUME TypeInv, NEW f \in Frame, Send(f)
  PROVE  TypeInv'
<1> USE DEF TypeInv, TypeOK, queueVars, startVars, taskVars, pauseVars, histVars
<1>1. CASE QueueFrame(f)
  <2>1. QueueOK'
    BY <1>1, PushProperties DEF QueueFrame, QueueOK
  <2>2. HistoryOK'
    BY <1>1, AppendTo DEF QueueFrame, HistoryOK
  <2>3. FlagsOK' /\ TaskOK' /\ EventsOK' /\ HandOK'
    BY <1>1 DEF QueueFrame, FlagsOK, TaskOK, EventsOK, HandOK, Goroutines
  <2> QED BY <2>1, <2>2, <2>3
<1>2. CASE RefuseFrame(f)
  BY <1>2 DEF RefuseFrame, QueueOK, FlagsOK, TaskOK, EventsOK, HistoryOK, HandOK, Goroutines
<1>3. CASE OpenOnStart(f)
  BY <1>3 DEF OpenOnStart, QueueOK, FlagsOK, TaskOK, EventsOK, HistoryOK, HandOK, Goroutines
<1> QED BY <1>1, <1>2, <1>3 DEF Send

\* Taking a frame off a queue and passing the pause gate.
LEMMA TypeTake ==
  ASSUME TypeInv, NEW g \in Goroutines,
         \/ Top(g) \/ GetCheck(g) \/ Pull(g) \/ GoIdle(g) \/ Wake(g)
         \/ takeCurFrame(g) \/ giveBack(g)
         \/ Gate(g) \/ WaitEvent(g) \/ Select(g) \/ ClearEvent(g) \/ Unblock(g)
  PROVE  TypeInv'
<1>1. /\ GoOK /\ go[g] \in Goroutine
      /\ go[g].pc \in HandPcs => go[g].frame \in Frame
  BY TypeInvGo
<1> USE DEF Pcs, HandPcs
<1>2. CASE Top(g)
  <2>1. GoOK'
    BY <1>1, <1>2, GotoType DEF Top
  <2> QED BY <1>2, <2>1 DEF Top, GoOK, TypeInv, TypeOK, QueueOK, FlagsOK, TaskOK, EventsOK,
             HistoryOK, queueVars, startVars, pauseVars, histVars
<1>3. CASE GetCheck(g)
  <2> DEFINE r == [go[g] EXCEPT !.pc = IF Stopped(g) THEN "exited" ELSE "pull",
                                !.frame = NoFrame, !.on = 0, !.woken = FALSE]
  <2>1. r \in Goroutine /\ r.pc \notin HandPcs
    BY <1>1 DEF Goroutine
  <2>2. GoOK'
    BY <1>1, <1>3, <2>1, UpdateType DEF GetCheck
  <2> QED BY <1>3, <2>2, OnlyGo DEF GetCheck
<1>4. CASE Pull(g)
  <2>1. inputQueue \in Queue /\ procQueue \in Queue /\ ~isEmpty(QueueOf(g))
    BY <1>4 DEF Pull, TypeInv, TypeOK, QueueOK
  <2>2. head(QueueOf(g)) \in Frame /\ inputQueue' \in Queue /\ procQueue' \in Queue
    BY <1>4, <2>1, GetProperties DEF Pull, QueueOf
  <2> DEFINE r == [go[g] EXCEPT !.pc = IF g = Input THEN "gate" ELSE "take",
                                !.frame = head(QueueOf(g))]
  <2>3. r \in Goroutine /\ r.frame \in Frame
    BY <1>1, <2>2 DEF Goroutine
  <2>4. GoOK'
    BY <1>1, <1>4, <2>3, UpdateType DEF Pull
  <2> QED BY <1>4, <2>2, <2>4 DEF Pull, GoOK, TypeInv, TypeOK, QueueOK, FlagsOK, TaskOK,
             EventsOK, HistoryOK, startVars, taskVars, pauseVars, histVars
<1>5. CASE GoIdle(g)
  <2>1. GoOK'
    BY <1>1, <1>5, GotoType DEF GoIdle
  <2> QED BY <1>5, <2>1, OnlyGo DEF GoIdle
<1>6. CASE Wake(g)
  <2>1. GoOK'
    BY <1>1, <1>6, GotoType DEF Wake
  <2> QED BY <1>6, <2>1, OnlyGo DEF Wake
<1>7. CASE takeCurFrame(g)
  <2>1. GoOK'
    BY <1>1, <1>7, GotoType DEF takeCurFrame
  <2>2. curFrame' \in Frame \cup {NoFrame}
    BY <1>1, <1>7 DEF takeCurFrame, TypeInv, TypeOK, TaskOK
  <2> QED BY <1>7, <2>1, <2>2 DEF takeCurFrame, GoOK, TypeInv, TypeOK, QueueOK, FlagsOK, TaskOK,
             EventsOK, HistoryOK, queueVars, startVars, pauseVars, histVars
<1>8. CASE giveBack(g)
  <2>1. GoOK'
    BY <1>1, <1>8, GotoType DEF giveBack
  <2>2. procQueue' \in Queue
    BY <1>1, <1>8, RequeueProperties DEF giveBack, TypeInv, TypeOK, QueueOK
  <2> QED BY <1>8, <2>1, <2>2 DEF giveBack, GoOK, TypeInv, TypeOK, QueueOK, FlagsOK, TaskOK,
             EventsOK, HistoryOK, startVars, taskVars, pauseVars, histVars
<1>9. CASE Gate(g)
  <2> DEFINE r == [go[g] EXCEPT !.pc = "wait", !.on = GateEvent(g)]
  <2>1. GateEvent(g) \in Nat
    BY DEF GateEvent, inputEvent, TypeInv, TypeOK, EventsOK
  <2>2. r \in Goroutine /\ r.frame = go[g].frame
    BY <1>1, <2>1 DEF Goroutine
  <2>3. GoOK'
    BY <1>1, <1>9, <2>2, GotoType, UpdateType DEF Gate
  <2> QED BY <1>9, <2>3, OnlyGo DEF Gate
<1>10. CASE WaitEvent(g)
  <2> DEFINE r == [go[g] EXCEPT !.pc = IF events[go[g].on] THEN "clear" ELSE "select",
                                !.woken = FALSE]
  <2>1. r \in Goroutine /\ r.frame = go[g].frame
    BY <1>1 DEF Goroutine
  <2>2. GoOK'
    BY <1>1, <1>10, <2>1, UpdateType DEF WaitEvent
  <2> QED BY <1>10, <2>2, OnlyGo DEF WaitEvent
<1>11. CASE Select(g)
  <2>1. GoOK'
    BY <1>1, <1>11, GotoType DEF Select
  <2> QED BY <1>11, <2>1, OnlyGo DEF Select
<1>12. CASE ClearEvent(g)
  <2>1. GoOK'
    BY <1>1, <1>12, GotoType DEF ClearEvent
  <2>2. EventsOK'
    BY <1>12, EventType DEF ClearEvent, TypeInv, TypeOK, EventsOK
  <2> QED BY <1>12, <2>1, <2>2 DEF ClearEvent, GoOK, TypeInv, TypeOK, QueueOK, FlagsOK, TaskOK,
             HistoryOK, queueVars, startVars, taskVars, histVars
<1>13. CASE Unblock(g)
  <2>1. GoOK'
    BY <1>1, <1>13, GotoType DEF Unblock
  <2> QED BY <1>13, <2>1 DEF Unblock, GoOK, TypeInv, TypeOK, QueueOK, FlagsOK, TaskOK,
             EventsOK, HistoryOK, queueVars, startVars, taskVars, histVars
<1> QED BY <1>2, <1>3, <1>4, <1>5, <1>6, <1>7, <1>8, <1>9, <1>10, <1>11, <1>12, <1>13

\* A fresh pause gate: a new event, which is the process goroutine's.
LEMMA ResetGateType ==
  ASSUME TypeInv, ResetGate
  PROVE  EventsOK'
<1>1. events \in Seq(BOOLEAN) /\ Len(events) \in Nat
  BY DEF TypeInv, TypeOK, EventsOK
<1>2. Append(events, FALSE) \in Seq(BOOLEAN) /\ Len(Append(events, FALSE)) = Len(events) + 1
  BY <1>1, AppendProperties
<1> QED BY <1>1, <1>2 DEF ResetGate, EventsOK

\* What an interruption finds queued are frames.
LEMMA QueuedType ==
  ASSUME TypeInv
  PROVE  Queued \subseteq Frame
<1>1. procQueue.other \in Seq(Frame)
  BY DEF TypeInv, TypeOK, QueueOK, Queue
<1>2. FramesOf(procQueue.other) \subseteq Frame
  BY <1>1, ElementOfSeq DEF FramesOf
<1> QED BY <1>2 DEF Queued

\* Handling a frame, on whichever goroutine.
LEMMA TypeHandle ==
  ASSUME TypeInv, NEW g \in Goroutines,
         \/ Begin(g) \/ BeginPause(g) \/ PauseClear(g)
         \/ BroadcastResetGate(g) \/ Flush(g)
         \/ Finish(g) \/ applyPendingResume(g)
         \/ ResumeInput(g) \/ ResumeGet(g) \/ ResumeSet(g)
  PROVE  TypeInv'
<1>1. /\ GoOK /\ go[g] \in Goroutine
      /\ go[g].pc \in HandPcs => go[g].frame \in Frame
  BY TypeInvGo
<1>2. /\ "pauseClear" \in Pcs \ HandPcs /\ "watch" \in Pcs \ HandPcs
      /\ "finish" \in Pcs \ HandPcs /\ "flush" \in Pcs \ HandPcs
      /\ "after" \in Pcs \ HandPcs /\ "resumeGet" \in Pcs \ HandPcs
      /\ "resumeSet" \in Pcs \ HandPcs /\ "handle" \in HandPcs
  BY DEF Pcs, HandPcs, HandlerPcs, ResumePcs
<1>3. processEvent \in Nat /\ go[g].on \in Nat
  BY <1>1 DEF TypeInv, TypeOK, EventsOK, Goroutine
<1>4. Begins(g) => begun' \in Seq(Frame)
  BY <1>1, <1>2, AppendTo DEF Begins, TypeInv, TypeOK, HistoryOK
<1>5. CASE Begin(g)
  <2>1. GoOK'
    BY <1>1, <1>5, NextPcs, GotoType DEF Begin
  <2>2. FlagsOK'
    BY <1>5 DEF Begin, Begins, TypeInv, TypeOK, FlagsOK, startVars
  <2> QED BY <1>4, <1>5, <2>1, <2>2 DEF Begin, Begins, GoOK, TypeInv, TypeOK, QueueOK, TaskOK,
             EventsOK, HistoryOK, queueVars
<1>6. CASE BeginPause(g)
  <2> DEFINE r == [go[g] EXCEPT !.pc = "pauseClear", !.on = processEvent]
  <2>1. r \in Goroutine /\ r.pc = "pauseClear"
    BY <1>1, <1>2, <1>3 DEF Goroutine
  <2>2. GoOK'
    BY <1>1, <1>2, <1>6, <2>1, UpdateType DEF BeginPause
  <2>3. FlagsOK'
    BY <1>6 DEF BeginPause, Begins, TypeInv, TypeOK, FlagsOK, startVars
  <2> QED BY <1>4, <1>6, <2>2, <2>3 DEF BeginPause, Begins, GoOK, TypeInv, TypeOK, QueueOK, TaskOK,
             EventsOK, HistoryOK, queueVars
<1>7. CASE PauseClear(g)
  <2>1. GoOK'
    BY <1>1, <1>2, <1>7, GotoType DEF PauseClear
  <2>2. EventsOK'
    BY <1>7, EventType DEF PauseClear, TypeInv, TypeOK, EventsOK
  <2> QED BY <1>7, <2>1, <2>2 DEF PauseClear, GoOK, TypeInv, TypeOK, QueueOK, FlagsOK, TaskOK,
             HistoryOK, queueVars, startVars, taskVars, histVars
<1>8. CASE BroadcastResetGate(g)
  <2>1. GoOK'
    BY <1>1, <1>2, <1>8, GotoType DEF BroadcastResetGate
  <2>2. EventsOK'
    BY <1>8, ResetGateType DEF BroadcastResetGate
  <2>3. HistoryOK'
    BY <1>8, QueuedType DEF BroadcastResetGate, TypeInv, TypeOK, HistoryOK
  <2>4. FlagsOK'
    BY <1>8 DEF BroadcastResetGate, ResetGate, TypeInv, TypeOK, FlagsOK, startVars, taskVars
  <2> QED BY <1>8, <2>1, <2>2, <2>3, <2>4 DEF BroadcastResetGate, GoOK, TypeInv, TypeOK,
             QueueOK, TaskOK, queueVars, taskVars
<1>9. CASE Flush(g)
  <2>1. GoOK'
    BY <1>1, <1>2, <1>9, GotoType DEF Flush
  <2>2. procQueue' \in Queue
    BY <1>9, ResetProperties DEF Flush, TypeInv, TypeOK, QueueOK
  <2> QED BY <1>9, <2>1, <2>2 DEF Flush, GoOK, TypeInv, TypeOK, QueueOK, FlagsOK, TaskOK,
             EventsOK, HistoryOK, startVars, taskVars, pauseVars, histVars
<1>10. CASE Finish(g)
  <2>1. GoOK'
    BY <1>1, <1>2, <1>10, GotoType DEF Finish
  <2> QED BY <1>10, <2>1, OnlyGo DEF Finish
<1>11. CASE applyPendingResume(g)
  <2>1. GoOK'
    BY <1>1, <1>2, <1>11, NextPcs, GotoType DEF applyPendingResume
  <2> QED BY <1>11, <2>1 DEF applyPendingResume, GoOK, TypeInv, TypeOK, QueueOK, FlagsOK, TaskOK,
             EventsOK, HistoryOK, queueVars, startVars, taskVars, histVars
<1>12. CASE ResumeInput(g)
  <2>1. GoOK' /\ events' \in Seq(BOOLEAN) /\ Len(events') = Len(events)
    BY <1>1, <1>2, <1>12, SetEventType DEF ResumeInput, inputEvent, TypeInv, TypeOK, EventsOK
  <2> QED BY <1>12, <2>1 DEF ResumeInput, GoOK, TypeInv, TypeOK, QueueOK, FlagsOK, TaskOK,
             EventsOK, HistoryOK, queueVars, startVars, taskVars, histVars
<1>13. CASE ResumeGet(g)
  <2> DEFINE r == [go[g] EXCEPT !.on = processEvent,
                                !.pc = IF processEvent = 0 THEN AfterResume(g)
                                       ELSE "resumeSet"]
  <2>1. r \in Goroutine /\ r.pc \notin HandPcs
    BY <1>1, <1>2, <1>3, NextPcs DEF Goroutine
  <2>2. GoOK'
    BY <1>1, <1>13, <2>1, UpdateType DEF ResumeGet
  <2> QED BY <1>13, <2>2, OnlyGo DEF ResumeGet
<1>14. CASE ResumeSet(g)
  <2>1. GoOK' /\ events' \in Seq(BOOLEAN) /\ Len(events') = Len(events)
    BY <1>1, <1>3, <1>14, NextPcs, SetEventType DEF ResumeSet, TypeInv, TypeOK, EventsOK
  <2> QED BY <1>14, <2>1 DEF ResumeSet, GoOK, TypeInv, TypeOK, QueueOK, FlagsOK, TaskOK,
             EventsOK, HistoryOK, queueVars, startVars, taskVars, histVars
<1> QED BY <1>5, <1>6, <1>7, <1>8, <1>9, <1>10, <1>11, <1>12, <1>13, <1>14

\* Several goroutines change at once.
LEMMA ManyType ==
  ASSUME GoOK, go' \in [Goroutines -> Goroutine],
         \A h \in Goroutines : go'[h].pc \in HandPcs => go'[h].frame \in Frame
  PROVE  GoOK' /\ Len(go') = Len(go)
<1>1. Len(go) \in Nat /\ go' \in [1..Len(go) -> Goroutine]
  BY DEF GoOK, Goroutines
<1>2. go' \in Seq(Goroutine)
  BY <1>1, SeqDef
<1>3. DOMAIN go' = 1..Len(go') /\ Len(go') \in Nat /\ DOMAIN go' = 1..Len(go)
  BY <1>1, <1>2, LenProperties
<1>4. Len(go') = Len(go)
  <2>1. Len(go) \in Nat
    BY <1>1
  <2> QED BY <1>3, <2>1
<1> QED BY <1>2, <1>4 DEF GoOK, HandOK, Goroutines

\* Stopping the process goroutine, on goroutine g.
LEMMA StopType ==
  ASSUME TypeInv, NEW g \in Goroutines, NEW pc \in Pcs \ HandPcs,
         StopProcessTask(g, pc)
  PROVE  GoOK' /\ procRunning' \in BOOLEAN
<1>1. /\ GoOK /\ Len(go) \in Nat
      /\ \A h \in Goroutines : go[h] \in Goroutine /\ (go[h].pc \in HandPcs => go[h].frame \in Frame)
  BY TypeInvGo
<1>2. CASE procRunning
  <2>1. DOMAIN go = Goroutines
    BY <1>1, LenProperties DEF GoOK, Goroutines
  <2>2. "join" \in Pcs \ HandPcs
    BY DEF Pcs, HandPcs, HandlerPcs
  <2>3. go' = [go EXCEPT ![Len(go)].stop = TRUE, ![g].pc = "join", ![g].on = Len(go)]
    BY <1>2 DEF StopProcessTask
  <2>4. go' \in [Goroutines -> Goroutine]
    <3> DEFINE stopped == [go EXCEPT ![Len(go)].stop = TRUE]
               waiting == [stopped EXCEPT ![g].pc = "join"]
    <3>1. stopped \in [Goroutines -> Goroutine]
      BY <1>1, <2>1 DEF Goroutine
    <3>2. waiting \in [Goroutines -> Goroutine]
      <4> HIDE DEF stopped
      <4> QED BY <2>2, <3>1 DEF Goroutine
    <3>3. [waiting EXCEPT ![g].on = Len(go)] \in [Goroutines -> Goroutine]
      <4> HIDE DEF waiting
      <4> QED BY <1>1, <3>2 DEF Goroutine
    <3>4. go' = [waiting EXCEPT ![g].on = Len(go)]
      BY <2>3
    <3> QED BY <3>3, <3>4
  <2>5. \A h \in Goroutines : /\ go'[h].frame = go[h].frame
                              /\ go'[h].pc = IF h = g THEN "join" ELSE go[h].pc
    BY <1>1, <2>1, <2>3 DEF Goroutine
  <2>6. GoOK'
    BY <1>1, <2>2, <2>4, <2>5, ManyType
  <2> QED BY <1>2, <2>6 DEF StopProcessTask
<1>3. CASE ~procRunning
  BY <1>1, <1>3, GotoType DEF StopProcessTask, TypeInv, TypeOK, FlagsOK
<1> QED BY <1>2, <1>3

\* Starting a process goroutine.
LEMMA SpawnType ==
  ASSUME TypeInv, NEW pc \in Pcs \ HandPcs, Spawn(pc)
  PROVE  /\ GoOK' /\ procRunning' \in BOOLEAN /\ Len(go') = Len(go) + 1
         /\ \A h \in Goroutines : go'[h].pc = IF h = Input THEN pc ELSE go[h].pc
         /\ \A h \in Goroutines : h # Input => go'[h] = go[h]
         /\ go'[Input].frame = go[Input].frame /\ go'[Input].stop = go[Input].stop
         /\ go'[Len(go) + 1] = goroutine("top") /\ go'[Len(go) + 1].pc = "top"
<1>1. /\ GoOK /\ Len(go) \in Nat /\ Input \in Goroutines
      /\ \A h \in Goroutines : go[h] \in Goroutine /\ (go[h].pc \in HandPcs => go[h].frame \in Frame)
  BY TypeInvGo
<1> DEFINE old == [go EXCEPT ![Input].pc = pc]
           r == [go[Input] EXCEPT !.pc = pc]
<1>2. r \in Goroutine /\ r.pc = pc /\ r.frame = go[Input].frame /\ r.stop = go[Input].stop
  BY <1>1 DEF Goroutine
<1>3. old = [go EXCEPT ![Input] = r]
  BY <1>1
<1> HIDE DEF r
<1>4. /\ old \in Seq(Goroutine) /\ Len(old) = Len(go)
      /\ \A h \in Goroutines : old[h] = IF h = Input THEN r ELSE go[h]
  BY <1>1, <1>2, <1>3, ExceptSeq DEF GoOK, Goroutines
<1>5. goroutine("top") \in Goroutine /\ goroutine("top").pc = "top"
  BY DEF goroutine, Goroutine, Pcs
<1>6. go' = Append(old, goroutine("top"))
  BY DEF Spawn
<1> HIDE DEF old
<1>7. /\ go' \in Seq(Goroutine) /\ Len(go') = Len(go) + 1
      /\ \A h \in 1..Len(go) : go'[h] = old[h]
      /\ go'[Len(go) + 1] = goroutine("top")
  BY <1>4, <1>5, <1>6, AppendProperties
<1>8. \A h \in 1..(Len(go) + 1) : h \in Goroutines \/ h = Len(go) + 1
  BY <1>1 DEF Goroutines
<1>9. HandOK'
  BY <1>1, <1>2, <1>4, <1>5, <1>7, <1>8 DEF HandOK, Goroutines, HandPcs
<1>10. \A h \in Goroutines : go'[h].pc = IF h = Input THEN pc ELSE go[h].pc
  BY <1>2, <1>4, <1>7 DEF Goroutines
<1>11. GoOK'
  BY <1>1, <1>7, <1>9 DEF GoOK
<1>12. procRunning' \in BOOLEAN
  BY DEF Spawn
<1>13. go'[Len(go) + 1].pc = "top"
  BY <1>5, <1>7
<1>14. /\ \A h \in Goroutines : h # Input => go'[h] = go[h]
       /\ go'[Input].frame = go[Input].frame /\ go'[Input].stop = go[Input].stop
  BY <1>1, <1>2, <1>4, <1>7 DEF Goroutines
<1> QED BY <1>7, <1>10, <1>11, <1>12, <1>13, <1>14

\* What only the input goroutine does.
LEMMA TypeInput ==
  ASSUME TypeInv,
         \/ StartGate \/ HandOn \/ StartInterruption \/ Create \/ CreateFlush
         \/ CancelProcessTask \/ CancelFrameInProgress \/ Respawn \/ Join(Input)
         \/ HoldSystem \/ HoldFrames \/ StartWatcher
  PROVE  TypeInv'
<1>1. /\ GoOK /\ Input \in Goroutines /\ Watch \in Goroutines
      /\ \A h \in Goroutines : go[h] \in Goroutine /\ (go[h].pc \in HandPcs => go[h].frame \in Frame)
  BY TypeInvGo
<1>2. /\ "get" \in Pcs \ HandPcs /\ "exited" \in Pcs \ HandPcs
      /\ "flush" \in Pcs \ HandPcs /\ "create" \in Pcs \ HandPcs
      /\ "createFlush" \in Pcs \ HandPcs /\ "finish" \in Pcs \ HandPcs
      /\ "hold" \in Pcs \ HandPcs /\ "holdFrames" \in Pcs \ HandPcs
      /\ "pauseClear" \in Pcs \ HandPcs /\ "watching" \in Pcs \ HandPcs
      /\ "handle" \in HandPcs
  BY DEF Pcs, HandPcs, HandlerPcs
<1>3. CASE StartGate
  <2>1. GoOK'
    BY <1>1, <1>2, <1>3, GotoType DEF StartGate
  <2> QED BY <1>3, <2>1, OnlyGo DEF StartGate
<1>4. CASE HandOn
  <2>1. GoOK'
    BY <1>1, <1>2, <1>4, GotoType DEF HandOn
  <2>2. procQueue' \in Queue
    BY <1>1, <1>2, <1>4, PushProperties DEF HandOn, TypeInv, TypeOK, QueueOK
  <2> QED BY <1>4, <2>1, <2>2 DEF HandOn, GoOK, TypeInv, TypeOK, QueueOK, FlagsOK, TaskOK,
             EventsOK, HistoryOK, startVars, taskVars, pauseVars, histVars
<1>5. CASE StartInterruption
  <2>1. GoOK' /\ procRunning' \in BOOLEAN
    <3>1. CASE curFrame # NoFrame /\ ~Interruptible(curFrame)
      BY <1>1, <1>2, <1>5, <3>1, GotoType DEF StartInterruption, TypeInv, TypeOK, FlagsOK
    <3>2. CASE ~(curFrame # NoFrame /\ ~Interruptible(curFrame))
      BY <1>1, <1>2, <1>5, <3>2, StopType DEF StartInterruption
    <3> QED BY <3>1, <3>2
  <2>2. HistoryOK'
    BY <1>5, QueuedType DEF StartInterruption, TypeInv, TypeOK, HistoryOK
  <2>3. FlagsOK'
    BY <1>5, <2>1 DEF StartInterruption, TypeInv, TypeOK, FlagsOK, startVars, pauseVars
  <2> QED BY <1>5, <2>1, <2>2, <2>3 DEF StartInterruption, GoOK, TypeInv, TypeOK, QueueOK, TaskOK,
             EventsOK, queueVars, pauseVars
<1>6. CASE Create
  <2>1. GoOK'
    BY <1>1, <1>2, <1>6, GotoType DEF Create
  <2>2. EventsOK'
    BY <1>6, ResetGateType DEF Create, TypeInv, TypeOK, EventsOK, pauseVars
  <2>3. FlagsOK'
    BY <1>6 DEF Create, ResetGate, TypeInv, TypeOK, FlagsOK, startVars, taskVars, pauseVars
  <2> QED BY <1>6, <2>1, <2>2, <2>3 DEF Create, GoOK, TypeInv, TypeOK, QueueOK, TaskOK,
             HistoryOK, queueVars, taskVars, histVars
<1>7. CASE CreateFlush
  <2>1. GoOK' /\ procRunning' \in BOOLEAN
    BY <1>2, <1>7, SpawnType DEF CreateFlush
  <2>2. procQueue' \in Queue
    BY <1>7, ResetProperties DEF CreateFlush, TypeInv, TypeOK, QueueOK
  <2> QED BY <1>7, <2>1, <2>2 DEF CreateFlush, GoOK, TypeInv, TypeOK, QueueOK, FlagsOK, TaskOK,
             EventsOK, HistoryOK, startVars, pauseVars, histVars
<1>8. CASE CancelProcessTask
  <2>1. GoOK' /\ procRunning' \in BOOLEAN
    BY <1>1, <1>2, <1>8, StopType DEF CancelProcessTask
  <2> QED BY <1>8, <2>1 DEF CancelProcessTask, GoOK, TypeInv, TypeOK, QueueOK, FlagsOK, TaskOK,
             EventsOK, HistoryOK, queueVars, startVars, pauseVars, histVars
<1>9. CASE CancelFrameInProgress
  <2>1. GoOK' /\ procRunning' \in BOOLEAN
    <3>1. CASE Target # NoFrame /\ curFrame = Target
      BY <1>1, <1>2, <1>9, <3>1, StopType DEF CancelFrameInProgress
    <3>2. CASE ~(Target # NoFrame /\ curFrame = Target)
      BY <1>1, <1>2, <1>9, <3>2, GotoType DEF CancelFrameInProgress, TypeInv, TypeOK, FlagsOK
    <3> QED BY <3>1, <3>2
  <2> QED BY <1>9, <2>1 DEF CancelFrameInProgress, GoOK, TypeInv, TypeOK, QueueOK, FlagsOK, TaskOK,
             EventsOK, HistoryOK, queueVars, startVars, pauseVars, histVars
<1>10. CASE Respawn
  <2>1. GoOK' /\ procRunning' \in BOOLEAN
    <3>1. CASE procRunning
      BY <1>1, <1>2, <1>10, <3>1, GotoType DEF Respawn, TypeInv, TypeOK, FlagsOK
    <3>2. CASE ~procRunning
      BY <1>2, <1>10, <3>2, SpawnType DEF Respawn
    <3> QED BY <3>1, <3>2
  <2> QED BY <1>10, <2>1 DEF Respawn, GoOK, TypeInv, TypeOK, QueueOK, FlagsOK, TaskOK,
             EventsOK, HistoryOK, queueVars, startVars, pauseVars, histVars
<1>11. CASE Join(Input)
  <2>1. GoOK'
    BY <1>1, <1>11, NextPcs, GotoType DEF Join
  <2> QED BY <1>11, <2>1, OnlyGo DEF Join
<1>12. CASE HoldSystem
  <2>1. GoOK'
    BY <1>1, <1>2, <1>12, GotoType DEF HoldSystem
  <2>2. EventsOK'
    BY <1>12, EventType DEF HoldSystem, TypeInv, TypeOK, EventsOK
  <2> QED BY <1>12, <2>1, <2>2 DEF HoldSystem, GoOK, TypeInv, TypeOK, QueueOK, FlagsOK, TaskOK,
             HistoryOK, queueVars, startVars, taskVars, histVars
<1>13. CASE HoldFrames
  <2> DEFINE r == [go[Input] EXCEPT !.pc = "pauseClear", !.on = processEvent]
  <2>1. processEvent \in Nat /\ go[Input] \in Goroutine
    BY <1>1 DEF TypeInv, TypeOK, EventsOK
  <2>2. r \in Goroutine /\ r.pc = "pauseClear"
    BY <1>2, <2>1 DEF Goroutine
  <2>3. GoOK'
    BY <1>1, <1>2, <1>13, <2>2, UpdateType DEF HoldFrames
  <2> QED BY <1>13, <2>3 DEF HoldFrames, GoOK, TypeInv, TypeOK, QueueOK, FlagsOK, TaskOK,
             EventsOK, HistoryOK, queueVars, startVars, taskVars, histVars
<1>14. CASE StartWatcher
  <2>1. DOMAIN go = Goroutines
    BY <1>1, LenProperties DEF GoOK, Goroutines
  <2>2. go' = [go EXCEPT ![Input].pc = "finish", ![Watch].pc = "watching"]
    BY <1>14 DEF StartWatcher
  <2>3. go' \in [Goroutines -> Goroutine]
    BY <1>1, <1>2, <2>1, <2>2 DEF Goroutine
  <2>4. \A h \in Goroutines : /\ go'[h].frame = go[h].frame
                              /\ go'[h].pc \in {"finish", "watching", go[h].pc}
    BY <1>1, <2>1, <2>2 DEF Goroutine
  <2>5. GoOK'
    BY <1>1, <1>2, <2>3, <2>4, ManyType
  <2> QED BY <1>14, <2>5, OnlyGo DEF StartWatcher
<1> QED BY <1>3, <1>4, <1>5, <1>6, <1>7, <1>8, <1>9, <1>10, <1>11, <1>12, <1>13, <1>14

\* What the pipeline's goroutine and the watcher do.
LEMMA TypeLife ==
  ASSUME TypeInv,
         \/ Setup \/ SetupFinished \/ OpenOnSetup \/ WatcherFires
         \/ Cleanup \/ JoinWatcher \/ CancelInputTask \/ InputWaited
         \/ StopForGood \/ Join(Life)
  PROVE  TypeInv'
<1>1. /\ GoOK /\ {Life, Watch, Input} \subseteq Goroutines
      /\ \A h \in Goroutines : go[h] \in Goroutine /\ (go[h].pc \in HandPcs => go[h].frame \in Frame)
  BY TypeInvGo
<1>2. /\ "settingUp" \in Pcs \ HandPcs /\ "startGate" \in Pcs \ HandPcs
      /\ "finishing" \in Pcs \ HandPcs /\ "up" \in Pcs \ HandPcs
      /\ "resumeInput" \in Pcs \ HandPcs /\ "cancelInput" \in Pcs \ HandPcs
      /\ "lift" \in Pcs \ HandPcs /\ "waitInput" \in Pcs \ HandPcs
      /\ "stopProc" \in Pcs \ HandPcs /\ "down" \in Pcs \ HandPcs
  BY DEF Pcs, HandPcs, LifePcs, ResumePcs
<1>3. DOMAIN go = Goroutines
  BY <1>1, LenProperties DEF GoOK, Goroutines
<1>4. CASE Setup
  <2>1. go' = [go EXCEPT ![Life].pc = "settingUp", ![Input].pc = "startGate"]
    BY <1>4 DEF Setup
  <2>2. go' \in [Goroutines -> Goroutine]
    BY <1>1, <1>2, <1>3, <2>1 DEF Goroutine
  <2>3. \A h \in Goroutines : /\ go'[h].frame = go[h].frame
                              /\ go'[h].pc \in {"settingUp", "startGate", go[h].pc}
    BY <1>1, <1>3, <2>1 DEF Goroutine
  <2>4. GoOK'
    BY <1>1, <1>2, <2>2, <2>3, ManyType
  <2> QED BY <1>4, <2>4, OnlyGo DEF Setup
<1>5. CASE SetupFinished
  <2>1. GoOK'
    BY <1>1, <1>2, <1>5, GotoType DEF SetupFinished
  <2> QED BY <1>5, <2>1 DEF SetupFinished, GoOK, TypeInv, TypeOK, QueueOK, FlagsOK, TaskOK,
             EventsOK, HistoryOK, queueVars, taskVars, pauseVars, histVars
<1>6. CASE OpenOnSetup
  <2>1. GoOK'
    BY <1>1, <1>2, <1>6, GotoType DEF OpenOnSetup
  <2> QED BY <1>6, <2>1 DEF OpenOnSetup, GoOK, TypeInv, TypeOK, QueueOK, FlagsOK, TaskOK,
             EventsOK, HistoryOK, queueVars, taskVars, pauseVars, histVars
<1>7. CASE WatcherFires
  <2>1. GoOK'
    BY <1>1, <1>2, <1>7, GotoType DEF WatcherFires
  <2> QED BY <1>7, <2>1, OnlyGo DEF WatcherFires
<1>8. CASE Cleanup
  <2>1. CASE go[Watch].pc = "none"
    <3>1. GoOK'
      BY <1>1, <1>2, <1>8, <2>1, GotoType DEF Cleanup
    <3> QED BY <1>8, <3>1, OnlyGo DEF Cleanup
  <2>2. CASE go[Watch].pc # "none"
    <3>1. go' = [go EXCEPT ![Life].pc = "lift", ![Watch].stop = TRUE]
      BY <1>8, <2>2 DEF Cleanup
    <3>2. go' \in [Goroutines -> Goroutine]
      <4> DEFINE lifting == [go EXCEPT ![Life].pc = "lift"]
      <4>1. lifting \in [Goroutines -> Goroutine]
        BY <1>1, <1>2, <1>3 DEF Goroutine
      <4>2. go' = [lifting EXCEPT ![Watch].stop = TRUE]
        BY <3>1
      <4> HIDE DEF lifting
      <4> QED BY <4>1, <4>2 DEF Goroutine
    <3>3. \A h \in Goroutines : /\ go'[h].frame = go[h].frame
                                /\ go'[h].pc \in {"lift", go[h].pc}
      BY <1>1, <1>3, <3>1 DEF Goroutine
    <3>4. GoOK'
      BY <1>1, <1>2, <3>2, <3>3, ManyType
    <3> QED BY <1>8, <3>4, OnlyGo DEF Cleanup
  <2> QED BY <2>1, <2>2
<1>9. CASE JoinWatcher
  <2>1. GoOK'
    BY <1>1, <1>2, <1>9, GotoType DEF JoinWatcher
  <2> QED BY <1>9, <2>1, OnlyGo DEF JoinWatcher
<1>10. CASE CancelInputTask
  <2>1. GoOK'
    BY <1>1, <1>2, <1>10, GotoType DEF CancelInputTask
  <2> QED BY <1>10, <2>1 DEF CancelInputTask, GoOK, TypeInv, TypeOK, QueueOK, FlagsOK, TaskOK,
             EventsOK, HistoryOK, queueVars, startVars, pauseVars, histVars
<1>11. CASE InputWaited
  <2>1. GoOK'
    BY <1>1, <1>2, <1>11, GotoType DEF InputWaited
  <2> QED BY <1>11, <2>1, OnlyGo DEF InputWaited
<1>12. CASE StopForGood
  <2>1. GoOK' /\ procRunning' \in BOOLEAN
    BY <1>1, <1>2, <1>12, StopType DEF StopForGood
  <2> QED BY <1>12, <2>1 DEF StopForGood, GoOK, TypeInv, TypeOK, QueueOK, FlagsOK, TaskOK,
             EventsOK, HistoryOK, queueVars, startVars, pauseVars, histVars
<1>13. CASE Join(Life)
  <2>1. GoOK'
    BY <1>1, <1>13, NextPcs, GotoType DEF Join
  <2> QED BY <1>13, <2>1, OnlyGo DEF Join
<1> QED BY <1>4, <1>5, <1>6, <1>7, <1>8, <1>9, <1>10, <1>11, <1>12, <1>13

\* No step, and no stuttering, breaks TypeInv.
LEMMA TypeNext == TypeInv /\ [Next]_vars => TypeInv'
<1> SUFFICES ASSUME TypeInv, [Next]_vars PROVE TypeInv'
  OBVIOUS
<1>1. {Life, Watch, Input} \subseteq Goroutines /\ Loops \subseteq Goroutines
  BY TypeInvGo
<1>2. CASE \E f \in Frame : Send(f)
  BY <1>2, TypeSend
<1>3. CASE Setup \/ SetupFinished \/ Cleanup \/ LifeStep
  BY <1>1, <1>3, TypeLife, TypeHandle DEF LifeStep
<1>4. CASE WatchStep
  BY <1>1, <1>4, TypeLife, TypeHandle DEF WatchStep
<1>5. ASSUME NEW g \in Goroutines, Drain(g) PROVE TypeInv'
  BY <1>5, TypeTake, TypeHandle DEF Drain
<1>6. CASE InputStep
  BY <1>1, <1>5, <1>6, TypeInput DEF InputStep
<1>7. CASE ProcessStep
  BY <1>1, <1>5, <1>7, TypeTake DEF ProcessStep, LoopStep
<1>8. CASE UNCHANGED vars
  <2>1. GoOK'
    BY <1>8, TypeInvGo DEF GoOK, HandOK, Goroutines, vars
  <2> QED BY <1>8, <2>1, OnlyGo DEF vars
<1> QED BY <1>2, <1>3, <1>4, <1>6, <1>7, <1>8 DEF Next

\* Every state of every behaviour is well typed: in particular a goroutine never
\* hands nil on to a queue, to a handler or to the history.
THEOREM TypeCorrect == Spec => []TypeOK
<1>1. TypeInv => TypeOK
  BY DEF TypeInv
<1> QED BY <1>1, TypeInit, TypeNext, PTL DEF Spec

-----------------------------------------------------------------------------
(***************************************************************************)
(* One process goroutine at a time.  OneHandler says nothing of a stopped  *)
(* goroutine that has yet to exit, nor of what teardown does beside the    *)
(* input goroutine, so the induction goes through LoopInv: while baseCtx   *)
(* lives, a process goroutine is only ever started once all earlier ones   *)
(* have exited; once it is canceled, one may be started beside another,    *)
(* but it never gets past its first look at its context.                   *)
(***************************************************************************)
\* An earlier goroutine that is still there makes a later one idle.
LastWorks == \A g, h \in Loops :
                (g < h /\ go[g].pc # "exited") => baseDone /\ ~Working(h)

\* Without a process goroutine to stop there is none, or it is being joined.
NoneLeft == (~procRunning /\ ~baseDone) =>
                \/ \A g \in Loops : go[g].pc = "exited"
                \/ go[Input].pc = "join" /\ go[Input].on = Len(go)

\* The pipeline's goroutine stops the process goroutine after baseCtx.
LifeLast == go[Life].pc \in {"waitInput", "stopProc", "join", "down"} => baseDone

\* createProcessTask goes on only when there is no process goroutine.
CreateAlone == go[Input].pc = "createFlush" => ~procRunning

\* Setting up is what starts the input goroutine.
NotYet == go[Life].pc = "new" => go[Input].pc = "none"

\* A goroutine that works is the latest and can be stopped, or it is being joined.
Covered == \A g \in Loops : Working(g) =>
               \/ procRunning /\ g = Len(go)
               \/ go[Input].pc = "join" /\ go[Input].on = g
               \/ go[Life].pc = "join" /\ go[Life].on = g

\* One that was started after the last stop has nothing to do any more.
QuietEnd == \A g \in Loops :
                (go[Life].pc \in {"join", "down"} /\ procRunning /\ g = Len(go)) => ~Working(g)

LoopInv == /\ LastWorks /\ NoneLeft /\ LifeLast /\ CreateAlone /\ NotYet
           /\ Covered /\ QuietEnd

\* While baseCtx lives a goroutine that is left is the latest, so it is covered.
LEMMA LeftIsCovered ==
  ASSUME TypeInv, LoopInv, ~baseDone, NEW g \in Loops, go[g].pc # "exited"
  PROVE  \/ procRunning /\ g = Len(go)
         \/ go[Input].pc = "join" /\ go[Input].on = g
<1>1. Len(go) \in Nat
  BY TypeInvGo
<1>2. g = Len(go)
  <2>1. g \in Int /\ g <= Len(go) /\ Len(go) \in Loops
    BY <1>1 DEF Loops
  <2> QED BY <1>1, <2>1 DEF LoopInv, LastWorks
<1> QED BY <1>2 DEF LoopInv, NoneLeft

\* Only goroutine g gets anywhere, to pc; the others may be woken.
Moves(g, pc) ==
    /\ Len(go') = Len(go) /\ go'[g].pc = pc
    /\ \A h \in Goroutines : h # g => go'[h].pc = go[h].pc /\ go'[h].on = go[h].on

\* Changing one goroutine's record moves no other.
LEMMA UpdateMoves ==
  ASSUME TypeInv, TypeInv', NEW g \in Goroutines, NEW r, Update(g, r)
  PROVE  Moves(g, r.pc)
<1>1. go \in Seq(Goroutine) /\ Len(go) \in Nat /\ go' \in Seq(Goroutine) /\ Len(go') \in Nat
  BY DEF TypeInv, TypeOK, TaskOK
<1>2. DOMAIN go = 1..Len(go) /\ DOMAIN go' = 1..Len(go')
  BY <1>1, LenProperties
<1>3. go' = [go EXCEPT ![g] = r]
  BY DEF Update
<1>4. DOMAIN go' = DOMAIN go
  BY <1>3
<1>5. Len(go') = Len(go)
  <2>1. Len(go) \in Nat /\ Len(go') \in Nat
    BY <1>1
  <2>2. 1..Len(go') = 1..Len(go)
    BY <1>2, <1>4
  <2> QED BY <2>1, <2>2
<1> QED BY <1>2, <1>3, <1>5 DEF Moves, Goroutines

\* One goroutine moves on to pc and keeps its frame: the case of Moves that
\* most actions are.
LEMMA GotoMoves ==
  ASSUME TypeInv, TypeInv', NEW g \in Goroutines, NEW pc, Goto(g, pc)
  PROVE  Moves(g, pc)
<1>1. go[g] \in Goroutine
  BY TypeInvGo
<1>2. [go[g] EXCEPT !.pc = pc].pc = pc
  BY <1>1 DEF Goroutine
<1> QED BY <1>2, UpdateMoves DEF Goto

\* Setting an event moves only the goroutine that sets it.
LEMMA SetEventMoves ==
  ASSUME TypeInv, TypeInv', NEW g \in Goroutines, NEW e, NEW pc, SetEvent(g, e, pc)
  PROVE  Moves(g, pc)
<1>1. Len(go) \in Nat /\ go' \in Seq(Goroutine) /\ Len(go') \in Nat
  BY DEF TypeInv, TypeOK, TaskOK
<1>2. DOMAIN go' = 1..Len(go') /\ DOMAIN go' = 1..Len(go)
  BY <1>1, LenProperties DEF SetEvent, Goroutines
<1>3. Len(go') = Len(go)
  BY <1>1, <1>2
<1>4. \A h \in Goroutines : go[h] \in Goroutine
  BY TypeInvGo
<1> QED BY <1>3, <1>4 DEF SetEvent, Moves, Goroutines, Goroutine

\* What a goroutine that drains a queue does: it was neither gone nor waiting
\* for another, and it gets to work only while its context lives.
LEMMA DrainMoves ==
  ASSUME TypeInv, TypeInv', NEW g \in Goroutines,
         Drain(g) \/ Top(g) \/ takeCurFrame(g) \/ giveBack(g)
  PROVE  /\ \E pc : Moves(g, pc)
         /\ go[g].pc \notin {"none", "exited", "join"} /\ go'[g].pc # "createFlush"
         /\ Working(g)' => Working(g) \/ ~baseDone
         /\ UNCHANGED <<procRunning, baseDone>>
<1> USE DEF Working, Drain, taskVars
<1>1. go[g] \in Goroutine
  BY TypeInvGo
<1>2. CASE Top(g) \/ GoIdle(g) \/ Wake(g) \/ takeCurFrame(g) \/ giveBack(g) \/ Select(g)
           \/ ClearEvent(g) \/ Unblock(g) \/ PauseClear(g) \/ BroadcastResetGate(g)
           \/ Flush(g) \/ Finish(g)
  <2>1. PICK pc : /\ Goto(g, pc) /\ pc # "createFlush"
                  /\ pc \in {"get", "exited"} \/ Working(g)
    BY <1>2 DEF Top, GoIdle, Wake, takeCurFrame, giveBack, Select, ClearEvent, Unblock,
                PauseClear, BroadcastResetGate, Flush, Finish
  <2>2. Moves(g, pc)
    BY <2>1, GotoMoves
  <2>3. go[g].pc \notin {"none", "exited", "join"} /\ UNCHANGED <<procRunning, baseDone>>
    BY <1>2 DEF Top, GoIdle, Wake, takeCurFrame, giveBack, Select, ClearEvent, Unblock,
                PauseClear, BroadcastResetGate, Flush, Finish
  <2> QED BY <2>1, <2>2, <2>3 DEF Moves
<1>3. CASE GetCheck(g)
  <2> DEFINE r == [go[g] EXCEPT !.pc = IF Stopped(g) THEN "exited" ELSE "pull",
                                !.frame = NoFrame, !.on = 0, !.woken = FALSE]
  <2>1. r.pc = IF Stopped(g) THEN "exited" ELSE "pull"
    BY <1>1 DEF Goroutine
  <2>2. Moves(g, r.pc)
    BY <1>3, UpdateMoves DEF GetCheck
  <2> QED BY <1>3, <2>1, <2>2 DEF GetCheck, Moves, Stopped
<1>4. CASE Pull(g)
  <2> DEFINE r == [go[g] EXCEPT !.pc = IF g = Input THEN "gate" ELSE "take",
                                !.frame = head(QueueOf(g))]
  <2>1. r.pc = IF g = Input THEN "gate" ELSE "take"
    BY <1>1 DEF Goroutine
  <2>2. Moves(g, r.pc)
    BY <1>4, UpdateMoves DEF Pull
  <2> QED BY <1>4, <2>1, <2>2 DEF Pull, Moves
<1>5. CASE Gate(g)
  <2> DEFINE r == [go[g] EXCEPT !.pc = "wait", !.on = GateEvent(g)]
  <2>1. r.pc = "wait"
    BY <1>1 DEF Goroutine
  <2>2. Moves(g, "wait") \/ Moves(g, "handle")
    BY <1>5, <2>1, UpdateMoves, GotoMoves DEF Gate
  <2> QED BY <1>5, <2>2 DEF Gate, Moves
<1>6. CASE WaitEvent(g)
  <2> DEFINE r == [go[g] EXCEPT !.pc = IF events[go[g].on] THEN "clear" ELSE "select",
                                !.woken = FALSE]
  <2>1. r.pc \in {"clear", "select"}
    BY <1>1 DEF Goroutine
  <2>2. Moves(g, r.pc)
    BY <1>6, UpdateMoves DEF WaitEvent
  <2> QED BY <1>6, <2>1, <2>2 DEF WaitEvent, Moves
<1>7. CASE Begin(g)
  <2>1. Moves(g, FirstPc(go[g].frame))
    BY <1>7, GotoMoves DEF Begin
  <2>2. FirstPc(go[g].frame) # "createFlush"
    BY DEF FirstPc
  <2> QED BY <1>7, <2>1, <2>2 DEF Begin, Begins, Moves
<1>8. CASE BeginPause(g)
  <2> DEFINE r == [go[g] EXCEPT !.pc = "pauseClear", !.on = processEvent]
  <2>1. r.pc = "pauseClear"
    BY <1>1 DEF Goroutine
  <2>2. Moves(g, r.pc)
    BY <1>8, UpdateMoves DEF BeginPause
  <2> QED BY <1>8, <2>1, <2>2 DEF BeginPause, Begins, Moves
<1>9. CASE applyPendingResume(g)
  <2>1. Loop(g) \in {"get", "top"}
    BY DEF Loop
  <2>2. PICK pc \in {"resumeGet", Loop(g)} : Moves(g, pc)
    BY <1>9, GotoMoves DEF applyPendingResume
  <2> QED BY <1>9, <2>1, <2>2 DEF applyPendingResume, Moves
<1>10. AfterResume(g) # "createFlush"
  BY DEF AfterResume, Loop
<1>11. CASE ResumeGet(g)
  <2> DEFINE r == [go[g] EXCEPT !.on = processEvent,
                                !.pc = IF processEvent = 0 THEN AfterResume(g)
                                       ELSE "resumeSet"]
  <2>1. r.pc \in {AfterResume(g), "resumeSet"}
    BY <1>1 DEF Goroutine
  <2>2. Moves(g, r.pc)
    BY <1>11, UpdateMoves DEF ResumeGet
  <2> QED BY <1>10, <1>11, <2>1, <2>2 DEF ResumeGet, Moves
<1>12. CASE ResumeSet(g)
  <2>1. Moves(g, AfterResume(g))
    BY <1>12, SetEventMoves DEF ResumeSet
  <2> QED BY <1>10, <1>12, <2>1 DEF ResumeSet, Moves
<1> QED BY <1>2, <1>3, <1>4, <1>5, <1>6, <1>7, <1>8, <1>9, <1>11, <1>12

\* A step in which one goroutine moves on, without starting or stopping one.
LEMMA MoveInv ==
  ASSUME TypeInv, LoopInv, NEW g \in Goroutines, NEW pc, Moves(g, pc),
         UNCHANGED <<procRunning, baseDone>>,
         g \in Loops => /\ go[g].pc # "exited"
                        /\ Working(g)' => Working(g) \/ ~baseDone,
         g = Input => /\ go[g].pc \notin {"none", "join"}
                      /\ pc = "createFlush" => ~procRunning,
         g = Life => /\ pc # "new" /\ pc # "join"
                     /\ pc \in {"waitInput", "stopProc", "down"} => baseDone
                     /\ pc = "down" => ~procRunning \/ go[Life].pc = "join"
                     /\ go[Life].pc = "join" => go[go[Life].on].pc = "exited"
  PROVE  LoopInv'
<1>1. Len(go) \in Nat /\ Life \in Goroutines /\ Input \in Goroutines /\ Loops \subseteq Goroutines
  BY TypeInvGo
<1>2. Loops' = Loops
  BY DEF Moves, Loops
<1>3. LastWorks'
  <2> SUFFICES ASSUME NEW a \in Loops, NEW b \in Loops, a < b, go'[a].pc # "exited"
               PROVE  baseDone' /\ ~Working(b)'
    BY <1>2 DEF LastWorks
  <2>1. go[a].pc # "exited"
    BY <1>1 DEF Moves
  <2>2. baseDone /\ ~Working(b)
    BY <2>1 DEF LoopInv, LastWorks
  <2> QED BY <1>1, <2>2 DEF Moves, Working
<1>4. NoneLeft'
  <2> SUFFICES ASSUME ~procRunning, ~baseDone
               PROVE  \/ \A h \in Loops : go'[h].pc = "exited"
                      \/ go'[Input].pc = "join" /\ go'[Input].on = Len(go)
    BY <1>2 DEF NoneLeft, Moves
  <2>1. CASE \A h \in Loops : go[h].pc = "exited"
    BY <1>1, <2>1 DEF Moves
  <2>2. CASE go[Input].pc = "join" /\ go[Input].on = Len(go)
    BY <1>1, <2>2 DEF Moves
  <2> QED BY <2>1, <2>2 DEF LoopInv, NoneLeft
<1>5. LifeLast'
  BY <1>1 DEF LoopInv, LifeLast, Moves
<1>6. CreateAlone'
  BY <1>1 DEF LoopInv, CreateAlone, Moves
<1>7. NotYet'
  BY <1>1 DEF LoopInv, NotYet, Moves
<1>8. Input \notin Loops /\ Life \notin Loops /\ Life # Input
  BY DEF Loops, Input, Life
<1>9. Covered'
  <2> SUFFICES ASSUME NEW h \in Loops, Working(h)'
               PROVE  \/ procRunning /\ h = Len(go)
                      \/ go'[Input].pc = "join" /\ go'[Input].on = h
                      \/ go'[Life].pc = "join" /\ go'[Life].on = h
    BY <1>2 DEF Covered, Moves
  <2>1. \/ procRunning /\ h = Len(go)
        \/ go[Input].pc = "join" /\ go[Input].on = h
        \/ go[Life].pc = "join" /\ go[Life].on = h
    <3>1. CASE Working(h)
      BY <3>1 DEF LoopInv, Covered
    <3>2. CASE ~Working(h)
      <4>1. h = g
        BY <1>1, <3>2 DEF Moves, Working
      <4> QED BY <3>2, <4>1, LeftIsCovered
    <3> QED BY <3>1, <3>2
  <2>2. ASSUME g = Life, go[Life].pc = "join", go[Life].on = h PROVE FALSE
    BY <1>1, <1>8, <2>2 DEF Moves, Working
  <2> QED BY <1>1, <1>8, <2>1, <2>2 DEF Moves
<1>10. QuietEnd'
  <2> SUFFICES ASSUME NEW h \in Loops, go'[Life].pc \in {"join", "down"}, procRunning, h = Len(go)
               PROVE  ~Working(h)'
    BY <1>2 DEF QuietEnd, Moves
  <2>1. go[Life].pc \in {"join", "down"}
    BY <1>1 DEF Moves
  <2>2. ~Working(h) /\ baseDone
    BY <2>1 DEF LoopInv, QuietEnd, LifeLast
  <2> QED BY <1>1, <2>2 DEF Moves, Working
<1> QED BY <1>3, <1>4, <1>5, <1>6, <1>7, <1>9, <1>10 DEF LoopInv

\* Two goroutines change at once, neither of them a process goroutine, and the
\* input goroutine does not leave a join.
LEMMA PairInv ==
  ASSUME TypeInv, TypeInv', LoopInv, NEW new, go' = new, DOMAIN new = DOMAIN go,
         \A h \in Loops : new[h].pc = go[h].pc,
         UNCHANGED <<procRunning, baseDone>>,
         go[Input].pc # "join", new[Input].pc # "createFlush",
         \/ new[Life].pc \notin {"new", "waitInput", "stopProc", "join", "down"} /\ go[Life].pc # "join"
         \/ new[Life] = go[Life] /\ go[Life].pc # "new"
  PROVE  LoopInv'
<1>1. /\ DOMAIN go = 1..Len(go) /\ DOMAIN go' = 1..Len(go')
      /\ Len(go) \in Nat /\ Len(go') \in Nat
  BY LenProperties DEF TypeInv, TypeOK, TaskOK
<1>2. Len(go') = Len(go)
  <2>1. Len(go) \in Nat /\ Len(go') \in Nat /\ 1..Len(go') = 1..Len(go)
    BY <1>1
  <2> QED BY <2>1
<1>3. Loops' = Loops
  BY <1>2 DEF Loops
<1>4. LastWorks'
  BY <1>3 DEF LoopInv, LastWorks, Working
<1>5. NoneLeft'
  BY <1>2, <1>3 DEF LoopInv, NoneLeft
<1>6. LifeLast' /\ CreateAlone' /\ NotYet'
  BY DEF LoopInv, LifeLast, CreateAlone, NotYet
<1>7. \A h \in Loops : Working(h)' => Working(h)
  BY DEF Working
<1>8. Covered'
  BY <1>2, <1>3, <1>7 DEF LoopInv, Covered
<1>9. QuietEnd'
  BY <1>2, <1>3, <1>7 DEF LoopInv, QuietEnd
<1> QED BY <1>4, <1>5, <1>6, <1>8, <1>9 DEF LoopInv

\* The input goroutine has seen the process goroutine exit: none is left.
LEMMA JoinInv ==
  ASSUME TypeInv, TypeInv', LoopInv, Join(Input)
  PROVE  LoopInv'
<1>1. Len(go) \in Nat /\ Input \in Goroutines /\ Life \in Goroutines /\ Loops \subseteq Goroutines
  BY TypeInvGo
<1>2. Moves(Input, AfterJoin(Input)) /\ UNCHANGED <<procRunning, baseDone>>
  BY <1>1, GotoMoves DEF Join, taskVars
<1>3. AfterJoin(Input) \in {"create", "respawn", "finish"}
  BY DEF AfterJoin, Input, Life
<1>4. Loops' = Loops /\ \A h \in Loops : go'[h].pc = go[h].pc
  BY <1>1, <1>2 DEF Moves, Loops, Input
<1>5. LastWorks'
  BY <1>2, <1>4 DEF LoopInv, LastWorks, Working
<1>6. NoneLeft'
  <2> SUFFICES ASSUME ~procRunning, ~baseDone PROVE \A h \in Loops : go[h].pc = "exited"
    BY <1>2, <1>4 DEF NoneLeft
  <2>1. CASE \A h \in Loops : go[h].pc = "exited"
    BY <2>1
  <2>2. CASE go[Input].on = Len(go)
    <3>1. go[Len(go)].pc = "exited"
      BY <2>2 DEF Join
    <3> SUFFICES ASSUME NEW h \in Loops, h # Len(go) PROVE go[h].pc = "exited"
      BY <3>1
    <3>2. Len(go) \in Loops /\ h < Len(go)
      BY <1>1 DEF Loops
    <3> QED BY <3>2 DEF LoopInv, LastWorks
  <2> QED BY <2>1, <2>2 DEF LoopInv, NoneLeft
<1>7. LifeLast'
  BY <1>1, <1>2 DEF LoopInv, LifeLast, Moves, Input, Life
<1>8. CreateAlone'
  BY <1>2, <1>3 DEF CreateAlone, Moves
<1>9. NotYet'
  BY <1>1, <1>2 DEF LoopInv, NotYet, Moves, Join, Life, Input
<1>10. /\ Len(go') = Len(go) /\ \A h \in Loops : Working(h)' => Working(h)
       /\ go'[Life].pc = go[Life].pc /\ go'[Life].on = go[Life].on
       /\ go[go[Input].on].pc = "exited"
  BY <1>1, <1>2, <1>4 DEF Moves, Working, Join, Life, Input
<1>11. Covered'
  BY <1>2, <1>4, <1>10 DEF LoopInv, Covered, Working
<1>12. QuietEnd'
  BY <1>2, <1>4, <1>10 DEF LoopInv, QuietEnd
<1> QED BY <1>5, <1>6, <1>7, <1>8, <1>9, <1>11, <1>12 DEF LoopInv

\* stopProcessTask: the input goroutine goes on to join what it stopped; the
\* pipeline's goroutine may only do so once baseCtx is canceled.
LEMMA StopInv ==
  ASSUME TypeInv, TypeInv', LoopInv, NEW g \in {Life, Input}, NEW pc,
         StopProcessTask(g, pc), baseDone' = baseDone, pc # "createFlush",
         g = Life => baseDone /\ pc = "down" /\ go[Life].pc # "join",
         g = Input => go[Input].pc \notin {"none", "join"}
  PROVE  LoopInv'
<1>1. /\ Len(go) \in Nat /\ Input \in Goroutines /\ Life \in Goroutines /\ Loops \subseteq Goroutines
      /\ \A h \in Goroutines : go[h] \in Goroutine
  BY TypeInvGo
<1>2. CASE ~procRunning
  <2>1. Moves(g, pc) /\ UNCHANGED <<procRunning, baseDone>>
    BY <1>1, <1>2, GotoMoves DEF StopProcessTask
  <2>2. g \in Goroutines /\ g \notin Loops
    BY <1>1 DEF Loops, Life, Input
  <2>3. Life # Input
    BY DEF Life, Input
  <2> QED BY <1>2, <2>1, <2>2, <2>3, MoveInv
<1>3. CASE procRunning
  <2>1. go' = [go EXCEPT ![Len(go)].stop = TRUE, ![g].pc = "join", ![g].on = Len(go)]
        /\ ~procRunning'
    BY <1>3 DEF StopProcessTask
  <2>2. DOMAIN go = 1..Len(go) /\ DOMAIN go' = 1..Len(go') /\ Len(go') \in Nat
    BY LenProperties DEF TypeInv, TypeOK, TaskOK
  <2>3. DOMAIN go' = DOMAIN go
    BY <2>1
  <2>4. Len(go') = Len(go)
    <3>1. Len(go) \in Nat /\ Len(go') \in Nat /\ 1..Len(go') = 1..Len(go)
      BY <1>1, <2>2, <2>3
    <3> QED BY <3>1
  <2>5. /\ \A h \in Goroutines : go'[h].pc = IF h = g THEN "join" ELSE go[h].pc
        /\ go'[g].on = Len(go)
    BY <1>1, <2>1, <2>2 DEF Goroutine, Goroutines
  <2>6. Loops' = Loops /\ \A h \in Loops : go'[h].pc = go[h].pc
    BY <1>1, <2>4, <2>5 DEF Loops, Life, Input
  <2>7. LastWorks'
    BY <2>6 DEF LoopInv, LastWorks, Working
  <2>8. NoneLeft'
    BY <1>1, <2>4, <2>5 DEF NoneLeft
  <2>9. LifeLast'
    BY <1>1, <2>5 DEF LoopInv, LifeLast, Life, Input
  <2>10. CreateAlone'
    BY <2>1 DEF CreateAlone
  <2>11. NotYet'
    BY <1>1, <2>5 DEF LoopInv, NotYet, Life, Input
  <2>12. /\ \A h \in Loops : Working(h)' => Working(h)
         /\ \A h \in {Life, Input} : h # g => go'[h].pc = go[h].pc /\ go'[h].on = go[h].on
    <3>1. \A h \in Goroutines : h # g => go'[h].pc = go[h].pc /\ go'[h].on = go[h].on
      BY <1>1, <2>1, <2>2 DEF Goroutine, Goroutines
    <3> QED BY <1>1, <2>6, <3>1 DEF Working
  <2>13. Covered'
    <3> SUFFICES ASSUME NEW h \in Loops, Working(h)
                 PROVE  \/ go'[Input].pc = "join" /\ go'[Input].on = h
                        \/ go'[Life].pc = "join" /\ go'[Life].on = h
      BY <2>1, <2>6, <2>12 DEF Covered
    <3>1. \/ h = Len(go)
          \/ go[Input].pc = "join" /\ go[Input].on = h
          \/ go[Life].pc = "join" /\ go[Life].on = h
      BY DEF LoopInv, Covered
    <3>2. go'[g].pc = "join" /\ go'[g].on = Len(go)
      BY <1>1, <2>5
    <3>3. CASE g = Input
      BY <2>12, <3>1, <3>2, <3>3 DEF Life, Input
    <3>4. CASE g = Life
      BY <2>12, <3>1, <3>2, <3>4 DEF Life, Input
    <3> QED BY <3>3, <3>4
  <2>14. QuietEnd'
    BY <2>1 DEF QuietEnd
  <2> QED BY <2>7, <2>8, <2>9, <2>10, <2>11, <2>13, <2>14 DEF LoopInv
<1> QED BY <1>2, <1>3

\* spawnProcessLoop, where there is no process goroutine.
LEMMA SpawnInv ==
  ASSUME TypeInv, LoopInv, NEW pc \in Pcs \ HandPcs, Spawn(pc), baseDone' = baseDone,
         ~procRunning, go[Input].pc \notin {"none", "join"}, pc # "createFlush"
  PROVE  LoopInv'
<1>1. Len(go) \in Nat /\ Life \in Goroutines /\ Input \in Goroutines /\ Loops \subseteq Goroutines
  BY TypeInvGo
<1>2. /\ Len(go') = Len(go) + 1
      /\ \A h \in Goroutines : go'[h].pc = IF h = Input THEN pc ELSE go[h].pc
      /\ go'[Len(go) + 1].pc = "top"
  BY SpawnType
<1>3. /\ \A h \in Loops' : h \in Loops \/ h = Len(go) + 1
      /\ \A h \in Loops : go'[h].pc = go[h].pc
  BY <1>1, <1>2 DEF Loops, Input
<1>4. LastWorks'
  <2> SUFFICES ASSUME NEW a \in Loops', NEW b \in Loops', a < b, go'[a].pc # "exited"
               PROVE  baseDone /\ ~Working(b)'
    BY DEF LastWorks
  <2>1. a \in Loops /\ go[a].pc # "exited"
    BY <1>1, <1>2, <1>3 DEF Loops
  <2>2. CASE b \in Loops
    BY <1>3, <2>1, <2>2 DEF LoopInv, LastWorks, Working
  <2>3. CASE b = Len(go) + 1
    <3>1. ~Working(b)'
      BY <1>2, <2>3 DEF Working
    <3>2. baseDone
      BY <2>1 DEF LoopInv, NoneLeft
    <3> QED BY <3>1, <3>2
  <2> QED BY <1>3, <2>2, <2>3
<1>5. NoneLeft'
  BY DEF NoneLeft, Spawn
<1>6. LifeLast'
  BY <1>1, <1>2 DEF LoopInv, LifeLast, Life, Input
<1>7. CreateAlone'
  BY <1>1, <1>2 DEF CreateAlone
<1>8. NotYet'
  BY <1>1, <1>2 DEF LoopInv, NotYet, Life, Input
<1>9. (\A h : h = Len(go) + 1 => ~Working(h)') /\ \A h \in Loops : Working(h)' => Working(h)
  <2>1. go'[Len(go) + 1].pc = "top"
    BY <1>2
  <2>2. go'[Len(go) + 1].pc \in {"top", "get", "exited"}
    BY <2>1
  <2> QED BY <1>3, <2>2 DEF Working
<1>10. go'[Life] = go[Life]
  BY <1>1, SpawnType DEF Life, Input
<1>11. Covered'
  <2> SUFFICES ASSUME NEW h \in Loops', Working(h)'
               PROVE  go'[Life].pc = "join" /\ go'[Life].on = h
    BY DEF Covered, Loops
  <2>1. h \in Loops /\ Working(h)
    BY <1>3, <1>9
  <2> QED BY <1>10, <2>1 DEF LoopInv, Covered
<1>12. QuietEnd'
  <2> SUFFICES ASSUME NEW h \in Loops', h = Len(go') PROVE ~Working(h)'
    BY DEF QuietEnd
  <2> QED BY <1>2, <1>9
<1> QED BY <1>4, <1>5, <1>6, <1>7, <1>8, <1>11, <1>12 DEF LoopInv

\* No step, and no stuttering, breaks LoopInv.
LEMMA LoopNext == TypeInv /\ TypeInv' /\ LoopInv /\ [Next]_vars => LoopInv'
<1> SUFFICES ASSUME TypeInv, TypeInv', LoopInv, [Next]_vars PROVE LoopInv'
  OBVIOUS
<1>1. /\ {Life, Watch, Input} \subseteq Goroutines /\ Loops \subseteq Goroutines
      /\ Len(go) \in Nat /\ \A h \in Goroutines : go[h] \in Goroutine
  BY TypeInvGo
<1>2. Life \notin Loops /\ Watch \notin Loops /\ Input \notin Loops /\ Life # Input /\ Watch # Input /\ Life # Watch
  BY DEF Life, Watch, Input, Loops
<1>3. ASSUME UNCHANGED <<go, procRunning, baseDone>> PROVE LoopInv'
  BY <1>3 DEF LoopInv, LastWorks, NoneLeft, LifeLast, CreateAlone, NotYet, Covered, QuietEnd, Loops, Working
<1>4. CASE \E f \in Frame : Send(f)
  BY <1>3, <1>4 DEF Send, QueueFrame, RefuseFrame, OpenOnStart, taskVars
<1>5. CASE ProcessStep
  <2>1. PICK g \in Loops : Drain(g) \/ Top(g) \/ takeCurFrame(g) \/ giveBack(g)
    BY <1>5 DEF ProcessStep, LoopStep
  <2>2. g \in Goroutines /\ g # Life /\ g # Input
    BY <1>1, <1>2
  <2>3. PICK pc : Moves(g, pc)
    BY <2>1, <2>2, DrainMoves
  <2> QED BY <2>1, <2>2, <2>3, DrainMoves, MoveInv
<1>6. ASSUME NEW g \in {Life, Watch},
             ResumeInput(g) \/ ResumeGet(g) \/ ResumeSet(g)
      PROVE  LoopInv'
  <2>0. go[g].pc # "join"
    BY <1>6 DEF ResumeInput, ResumeGet, ResumeSet
  <2>1. AfterResume(g) \notin {"new", "waitInput", "stopProc", "join", "down"}
    BY <1>2, <1>6 DEF AfterResume, Loop
  <2>2. CASE ResumeInput(g)
    <3>1. Moves(g, "resumeGet") /\ UNCHANGED <<procRunning, baseDone>>
      BY <1>1, <2>2, SetEventMoves DEF ResumeInput, taskVars
    <3> QED BY <1>1, <1>2, <2>0, <3>1, MoveInv
  <2>3. CASE ResumeGet(g)
    <3> DEFINE r == [go[g] EXCEPT !.on = processEvent,
                                  !.pc = IF processEvent = 0 THEN AfterResume(g)
                                         ELSE "resumeSet"]
    <3>1. r.pc \in {AfterResume(g), "resumeSet"}
      BY <1>1 DEF Goroutine
    <3>2. Moves(g, r.pc) /\ UNCHANGED <<procRunning, baseDone>>
      BY <1>1, <2>3, UpdateMoves DEF ResumeGet, taskVars
    <3> HIDE DEF r
    <3> QED BY <1>1, <1>2, <2>0, <2>1, <3>1, <3>2, MoveInv
  <2>4. CASE ResumeSet(g)
    <3>1. Moves(g, AfterResume(g)) /\ UNCHANGED <<procRunning, baseDone>>
      BY <1>1, <2>4, SetEventMoves DEF ResumeSet, taskVars
    <3> QED BY <1>1, <1>2, <2>0, <2>1, <3>1, MoveInv
  <2> QED BY <1>6, <2>2, <2>3, <2>4
<1>7. CASE WatchStep
  <2>1. CASE WatcherFires
    <3>1. Moves(Watch, "resumeInput") /\ UNCHANGED <<procRunning, baseDone>>
      BY <1>1, <2>1, GotoMoves DEF WatcherFires, taskVars
    <3> QED BY <1>1, <1>2, <3>1, MoveInv
  <2> QED BY <1>6, <1>7, <2>1 DEF WatchStep
<1>8. DOMAIN go = Goroutines
  BY LenProperties DEF TypeInv, TypeOK, TaskOK, Goroutines
<1>9. CASE Setup \/ SetupFinished \/ Cleanup \/ LifeStep
  <2>1. CASE Setup
    <3> DEFINE new == [go EXCEPT ![Life].pc = "settingUp", ![Input].pc = "startGate"]
    <3>1. /\ go' = new /\ DOMAIN new = DOMAIN go
          /\ \A h \in Loops : new[h].pc = go[h].pc
          /\ new[Input].pc = "startGate" /\ new[Life].pc = "settingUp"
      BY <1>1, <1>2, <1>8, <2>1 DEF Setup, Goroutine
    <3> HIDE DEF new
    <3>2. go[Input].pc = "none" /\ go[Life].pc = "new" /\ UNCHANGED <<procRunning, baseDone>>
      BY <2>1 DEF Setup, LoopInv, NotYet, taskVars
    <3> QED BY <3>1, <3>2, PairInv
  <2>2. CASE SetupFinished \/ OpenOnSetup \/ JoinWatcher
    <3>1. PICK pc \in {"finishing", "up", "resumeInput"} :
              Moves(Life, pc) /\ UNCHANGED <<procRunning, baseDone>>
      BY <1>1, <2>2, GotoMoves DEF SetupFinished, OpenOnSetup, JoinWatcher, taskVars
    <3>2. go[Life].pc # "join"
      BY <2>2 DEF SetupFinished, OpenOnSetup, JoinWatcher
    <3> QED BY <1>1, <1>2, <3>1, <3>2, MoveInv
  <2>3. CASE Cleanup
    <3>0. go[Life].pc # "join"
      BY <2>3 DEF Cleanup
    <3>1. CASE go[Watch].pc = "none"
      <4>1. Moves(Life, "cancelInput") /\ UNCHANGED <<procRunning, baseDone>>
        BY <1>1, <2>3, <3>1, GotoMoves DEF Cleanup, taskVars
      <4> QED BY <1>1, <1>2, <3>0, <4>1, MoveInv
    <3>2. CASE go[Watch].pc # "none"
      <4> DEFINE lifting == [go EXCEPT ![Life].pc = "lift"]
                 new == [lifting EXCEPT ![Watch].stop = TRUE]
      <4>1. go' = new /\ UNCHANGED <<procRunning, baseDone>>
        BY <2>3, <3>2 DEF Cleanup, taskVars
      <4>2. /\ DOMAIN lifting = DOMAIN go /\ lifting[Life].pc = "lift"
            /\ \A h \in Goroutines : h # Life => lifting[h] = go[h]
        BY <1>1, <1>8 DEF Goroutine
      <4>3. /\ DOMAIN new = DOMAIN lifting
            /\ \A h \in Goroutines : h # Watch => new[h] = lifting[h]
            /\ new[Watch].pc = lifting[Watch].pc /\ new[Watch].on = lifting[Watch].on
        <5> HIDE DEF lifting
        <5>1. lifting[Watch] \in Goroutine
          BY <1>1, <1>2, <4>2
        <5> QED BY <1>1, <1>8, <4>2, <5>1 DEF Goroutine
      <4> HIDE DEF lifting, new
      <4>4. Len(new) = Len(go)
        <5>1. /\ DOMAIN go = 1..Len(go) /\ DOMAIN go' = 1..Len(go')
              /\ Len(go) \in Nat /\ Len(go') \in Nat
          BY LenProperties DEF TypeInv, TypeOK, TaskOK
        <5>2. Len(go) \in Nat /\ Len(go') \in Nat /\ 1..Len(go') = 1..Len(go)
          BY <4>1, <4>2, <4>3, <5>1
        <5> QED BY <4>1, <5>2
      <4>5. Moves(Life, "lift")
        BY <1>1, <1>2, <4>1, <4>2, <4>3, <4>4 DEF Moves
      <4> QED BY <1>1, <1>2, <3>0, <4>1, <4>5, MoveInv
    <3> QED BY <3>1, <3>2
  <2>4. CASE InputWaited
    <3>1. Moves(Life, "stopProc") /\ UNCHANGED <<procRunning, baseDone>>
      BY <1>1, <2>4, GotoMoves DEF InputWaited, taskVars
    <3>2. baseDone /\ go[Life].pc # "join"
      BY <2>4 DEF InputWaited, LoopInv, LifeLast
    <3> QED BY <1>1, <1>2, <3>1, <3>2, MoveInv
  <2>7. CASE Join(Life)
    <3>1. AfterJoin(Life) = "down"
      BY DEF AfterJoin
    <3>2. Moves(Life, "down") /\ UNCHANGED <<procRunning, baseDone>>
      BY <1>1, <2>7, <3>1, GotoMoves DEF Join, taskVars
    <3>3. baseDone /\ go[Life].pc = "join" /\ go[go[Life].on].pc = "exited"
      BY <2>7 DEF Join, LoopInv, LifeLast
    <3> QED BY <1>1, <1>2, <3>2, <3>3, MoveInv
  <2>5. CASE StopForGood
    <3>1. baseDone /\ baseDone' = baseDone /\ go[Life].pc # "join"
      BY <2>5 DEF StopForGood, LoopInv, LifeLast
    <3> QED BY <1>2, <2>5, <3>1, StopInv DEF StopForGood
  <2>6. CASE CancelInputTask
    <3>1. Moves(Life, "waitInput") /\ procRunning' = procRunning /\ baseDone'
      BY <1>1, <2>6, GotoMoves DEF CancelInputTask
    <3>2. Loops' = Loops /\ \A h \in Loops : go'[h].pc = go[h].pc
      BY <1>1, <1>2, <3>1 DEF Moves, Loops
    <3>3. LastWorks'
      BY <3>1, <3>2 DEF LoopInv, LastWorks, Working
    <3>4. go[Life].pc = "cancelInput" /\ Len(go') = Len(go)
          /\ go'[Input].pc = go[Input].pc /\ go'[Input].on = go[Input].on /\ go'[Life].pc = "waitInput"
      BY <1>1, <1>2, <2>6, <3>1 DEF CancelInputTask, Moves
    <3>5. Covered' /\ QuietEnd'
      BY <3>1, <3>2, <3>4 DEF LoopInv, Covered, QuietEnd, Working
    <3> QED BY <3>1, <3>3, <3>4, <3>5 DEF LoopInv, NoneLeft, LifeLast, CreateAlone, NotYet
  <2> QED BY <1>6, <1>9, <2>1, <2>2, <2>3, <2>4, <2>5, <2>6, <2>7 DEF LifeStep
<1>10. CASE InputStep
  <2> USE DEF Pcs, HandPcs, HandlerPcs
  <2>1. CASE Drain(Input)
    <3>1. PICK pc : Moves(Input, pc)
      BY <1>1, <2>1, DrainMoves
    <3>2. go'[Input].pc = pc
      BY <3>1 DEF Moves
    <3> QED BY <1>1, <1>2, <2>1, <3>1, <3>2, DrainMoves, MoveInv
  <2>2. CASE StartGate \/ HandOn \/ HoldSystem
    <3>1. PICK pc \in {"get", "exited", "holdFrames"} : Moves(Input, pc)
      BY <1>1, <2>2, GotoMoves DEF StartGate, HandOn, HoldSystem
    <3>2. UNCHANGED <<procRunning, baseDone>> /\ go[Input].pc \notin {"none", "join"}
      BY <2>2 DEF StartGate, HandOn, HoldSystem, taskVars
    <3> QED BY <1>1, <1>2, <3>1, <3>2, MoveInv
  <2>3. CASE StartInterruption
    <3>1. baseDone' = baseDone /\ go[Input].pc \notin {"none", "join"}
      BY <2>3 DEF StartInterruption
    <3>2. CASE StopProcessTask(Input, "create")
      BY <1>2, <3>1, <3>2, StopInv
    <3>3. CASE Goto(Input, "flush") /\ UNCHANGED procRunning
      BY <1>1, <1>2, <3>1, <3>3, GotoMoves, MoveInv
    <3> QED BY <2>3, <3>2, <3>3 DEF StartInterruption
  <2>4. CASE Create
    <3>1. UNCHANGED <<procRunning, baseDone>> /\ go[Input].pc \notin {"none", "join"}
      BY <2>4 DEF Create, taskVars
    <3>2. PICK pc \in {"finish", "createFlush"} : Moves(Input, pc) /\ (pc = "createFlush" => ~procRunning)
      BY <1>1, <2>4, GotoMoves DEF Create
    <3> QED BY <1>1, <1>2, <3>1, <3>2, MoveInv
  <2>5. CASE CreateFlush
    <3>1. PICK pc \in {"hold", "finish"} : Spawn(pc)
      BY <2>5 DEF CreateFlush
    <3>2. /\ ~procRunning /\ baseDone' = baseDone
          /\ go[Input].pc \notin {"none", "join"} /\ pc \in Pcs \ HandPcs
      BY <2>5 DEF CreateFlush, LoopInv, CreateAlone
    <3> QED BY <3>1, <3>2, SpawnInv
  <2>6. CASE CancelProcessTask
    BY <1>2, <2>6, StopInv DEF CancelProcessTask
  <2>7. CASE CancelFrameInProgress
    <3>1. baseDone' = baseDone /\ go[Input].pc \notin {"none", "join"}
      BY <2>7 DEF CancelFrameInProgress
    <3>2. CASE StopProcessTask(Input, "finish")
      BY <1>2, <3>1, <3>2, StopInv
    <3>3. CASE Goto(Input, "finish") /\ UNCHANGED procRunning
      BY <1>1, <1>2, <3>1, <3>3, GotoMoves, MoveInv
    <3> QED BY <2>7, <3>2, <3>3 DEF CancelFrameInProgress
  <2>8. CASE Respawn
    <3>1. baseDone' = baseDone /\ go[Input].pc \notin {"none", "join"}
      BY <2>8 DEF Respawn
    <3>2. CASE procRunning
      BY <1>1, <1>2, <2>8, <3>1, <3>2, GotoMoves, MoveInv DEF Respawn
    <3>3. CASE ~procRunning
      BY <2>8, <3>1, <3>3, SpawnInv DEF Respawn
    <3> QED BY <3>2, <3>3
  <2>9. CASE HoldFrames
    <3> DEFINE r == [go[Input] EXCEPT !.pc = "pauseClear", !.on = processEvent]
    <3>1. r.pc = "pauseClear"
      BY <1>1 DEF Goroutine
    <3>2. Moves(Input, "pauseClear")
      BY <1>1, <2>9, <3>1, UpdateMoves DEF HoldFrames
    <3>3. UNCHANGED <<procRunning, baseDone>> /\ go[Input].pc \notin {"none", "join"}
      BY <2>9 DEF HoldFrames, taskVars
    <3> QED BY <1>1, <1>2, <3>2, <3>3, MoveInv
  <2>10. CASE StartWatcher
    <3> DEFINE new == [go EXCEPT ![Input].pc = "finish", ![Watch].pc = "watching"]
    <3>1. /\ go' = new /\ DOMAIN new = DOMAIN go
          /\ \A h \in Loops : new[h].pc = go[h].pc
          /\ new[Input].pc = "finish" /\ new[Life] = go[Life]
      BY <1>1, <1>2, <1>8, <2>10 DEF StartWatcher, Goroutine
    <3> HIDE DEF new
    <3>2. /\ go[Input].pc = "watch" /\ go[Life].pc # "new"
          /\ UNCHANGED <<procRunning, baseDone>>
      BY <2>10 DEF StartWatcher, taskVars, LoopInv, NotYet
    <3> QED BY <3>1, <3>2, PairInv
  <2> QED BY <1>10, <2>1, <2>2, <2>3, <2>4, <2>5, <2>6, <2>7, <2>8, <2>9, <2>10, JoinInv DEF InputStep
<1>11. CASE UNCHANGED vars
  BY <1>3, <1>11 DEF vars, taskVars
<1> QED BY <1>4, <1>5, <1>7, <1>9, <1>10, <1>11 DEF Next

\* A new processor has no process goroutine.
LEMMA LoopInit == Init => LoopInv
  BY DEF Init, goroutine, LoopInv, LastWorks, NoneLeft, LifeLast, CreateAlone, NotYet,
         Covered, QuietEnd, Loops, Life, Input

\* Of two process goroutines the older one has exited or the younger is idle.
LEMMA OneAtWork == LoopInv => OneHandler
<1> SUFFICES ASSUME LoopInv, NEW g \in Loops, NEW h \in Loops, Working(g), Working(h)
             PROVE  g = h
  BY DEF OneHandler
<1>1. go[g].pc # "exited" /\ go[h].pc # "exited"
  BY DEF Working
<1>2. g \in Int /\ h \in Int
  BY DEF Loops
<1> QED BY <1>1, <1>2 DEF LoopInv, LastWorks

\* No two process goroutines ever take or handle frames at the same time, for
\* any frames and however often the processor is interrupted, withdrawn from,
\* canceled or torn down (stopProcessTask waits without a bound for this).
THEOREM OneHandlerHolds == Spec => []OneHandler
<1>1. Init => LoopInv
  BY LoopInit
<1> QED BY <1>1, OneAtWork, TypeInit, TypeNext, LoopNext, PTL DEF Spec

\* Once Cleanup has returned and the input goroutine has gone, nothing handles
\* a frame any more, for any frames and at whatever point Cleanup was called:
\* the last stop of either goroutine has been waited for.
THEOREM CleanupIsFinalHolds == Spec => []CleanupIsFinal
<1>1. Init => LoopInv
  BY LoopInit
<1>2. LoopInv => CleanupIsFinal
  <2> SUFFICES ASSUME LoopInv, go[Life].pc = "down", go[Input].pc \in {"none", "exited"},
                      NEW g \in Loops, Working(g)
               PROVE  FALSE
    BY DEF CleanupIsFinal
  <2>1. procRunning /\ g = Len(go)
    BY DEF LoopInv, Covered
  <2> QED BY <2>1 DEF LoopInv, QuietEnd
<1> QED BY <1>1, <1>2, TypeInit, TypeNext, LoopNext, PTL DEF Spec

-----------------------------------------------------------------------------
(***************************************************************************)
(* What a step can do to the frames.  Most steps leave every frame where   *)
(* it is: a goroutine walks on with the frame it holds (Walks, along       *)
(* Path), or the pipeline's goroutine or the watcher does something aside  *)
(* (Aside).  The proofs below take those together and look at the steps    *)
(* that carry a frame on one by one.                                       *)
(***************************************************************************)
\* Goroutine g moves on to pc; every goroutine keeps its frame and its context.
Walks(g, pc) ==
    /\ Moves(g, pc)
    /\ \A h \in Goroutines : go'[h].frame = go[h].frame
    /\ \A h \in Loops \cup {Input} : go'[h].stop = go[h].stop

\* The ways of a goroutine that drains a queue between two frames.
Path(g, p, q) ==
    \/ /\ p \in HandPcs \ {"giveBack"} /\ q \in HandPcs \ {"take"}
       /\ p = "take" => q = "giveBack" \/ ~Stopped(g)
    \/ p = "select" /\ q = "exited" /\ g = Input /\ Stopped(g)
    \/ p \in {"top", "pull", "idle"} /\ q \in {"get", "idle", "exited"}
    \/ /\ p \in {"pauseClear", "finish", "after", "resumeGet", "resumeSet"}
       /\ q \in {"watch", "finish", "after", "resumeGet", "resumeSet", "get", "top"}

\* Nothing that the walks leave alone has changed.
Still == UNCHANGED <<queueVars, startVars, baseDone, procRunning, histVars>>

Aside ==
    /\ Len(go') = Len(go)
    /\ \A h \in Loops \cup {Input} :
           go'[h].pc = go[h].pc /\ go'[h].frame = go[h].frame /\ go'[h].on = go[h].on
    /\ \A h \in Loops :
           (go[h].stop \/ (procRunning /\ ~procRunning' /\ h = Len(go))) => go'[h].stop
    /\ UNCHANGED <<queueVars, histVars>>
    /\ procRunning' => procRunning
    /\ baseDone => baseDone'
    /\ go'[Input].stop = go[Input].stop \/ (procRunning /\ Len(go) = Input)

\* Changing one goroutine's record, its frame and its context apart.
LEMMA UpdateWalks ==
  ASSUME TypeInv, TypeInv', NEW g \in Goroutines, NEW r, Update(g, r),
         r.frame = go[g].frame, r.stop = go[g].stop
  PROVE  Walks(g, r.pc)
<1>1. DOMAIN go = Goroutines /\ Loops \cup {Input} \subseteq Goroutines
  BY LenProperties, TypeInvGo DEF TypeInv, TypeOK, TaskOK, Goroutines
<1>2. Moves(g, r.pc)
  BY UpdateMoves
<1>3. go' = [go EXCEPT ![g] = r]
  BY DEF Update
<1>4. \A h \in Goroutines : go'[h] = IF h = g THEN r ELSE go[h]
  BY <1>1, <1>3
<1> QED BY <1>1, <1>2, <1>4 DEF Walks

\* One goroutine moves on to pc.
LEMMA GotoWalks ==
  ASSUME TypeInv, TypeInv', NEW g \in Goroutines, NEW pc, Goto(g, pc)
  PROVE  Walks(g, pc)
<1> DEFINE r == [go[g] EXCEPT !.pc = pc]
<1>1. go[g] \in Goroutine
  BY TypeInvGo
<1>2. r.pc = pc /\ r.frame = go[g].frame /\ r.stop = go[g].stop
  BY <1>1 DEF Goroutine
<1>3. Update(g, r)
  BY DEF Goto
<1> HIDE DEF r
<1> QED BY <1>2, <1>3, UpdateWalks

\* Setting an event.
LEMMA SetEventWalks ==
  ASSUME TypeInv, TypeInv', NEW g \in Goroutines, NEW e, NEW pc, SetEvent(g, e, pc)
  PROVE  Walks(g, pc)
<1>1. Moves(g, pc) /\ Loops \cup {Input} \subseteq Goroutines /\ \A h \in Goroutines : go[h] \in Goroutine
  BY SetEventMoves, TypeInvGo
<1>2. \A h \in Goroutines : go'[h].frame = go[h].frame /\ go'[h].stop = go[h].stop
  BY <1>1 DEF SetEvent, Goroutine
<1> QED BY <1>1, <1>2 DEF Walks

\* What carries a frame from one place to another, or looks for one.
Carries(g) == \/ GetCheck(g) \/ Pull(g) \/ giveBack(g) \/ Begin(g) \/ BeginPause(g)
              \/ BroadcastResetGate(g) \/ Flush(g)

\* A goroutine that drains a queue walks on or carries a frame.
LEMMA DrainSteps ==
  ASSUME TypeInv, TypeInv', NEW g \in Goroutines, g # Life, g # Watch,
         Drain(g) \/ Top(g) \/ takeCurFrame(g) \/ giveBack(g)
  PROVE  \/ Carries(g)
         \/ Still /\ \E pc : Walks(g, pc) /\ Path(g, go[g].pc, pc)
<1>1. go[g] \in Goroutine
  BY TypeInvGo
<1>2. Loop(g) \in {"get", "top"} /\ AfterResume(g) \in {"get", "top"}
  BY DEF Loop, AfterResume
<1> USE DEF Still, Path, HandPcs, queueVars, startVars, taskVars, histVars
<1>3. CASE Top(g) \/ GoIdle(g) \/ Wake(g)
  <2>1. PICK pc \in {"get", "idle", "exited"} : Goto(g, pc)
    BY <1>3 DEF Top, GoIdle, Wake
  <2>2. go[g].pc \in {"top", "pull", "idle"} /\ Still
    BY <1>3 DEF Top, GoIdle, Wake
  <2> QED BY <2>1, <2>2, GotoWalks
<1>4. CASE takeCurFrame(g)
  <2>1. PICK pc \in {"giveBack", "gate"} : Goto(g, pc) /\ (pc = "giveBack" \/ ~Stopped(g))
    BY <1>4 DEF takeCurFrame
  <2>2. go[g].pc = "take" /\ Still
    BY <1>4 DEF takeCurFrame
  <2> QED BY <2>1, <2>2, GotoWalks
<1>5. CASE Gate(g)
  <2> DEFINE r == [go[g] EXCEPT !.pc = "wait", !.on = GateEvent(g)]
  <2>1. r.pc = "wait" /\ r.frame = go[g].frame /\ r.stop = go[g].stop
    BY <1>1 DEF Goroutine
  <2>2. go[g].pc = "gate" /\ Still /\ (Update(g, r) \/ Goto(g, "handle"))
    BY <1>5 DEF Gate
  <2> HIDE DEF r
  <2>3. Walks(g, "wait") \/ Walks(g, "handle")
    BY <2>1, <2>2, UpdateWalks, GotoWalks
  <2> QED BY <2>2, <2>3
<1>6. CASE WaitEvent(g)
  <2> DEFINE r == [go[g] EXCEPT !.pc = IF events[go[g].on] THEN "clear" ELSE "select",
                                !.woken = FALSE]
  <2>1. r.pc \in {"clear", "select"} /\ r.frame = go[g].frame /\ r.stop = go[g].stop
    BY <1>1 DEF Goroutine
  <2>2. go[g].pc = "wait" /\ Still /\ Update(g, r)
    BY <1>6 DEF WaitEvent
  <2> HIDE DEF r
  <2>3. Walks(g, r.pc)
    BY <2>1, <2>2, UpdateWalks
  <2> QED BY <2>1, <2>2, <2>3
<1>7. CASE Select(g)
  <2>1. PICK pc \in {"clear", "exited", "giveBack"} : Goto(g, pc) /\ (pc = "exited" => g = Input /\ Stopped(g))
    BY <1>7 DEF Select
  <2>2. go[g].pc = "select" /\ Still
    BY <1>7 DEF Select
  <2> QED BY <2>1, <2>2, GotoWalks
<1>8. CASE ClearEvent(g) \/ Unblock(g)
  <2>1. PICK pc \in {"unblock", "handle"} : Goto(g, pc)
    BY <1>8 DEF ClearEvent, Unblock
  <2>2. go[g].pc \in {"clear", "unblock"} /\ Still
    BY <1>8 DEF ClearEvent, Unblock
  <2> QED BY <2>1, <2>2, GotoWalks
<1>9. CASE PauseClear(g) \/ Finish(g) \/ applyPendingResume(g)
  <2>1. PICK pc \in {"watch", "finish", "after", "resumeGet", "get", "top"} : Goto(g, pc)
    BY <1>2, <1>9 DEF PauseClear, Finish, applyPendingResume
  <2>2. go[g].pc \in {"pauseClear", "finish", "after"} /\ Still
    BY <1>9 DEF PauseClear, Finish, applyPendingResume
  <2> QED BY <2>1, <2>2, GotoWalks
<1>10. CASE ResumeGet(g)
  <2> DEFINE r == [go[g] EXCEPT !.on = processEvent,
                                !.pc = IF processEvent = 0 THEN AfterResume(g)
                                       ELSE "resumeSet"]
  <2>1. r.pc \in {"get", "top", "resumeSet"} /\ r.frame = go[g].frame /\ r.stop = go[g].stop
    BY <1>1, <1>2 DEF Goroutine
  <2>2. go[g].pc = "resumeGet" /\ Still /\ Update(g, r)
    BY <1>10 DEF ResumeGet
  <2> HIDE DEF r
  <2>3. Walks(g, r.pc)
    BY <2>1, <2>2, UpdateWalks
  <2> QED BY <2>1, <2>2, <2>3
<1>11. CASE ResumeSet(g)
  <2>1. Walks(g, AfterResume(g)) /\ go[g].pc = "resumeSet" /\ Still
    BY <1>11, SetEventWalks DEF ResumeSet
  <2> QED BY <1>2, <2>1
<1> QED BY <1>3, <1>4, <1>5, <1>6, <1>7, <1>8, <1>9, <1>10, <1>11 DEF Drain, Carries

\* stopProcessTask takes no frame from anyone.
LEMMA StopShape ==
  ASSUME TypeInv, TypeInv', NEW g \in {Life, Input}, NEW pc, StopProcessTask(g, pc)
  PROVE  /\ Len(go') = Len(go) /\ \A h \in Goroutines : go'[h].frame = go[h].frame
         /\ \A h \in Goroutines : h # g => go'[h].pc = go[h].pc /\ go'[h].on = go[h].on
         /\ go'[g].pc = IF procRunning THEN "join" ELSE pc
         /\ \A h \in Loops : (go[h].stop \/ (procRunning /\ h = Len(go))) => go'[h].stop
         /\ ~procRunning'
         /\ \A h \in Goroutines : go'[h].stop = go[h].stop \/ (procRunning /\ h = Len(go))
<1>1. /\ Len(go) \in Nat /\ Input \in Goroutines /\ Life \in Goroutines /\ Loops \subseteq Goroutines
      /\ \A h \in Goroutines : go[h] \in Goroutine
  BY TypeInvGo
<1>2. CASE ~procRunning
  <2>1. Goto(g, pc) /\ UNCHANGED procRunning
    BY <1>2 DEF StopProcessTask
  <2>2. \A h \in Goroutines : go'[h].stop = go[h].stop
    <3>1. DOMAIN go = 1..Len(go) /\ go' = [go EXCEPT ![g] = [go[g] EXCEPT !.pc = pc]]
      BY <2>1, LenProperties DEF TypeInv, TypeOK, TaskOK, Goto, Update
    <3> QED BY <1>1, <3>1 DEF Goroutine, Goroutines
  <2> QED BY <1>1, <1>2, <2>1, <2>2, GotoWalks DEF Walks, Moves
<1>3. CASE procRunning
  <2>1. go' = [go EXCEPT ![Len(go)].stop = TRUE, ![g].pc = "join", ![g].on = Len(go)]
        /\ ~procRunning'
    BY <1>3 DEF StopProcessTask
  <2>2. DOMAIN go = 1..Len(go) /\ DOMAIN go' = 1..Len(go') /\ Len(go') \in Nat
    BY LenProperties DEF TypeInv, TypeOK, TaskOK
  <2>3. Len(go') = Len(go)
    <3>1. Len(go) \in Nat /\ Len(go') \in Nat /\ 1..Len(go') = 1..Len(go)
      BY <1>1, <2>1, <2>2
    <3> QED BY <3>1
  <2>4. \A h \in Goroutines : /\ go'[h].frame = go[h].frame
                              /\ h # g => go'[h].pc = go[h].pc /\ go'[h].on = go[h].on
    BY <1>1, <2>1, <2>2 DEF Goroutine, Goroutines
  <2>5. go'[g].pc = "join"
    BY <1>1, <2>1, <2>2 DEF Goroutine, Goroutines
  <2>6. \A h \in Loops : (go[h].stop \/ h = Len(go)) => go'[h].stop
    BY <1>1, <2>1, <2>2 DEF Goroutine, Goroutines, Loops, Life, Input
  <2>7. \A h \in Goroutines : go'[h].stop = go[h].stop \/ h = Len(go)
    BY <1>1, <2>1, <2>2 DEF Goroutine, Goroutines, Life, Input
  <2> QED BY <1>3, <2>1, <2>3, <2>4, <2>5, <2>6, <2>7
<1> QED BY <1>2, <1>3

\* A step of the pipeline's goroutine or of the watcher that only walks.
LEMMA WalkAside ==
  ASSUME TypeInv, NEW g \in {Life, Watch}, NEW pc, Walks(g, pc),
         UNCHANGED <<queueVars, histVars, procRunning>>, baseDone => baseDone'
  PROVE  Aside
<1>1. Loops \cup {Input} \subseteq Goroutines /\ g \notin Loops \cup {Input}
  BY TypeInvGo DEF Loops, Life, Watch, Input
<1> QED BY <1>1 DEF Aside, Walks, Moves

\* Resuming, on either of them.
LEMMA ResumeAside ==
  ASSUME TypeInv, TypeInv', NEW g \in {Life, Watch},
         ResumeInput(g) \/ ResumeGet(g) \/ ResumeSet(g)
  PROVE  Aside /\ UNCHANGED startVars /\ go[g].pc \notin {"finishing"} /\ go'[g].pc \notin {"finishing"}
<1>1. g \in Goroutines /\ go[g] \in Goroutine /\ Input \in Goroutines
  BY TypeInvGo
<1>2. AfterResume(g) \in {"cancelInput", "exited", "get", "top"}
  BY DEF AfterResume, Loop
<1>3. CASE ResumeInput(g)
  <2>1. Walks(g, "resumeGet")
    BY <1>1, <1>3, SetEventWalks DEF ResumeInput
  <2>2. Aside
    BY <1>3, <2>1, WalkAside DEF ResumeInput, taskVars, histVars, queueVars
  <2> QED BY <1>3, <2>1, <2>2 DEF ResumeInput, Walks, Moves
<1>4. CASE ResumeSet(g)
  <2>1. Walks(g, AfterResume(g))
    BY <1>1, <1>4, SetEventWalks DEF ResumeSet
  <2>2. Aside
    BY <1>4, <2>1, WalkAside DEF ResumeSet, taskVars, histVars, queueVars
  <2> QED BY <1>2, <1>4, <2>1, <2>2 DEF ResumeSet, Walks, Moves
<1>5. CASE ResumeGet(g)
  <2> DEFINE r == [go[g] EXCEPT !.on = processEvent,
                                !.pc = IF processEvent = 0 THEN AfterResume(g)
                                       ELSE "resumeSet"]
  <2>1. r.pc \in {AfterResume(g), "resumeSet"} /\ r.frame = go[g].frame /\ r.stop = go[g].stop
    BY <1>1 DEF Goroutine
  <2>2. Update(g, r)
    BY <1>5 DEF ResumeGet
  <2> HIDE DEF r
  <2>3. Walks(g, r.pc)
    BY <1>1, <2>1, <2>2, UpdateWalks
  <2>4. Aside
    BY <1>5, <2>3, WalkAside DEF ResumeGet, taskVars, histVars, queueVars
  <2> QED BY <1>2, <1>5, <2>1, <2>3, <2>4 DEF ResumeGet, Walks, Moves
<1> QED BY <1>3, <1>4, <1>5

\* What the pipeline's goroutine and the watcher do once the processor is set
\* up.  Only the end of setting up touches what the start gate hangs on.
LEMMA AsideSteps ==
  ASSUME TypeInv, TypeInv', WatchStep \/ SetupFinished \/ Cleanup \/ LifeStep
  PROVE  /\ Aside
         /\ \/ UNCHANGED startVars /\ (go'[Life].pc = "finishing" => go[Life].pc = "finishing")
            \/ setupDone' /\ UNCHANGED <<startReceived, startGate>>
            \/ /\ go[Life].pc = "finishing" /\ go'[Life].pc = "up" /\ UNCHANGED <<setupDone, startReceived>>
               /\ startGate' = (startGate \/ startReceived)
<1>1. {Life, Watch, Input} \subseteq Goroutines /\ Loops \subseteq Goroutines
      /\ \A h \in Goroutines : go[h] \in Goroutine
  BY TypeInvGo
<1> USE DEF taskVars, histVars, queueVars, startVars
<1>2. CASE WatcherFires
  <2>1. Walks(Watch, "resumeInput") /\ go'[Life].pc = go[Life].pc
    BY <1>1, <1>2, GotoWalks DEF WatcherFires, Walks, Moves, Life, Watch
  <2> QED BY <1>2, <2>1, WalkAside DEF WatcherFires
<1>3. CASE SetupFinished
  <2>1. Walks(Life, "finishing")
    BY <1>1, <1>3, GotoWalks DEF SetupFinished
  <2> QED BY <1>3, <2>1, WalkAside DEF SetupFinished
<1>4. CASE OpenOnSetup
  <2>1. Walks(Life, "up") /\ go'[Life].pc = "up"
    BY <1>1, <1>4, GotoWalks DEF OpenOnSetup, Walks, Moves
  <2> QED BY <1>4, <2>1, WalkAside DEF OpenOnSetup
<1>5. CASE JoinWatcher \/ InputWaited \/ Join(Life)
  <2>1. PICK pc \in {"resumeInput", "stopProc", "down"} : Goto(Life, pc)
    BY <1>5 DEF JoinWatcher, InputWaited, Join, AfterJoin
  <2>2. Walks(Life, pc) /\ go'[Life].pc = pc
    BY <1>1, <2>1, GotoWalks DEF Walks, Moves
  <2>3. UNCHANGED <<queueVars, startVars, histVars, procRunning, baseDone>>
    BY <1>5 DEF JoinWatcher, InputWaited, Join
  <2> QED BY <2>2, <2>3, WalkAside
<1>6. CASE CancelInputTask
  <2>1. Walks(Life, "waitInput") /\ go'[Life].pc = "waitInput"
    BY <1>1, <1>6, GotoWalks DEF CancelInputTask, Walks, Moves
  <2> QED BY <1>6, <2>1, WalkAside DEF CancelInputTask
<1>7. CASE StopForGood
  <2>1. StopProcessTask(Life, "down") /\ UNCHANGED <<queueVars, startVars, histVars, baseDone>>
    BY <1>7 DEF StopForGood
  <2>2. Loops \cup {Input} \subseteq Goroutines /\ Life \notin Loops \cup {Input}
    BY <1>1 DEF Loops, Life, Input
  <2> QED BY <2>1, <2>2, StopShape DEF Aside
<1>8. CASE Cleanup
  <2>1. CASE go[Watch].pc = "none"
    <3>1. Walks(Life, "cancelInput") /\ go'[Life].pc = "cancelInput"
      BY <1>1, <1>8, <2>1, GotoWalks DEF Cleanup, Walks, Moves
    <3> QED BY <1>8, <3>1, WalkAside DEF Cleanup
  <2>2. CASE go[Watch].pc # "none"
    <3>1. go' = [go EXCEPT ![Life].pc = "lift", ![Watch].stop = TRUE]
      BY <1>8, <2>2 DEF Cleanup
    <3>2. DOMAIN go = 1..Len(go) /\ DOMAIN go' = 1..Len(go') /\ Len(go') \in Nat /\ Len(go) \in Nat
      BY LenProperties DEF TypeInv, TypeOK, TaskOK
    <3>3. Len(go') = Len(go)
      <4>1. Len(go) \in Nat /\ Len(go') \in Nat /\ 1..Len(go') = 1..Len(go)
        BY <3>1, <3>2
      <4> QED BY <4>1
    <3>4. \A h \in Loops \cup {Input} : h \in DOMAIN go /\ h # Life /\ h # Watch
      BY <1>1, <3>2 DEF Loops, Input, Life, Watch, Goroutines
    <3>5. go'[Life].pc = "lift" /\ \A h \in Loops \cup {Input} : go'[h] = go[h]
      BY <1>1, <3>1, <3>2, <3>4 DEF Life, Watch, Goroutine, Goroutines
    <3> QED BY <1>8, <3>3, <3>4, <3>5 DEF Aside, Cleanup
  <2> QED BY <2>1, <2>2
<1>9. CASE ResumeInput(Life) \/ ResumeGet(Life) \/ ResumeSet(Life)
  BY <1>9, ResumeAside
<1>10. CASE ResumeInput(Watch) \/ ResumeGet(Watch) \/ ResumeSet(Watch)
  <2>1. go'[Life].pc = go[Life].pc
    <3>1. \E pc : Moves(Watch, pc)
      BY <1>1, <1>10, SetEventMoves, UpdateMoves DEF ResumeInput, ResumeGet, ResumeSet
    <3> QED BY <1>1, <3>1 DEF Moves, Life, Watch
  <2> QED BY <1>10, <2>1, ResumeAside
<1> QED BY <1>2, <1>3, <1>4, <1>5, <1>6, <1>7, <1>8, <1>9, <1>10 DEF WatchStep, LifeStep

-----------------------------------------------------------------------------
(***************************************************************************)
(* The StartFrame first.  That nothing is handled before it rests on the   *)
(* gate, which only opens once setting up is done and the StartFrame has   *)
(* been queued (GateOK), and on the queue serving the StartFrame first:    *)
(* until a handler has been called, either the StartFrame is still queued  *)
(* or it is what the input goroutine holds (Early).                        *)
(***************************************************************************)
GateOK == /\ startGate => setupDone /\ startReceived
          /\ \A f \in Frame : sent[f] = "opening" => startReceived
          /\ go[Life].pc = "finishing" => setupDone
          /\ go[Input].pc \notin {"none", "startGate", "exited"} => startGate

EarlyPcs == {"none", "startGate", "exited", "get", "pull", "idle"}

Early == begun = <<>> =>
    /\ Len(go) = 3
    /\ go[Input].pc \in EarlyPcs \cup HandPcs
    /\ go[Input].pc \in HandPcs => isStartFrame(go[Input].frame)
    /\ (startReceived /\ go[Input].pc \in EarlyPcs \ {"exited"}) => inputQueue.start # <<>>

StartInv == GateOK /\ Early /\ OnlyStarts(inputQueue) /\ StartFirst

\* What the goroutines that run frames leave alone.
LEMMA RunSteps ==
  ASSUME TypeInv, TypeInv', InputStep \/ ProcessStep
  PROVE  /\ UNCHANGED <<sent, startVars, arrived>>
         /\ inputQueue' = inputQueue \/ Pull(Input)
         /\ begun' = begun \/ \E g \in Loops \cup {Input} : Begins(g)
<1> USE DEF queueVars, startVars, histVars
<1>1. ASSUME NEW g \in Loops \cup {Input}, Drain(g) \/ Top(g) \/ takeCurFrame(g) \/ giveBack(g)
      PROVE  /\ UNCHANGED <<sent, startVars, arrived>>
             /\ inputQueue' = inputQueue \/ Pull(Input)
             /\ begun' = begun \/ Begins(g)
  <2>1. g \in Goroutines /\ g # Life /\ g # Watch
    BY TypeInvGo DEF Loops, Life, Watch, Input
  <2>2. CASE Still
    BY <2>2 DEF Still
  <2>3. CASE Pull(g)
    <3>1. inputQueue' = inputQueue \/ g = Input
      BY <2>3 DEF Pull
    <3> QED BY <2>3, <3>1 DEF Pull
  <2>4. CASE GetCheck(g) \/ giveBack(g)
    BY <2>4 DEF GetCheck, giveBack
  <2>5. CASE Begin(g) \/ BeginPause(g)
    BY <2>5 DEF Begin, BeginPause, Begins
  <2>6. CASE BroadcastResetGate(g) \/ Flush(g)
    BY <2>6 DEF BroadcastResetGate, Flush
  <2> QED BY <1>1, <2>1, <2>2, <2>3, <2>4, <2>5, <2>6, DrainSteps DEF Carries
<1>2. CASE ProcessStep
  BY <1>1, <1>2 DEF ProcessStep, LoopStep
<1>3. CASE StartGate \/ HandOn \/ StartInterruption
  BY <1>3 DEF StartGate, HandOn, StartInterruption
<1>4. CASE Create \/ CreateFlush \/ CancelProcessTask
  BY <1>4 DEF Create, CreateFlush, CancelProcessTask
<1>5. CASE CancelFrameInProgress \/ Respawn \/ Join(Input)
  BY <1>5 DEF CancelFrameInProgress, Respawn, Join
<1>6. CASE HoldSystem \/ HoldFrames \/ StartWatcher
  BY <1>6 DEF HoldSystem, HoldFrames, StartWatcher
<1>7. CASE Drain(Input)
  BY <1>1, <1>7
<1> QED BY <1>2, <1>3, <1>4, <1>5, <1>6, <1>7 DEF InputStep

\* Where the frames a processor has begun start is settled by the first.
LEMMA FirstStays ==
  ASSUME TypeInv, StartFirst, UNCHANGED startVars, begun # <<>>,
         begun' = begun \/ \E f \in Frame : begun' = Append(begun, f)
  PROVE  StartFirst' /\ begun' # <<>>
<1>1. begun \in Seq(Frame) /\ Len(begun) \in Nat /\ Len(begun) # 0
  BY DEF TypeInv, TypeOK, HistoryOK
<1>2. begun'[1] = begun[1] /\ begun' # <<>>
  <2>1. CASE begun' = begun
    BY <2>1
  <2>2. ASSUME NEW f \in Frame, begun' = Append(begun, f)
        PROVE  begun'[1] = begun[1] /\ begun' # <<>>
    <3>1. /\ Append(begun, f) \in Seq(Frame) /\ Len(Append(begun, f)) = Len(begun) + 1
          /\ \A i \in 1..Len(begun) : Append(begun, f)[i] = begun[i]
      BY <1>1, AppendTo
    <3>2. 1 \in 1..Len(begun) /\ Len(begun') # 0
      BY <1>1, <2>2, <3>1
    <3> QED BY <2>2, <3>1, <3>2
  <2> QED BY <2>1, <2>2
<1> QED BY <1>1, <1>2 DEF StartFirst, startVars

\* The input goroutine moves no other but the watcher, and starts from the gate.
LEMMA InputMoves ==
  ASSUME TypeInv, TypeInv', InputStep
  PROVE  /\ go'[Life].pc = go[Life].pc
         /\ StartGate \/ go[Input].pc \notin {"none", "startGate", "exited"}
<1>1. /\ {Life, Watch, Input} \subseteq Goroutines /\ Len(go) \in Nat
      /\ \A h \in Goroutines : go[h] \in Goroutine
  BY TypeInvGo
<1>2. Life # Input /\ Life # Watch
  BY DEF Life, Input, Watch
<1>3. ASSUME NEW pc, Moves(Input, pc) PROVE go'[Life].pc = go[Life].pc
  BY <1>1, <1>2, <1>3 DEF Moves
<1>4. ASSUME NEW pc, StopProcessTask(Input, pc) PROVE go'[Life].pc = go[Life].pc
  BY <1>1, <1>2, <1>4, StopShape
<1>5. ASSUME NEW pc \in {"hold", "finish"}, Spawn(pc) PROVE go'[Life].pc = go[Life].pc
  <2>1. pc \in Pcs \ HandPcs
    BY DEF Pcs, HandPcs, HandlerPcs
  <2> QED BY <1>1, <1>2, <1>5, <2>1, SpawnType
<1>6. ASSUME NEW pc, Goto(Input, pc) PROVE go'[Life].pc = go[Life].pc
  BY <1>1, <1>3, <1>6, GotoMoves
<1>7. CASE Drain(Input)
  BY <1>1, <1>3, <1>7, DrainMoves DEF Drain, GetCheck, Pull, GoIdle, Wake, Gate, WaitEvent,
     Select, ClearEvent, Unblock, Begin, BeginPause, Begins, PauseClear, BroadcastResetGate,
     Flush, Finish, applyPendingResume, ResumeGet, ResumeSet
<1>8. CASE StartGate \/ HandOn \/ HoldSystem \/ Create \/ Join(Input)
  BY <1>6, <1>8 DEF StartGate, HandOn, HoldSystem, Create, Join
<1>9. CASE StartInterruption \/ CancelProcessTask \/ CancelFrameInProgress
  BY <1>4, <1>6, <1>9 DEF StartInterruption, CancelProcessTask, CancelFrameInProgress
<1>10. CASE CreateFlush \/ Respawn
  BY <1>5, <1>6, <1>10 DEF CreateFlush, Respawn
<1>11. CASE HoldFrames
  BY <1>1, <1>3, <1>11, UpdateMoves DEF HoldFrames
<1>12. CASE StartWatcher
  <2>1. DOMAIN go = Goroutines
    BY LenProperties DEF TypeInv, TypeOK, TaskOK, Goroutines
  <2> QED BY <1>1, <1>2, <1>12, <2>1 DEF StartWatcher
<1> QED BY <1>7, <1>8, <1>9, <1>10, <1>11, <1>12 DEF InputStep

\* The input goroutine before any handler has been called: it waits at the gate,
\* takes the StartFrame first, and calls the StartFrame's handler.
LEMMA EarlyInput ==
  ASSUME TypeInv, TypeInv', StartInv, InputStep, begun = <<>>
  PROVE  Early' /\ OnlyStarts(inputQueue)' /\ StartFirst'
<1>1. /\ Len(go) = 3 /\ go[Input].pc \in EarlyPcs \cup HandPcs
      /\ go[Input].pc \in HandPcs => isStartFrame(go[Input].frame) /\ isSystemFrame(go[Input].frame)
      /\ (startReceived /\ go[Input].pc \in EarlyPcs \ {"exited"}) => inputQueue.start # <<>>
  BY DEF StartInv, Early, isStartFrame, isSystemFrame, SystemKinds
<1>2. /\ Input \in Goroutines /\ go[Input] \in Goroutine /\ inputQueue \in Queue
      /\ Input # Life /\ Input # Watch
      /\ go[Input].pc \in HandPcs => go[Input].frame \in Frame
  BY TypeInvGo DEF TypeInv, TypeOK, QueueOK, Input, Life, Watch
<1>3. ASSUME NEW pc \in EarlyPcs \cup HandPcs, Walks(Input, pc), UNCHANGED <<queueVars, startVars, begun>>,
             pc \in HandPcs => go[Input].pc \in HandPcs,
             pc \in EarlyPcs \ {"exited"} => go[Input].pc \in EarlyPcs \ {"exited"}
      PROVE  Early' /\ OnlyStarts(inputQueue)' /\ StartFirst'
  <2>1. go'[Input].pc = pc /\ go'[Input].frame = go[Input].frame /\ Len(go') = Len(go)
    BY <1>2, <1>3 DEF Walks, Moves
  <2> QED BY <1>1, <1>3, <2>1 DEF Early, StartInv, StartFirst, OnlyStarts, queueVars, startVars
<1>4. CASE StartGate
  <2>1. PICK pc \in {"get", "exited"} : Goto(Input, pc)
    BY <1>4 DEF StartGate
  <2>2. Walks(Input, pc)
    BY <1>2, <2>1, GotoWalks
  <2> QED BY <1>3, <1>4, <2>2 DEF StartGate, histVars, EarlyPcs, HandPcs
<1>5. CASE Still /\ \E pc : Walks(Input, pc) /\ Path(Input, go[Input].pc, pc)
  <2>1. PICK pc : Walks(Input, pc) /\ Path(Input, go[Input].pc, pc)
    BY <1>5
  <2>2. /\ pc \in EarlyPcs \cup HandPcs
        /\ pc \in HandPcs => go[Input].pc \in HandPcs
        /\ pc \in EarlyPcs \ {"exited"} => go[Input].pc \in EarlyPcs \ {"exited"}
    BY <1>1, <2>1 DEF Path, EarlyPcs, HandPcs
  <2> QED BY <1>3, <1>5, <2>1, <2>2 DEF Still, histVars
<1>6. CASE GetCheck(Input)
  <2> DEFINE r == [go[Input] EXCEPT !.pc = IF Stopped(Input) THEN "exited" ELSE "pull",
                                    !.frame = NoFrame, !.on = 0, !.woken = FALSE]
  <2>1. r.pc \in {"exited", "pull"}
    BY <1>2 DEF Goroutine
  <2>2. Update(Input, r) /\ go[Input].pc = "get" /\ UNCHANGED <<queueVars, startVars, begun>>
    BY <1>6 DEF GetCheck, histVars
  <2> HIDE DEF r
  <2>3. Moves(Input, r.pc)
    BY <1>2, <2>2, UpdateMoves
  <2>4. go'[Input].pc \in {"exited", "pull"} /\ Len(go') = Len(go)
    BY <2>1, <2>3 DEF Moves
  <2> QED BY <1>1, <2>2, <2>4 DEF Early, EarlyPcs, HandPcs, StartInv, StartFirst, OnlyStarts, queueVars, startVars
<1>7. CASE Pull(Input)
  <2>1. startReceived
    BY <1>7 DEF Pull, StartInv, GateOK
  <2>2. inputQueue.start # <<>>
    BY <1>1, <1>7, <2>1 DEF Pull, EarlyPcs
  <2>3. isStartFrame(head(inputQueue)) /\ OnlyStarts(get(inputQueue))
    BY <1>2, <2>2, StartTier DEF StartInv
  <2> DEFINE r == [go[Input] EXCEPT !.pc = IF Input = Input THEN "gate" ELSE "take",
                                    !.frame = head(QueueOf(Input))]
  <2>4. r.pc = "gate" /\ r.frame = head(inputQueue)
    BY <1>2 DEF Goroutine, QueueOf
  <2>5. Update(Input, r) /\ inputQueue' = get(inputQueue) /\ begun' = begun
    BY <1>7 DEF Pull, histVars
  <2> HIDE DEF r
  <2>6. go' = [go EXCEPT ![Input] = r] /\ DOMAIN go = Goroutines
    BY <2>5, LenProperties DEF Update, TypeInv, TypeOK, TaskOK, Goroutines
  <2>7. go'[Input] = r
    BY <1>2, <2>6
  <2>8. Len(go') = Len(go)
    BY <1>2, <2>5, UpdateMoves DEF Moves
  <2> QED BY <1>1, <2>3, <2>4, <2>5, <2>7, <2>8 DEF Early, EarlyPcs, HandPcs, StartInv, StartFirst, OnlyStarts
<1>8. CASE Begin(Input) \/ BeginPause(Input)
  <2>1. /\ go[Input].pc = "handle" /\ begun' = Append(begun, go[Input].frame)
        /\ UNCHANGED <<inputQueue, startVars>> /\ go[Input].frame \in Frame
        /\ isStartFrame(go[Input].frame)
    BY <1>1, <1>2, <1>8 DEF Begin, BeginPause, Begins, queueVars, HandPcs
  <2>2. startGate /\ setupDone
    BY <2>1 DEF StartInv, GateOK
  <2>3. begun' = <<go[Input].frame>>
    BY <2>1
  <2>4. begun' # <<>> /\ begun'[1] = go[Input].frame
    BY <2>3
  <2> QED BY <2>1, <2>2, <2>4 DEF Early, StartFirst, StartInv, OnlyStarts, startVars
<1>9. CASE HandOn
  BY <1>1, <1>9 DEF HandOn, HandPcs
<1>10. go[Input].pc \notin {"interrupt", "create", "createFlush", "stopTask", "withdraw", "respawn",
                            "join", "hold", "holdFrames", "watch", "resetGate", "flush"}
  BY <1>1 DEF EarlyPcs, HandPcs
<1>11. CASE Drain(Input)
  <2>1. ~giveBack(Input)
    BY <1>11 DEF Drain, giveBack, GetCheck, Pull, GoIdle, Wake, Gate, WaitEvent,
       Select, ClearEvent, Unblock, Begin, BeginPause, Begins, PauseClear, BroadcastResetGate,
       Flush, Finish, applyPendingResume, ResumeGet, ResumeSet
  <2>2. ~BroadcastResetGate(Input) /\ ~Flush(Input)
    BY <1>10 DEF BroadcastResetGate, Flush
  <2> QED BY <1>2, <1>5, <1>6, <1>7, <1>8, <1>11, <2>1, <2>2, DrainSteps DEF Carries
<1> QED BY <1>4, <1>9, <1>10, <1>11 DEF InputStep, StartInterruption, Create, CreateFlush, CancelProcessTask,
       CancelFrameInProgress, Respawn, Join, HoldSystem, HoldFrames, StartWatcher

\* No step, and no stuttering, breaks StartInv.
LEMMA StartNext == TypeInv /\ TypeInv' /\ StartInv /\ LoopInv /\ [Next]_vars => StartInv'
<1> SUFFICES ASSUME TypeInv, TypeInv', StartInv, LoopInv, [Next]_vars PROVE StartInv'
  OBVIOUS
<1>1. /\ {Life, Watch, Input} \subseteq Goroutines /\ Loops \subseteq Goroutines /\ Len(go) \in Nat
      /\ \A h \in Goroutines : go[h] \in Goroutine
  BY TypeInvGo
<1>2. Life # Input /\ Life # Watch /\ Watch # Input /\ Life \notin Loops /\ Input \notin Loops
  BY DEF Life, Watch, Input, Loops
<1>3. inputQueue \in Queue /\ begun \in Seq(Frame)
  BY DEF TypeInv, TypeOK, QueueOK, HistoryOK
<1>4. ASSUME NEW f \in Frame, Send(f) PROVE StartInv'
  <2>1. UNCHANGED <<go, setupDone, begun>> /\ (startReceived => startReceived')
    BY <1>4 DEF Send, QueueFrame, RefuseFrame, OpenOnStart, startVars, histVars, TypeInv, TypeOK, FlagsOK
  <2>2. CASE QueueFrame(f)
    <3>1. /\ startGate' = startGate /\ inputQueue' = push(inputQueue, f)
          /\ startReceived' = (startReceived \/ isStartFrame(f))
          /\ \A g \in Frame : sent'[g] = "opening" => sent[g] = "opening" \/ startReceived'
      BY <2>2 DEF QueueFrame, TypeInv, TypeOK, QueueOK, FlagsOK
    <3>2. /\ OnlyStarts(push(inputQueue, f))
          /\ (inputQueue.start # <<>> \/ isStartFrame(f)) => push(inputQueue, f).start # <<>>
      BY <1>3, StartTier DEF StartInv
    <3>3. GateOK'
      BY <2>1, <3>1 DEF StartInv, GateOK
    <3>4. Early'
      BY <2>1, <3>1, <3>2 DEF StartInv, Early
    <3> QED BY <2>1, <3>1, <3>2, <3>3, <3>4 DEF StartInv, StartFirst, OnlyStarts
  <2>3. CASE RefuseFrame(f)
    <3>1. /\ UNCHANGED <<inputQueue, startGate, startReceived>>
          /\ \A g \in Frame : sent'[g] = "opening" => sent[g] = "opening"
      BY <2>3 DEF RefuseFrame, startVars, TypeInv, TypeOK, QueueOK
    <3> QED BY <2>1, <3>1 DEF StartInv, GateOK, Early, StartFirst, OnlyStarts
  <2>4. CASE OpenOnStart(f)
    <3>1. /\ UNCHANGED <<inputQueue, startReceived>> /\ startGate' = (startGate \/ setupDone)
          /\ sent[f] = "opening"
          /\ \A g \in Frame : sent'[g] = "opening" => sent[g] = "opening"
      BY <2>4 DEF OpenOnStart, TypeInv, TypeOK, QueueOK
    <3> QED BY <2>1, <3>1 DEF StartInv, GateOK, Early, StartFirst, OnlyStarts
  <2> QED BY <1>4, <2>2, <2>3, <2>4 DEF Send
<1>5. CASE Setup
  <2>1. /\ go' = [go EXCEPT ![Life].pc = "settingUp", ![Input].pc = "startGate"]
        /\ go[Life].pc = "new" /\ UNCHANGED <<queueVars, startVars, histVars>>
    BY <1>5 DEF Setup
  <2>2. DOMAIN go = 1..Len(go) /\ DOMAIN go' = 1..Len(go') /\ Len(go') \in Nat
    BY LenProperties DEF TypeInv, TypeOK, TaskOK
  <2>3. Len(go') = Len(go)
    <3>1. Len(go) \in Nat /\ Len(go') \in Nat /\ 1..Len(go') = 1..Len(go)
      BY <1>1, <2>1, <2>2
    <3> QED BY <3>1
  <2>4. go'[Life].pc = "settingUp" /\ go'[Input].pc = "startGate"
    BY <1>1, <1>2, <2>1, <2>2 DEF Goroutine, Goroutines
  <2>5. go[Input].pc = "none"
    BY <2>1 DEF LoopInv, NotYet
  <2> QED BY <2>1, <2>3, <2>4, <2>5 DEF StartInv, GateOK, Early, StartFirst, OnlyStarts, EarlyPcs,
             HandPcs, queueVars, startVars, histVars
<1>6. CASE WatchStep \/ SetupFinished \/ Cleanup \/ LifeStep
  <2>1. /\ Aside
        /\ \/ UNCHANGED startVars /\ (go'[Life].pc = "finishing" => go[Life].pc = "finishing")
           \/ setupDone' /\ UNCHANGED <<startReceived, startGate>>
           \/ /\ go[Life].pc = "finishing" /\ go'[Life].pc = "up" /\ UNCHANGED <<setupDone, startReceived>>
              /\ startGate' = (startGate \/ startReceived)
    BY <1>6, AsideSteps
  <2>2. /\ UNCHANGED <<sent, inputQueue, begun>> /\ Len(go') = Len(go)
        /\ go'[Input].pc = go[Input].pc /\ go'[Input].frame = go[Input].frame
    BY <2>1 DEF Aside, queueVars, histVars
  <2>3. /\ startReceived' = startReceived /\ (setupDone => setupDone')
        /\ startGate' => startGate \/ (setupDone' /\ startReceived)
        /\ startGate => startGate'
        /\ go'[Life].pc = "finishing" => setupDone'
    <3>1. GateOK
      BY DEF StartInv
    <3>2. CASE UNCHANGED startVars /\ (go'[Life].pc = "finishing" => go[Life].pc = "finishing")
      BY <3>1, <3>2 DEF startVars, GateOK
    <3>3. CASE setupDone' /\ UNCHANGED <<startReceived, startGate>>
      BY <3>1, <3>3 DEF GateOK
    <3>4. CASE /\ go[Life].pc = "finishing" /\ go'[Life].pc = "up" /\ UNCHANGED <<setupDone, startReceived>>
               /\ startGate' = (startGate \/ startReceived)
      BY <3>1, <3>4 DEF GateOK
    <3> QED BY <2>1, <3>2, <3>3, <3>4
  <2> QED BY <2>2, <2>3 DEF StartInv, GateOK, Early, StartFirst, OnlyStarts
<1>7. CASE InputStep \/ ProcessStep
  <2>1. /\ UNCHANGED <<sent, startVars>>
        /\ inputQueue' = inputQueue \/ Pull(Input)
        /\ begun' = begun \/ \E g \in Loops \cup {Input} : Begins(g)
    BY <1>7, RunSteps
  <2>2. /\ go'[Life].pc = go[Life].pc
        /\ go'[Input].pc \notin {"none", "startGate", "exited"} => startGate
    <3>1. CASE ProcessStep
      <4>1. PICK g \in Loops : Drain(g) \/ Top(g) \/ takeCurFrame(g) \/ giveBack(g)
        BY <3>1 DEF ProcessStep, LoopStep
      <4>2. g \in Goroutines /\ g # Life /\ g # Input
        BY <1>1, <1>2
      <4>3. PICK pc : Moves(g, pc)
        BY <4>1, <4>2, DrainMoves
      <4> QED BY <1>1, <4>2, <4>3 DEF Moves, StartInv, GateOK
    <3>2. CASE InputStep
      <4>1. /\ go'[Life].pc = go[Life].pc
            /\ StartGate \/ go[Input].pc \notin {"none", "startGate", "exited"}
        BY <3>2, InputMoves
      <4>2. CASE StartGate
        <5>1. CASE Goto(Input, "exited")
          BY <1>1, <4>1, <5>1, GotoMoves DEF Moves
        <5> QED BY <4>1, <4>2, <5>1 DEF StartGate
      <4> QED BY <4>1, <4>2 DEF StartInv, GateOK
    <3> QED BY <1>7, <3>1, <3>2
  <2>3. GateOK'
    <3>1. UNCHANGED <<sent, setupDone, startReceived, startGate>>
      BY <2>1 DEF startVars
    <3> QED BY <2>2, <3>1 DEF StartInv, GateOK
  <2>4. CASE begun = <<>>
    <3>1. Loops = {}
      BY <2>4 DEF StartInv, Early, Loops
    <3>2. InputStep
      BY <1>7, <3>1 DEF ProcessStep
    <3> QED BY <2>3, <2>4, <3>2, EarlyInput DEF StartInv
  <2>5. CASE begun # <<>>
    <3>1. begun' = begun \/ \E f \in Frame : begun' = Append(begun, f)
      <4>1. ASSUME NEW g \in Loops \cup {Input}, Begins(g)
            PROVE  \E f \in Frame : begun' = Append(begun, f)
        <5>1. go[g].pc = "handle" /\ begun' = Append(begun, go[g].frame)
          BY <4>1 DEF Begins
        <5>2. go[g].frame \in Frame
          BY <1>1, <5>1, TypeInvGo DEF HandPcs
        <5> QED BY <5>1, <5>2
      <4> QED BY <2>1, <4>1
    <3>2. StartFirst' /\ begun' # <<>>
      BY <2>1, <2>5, <3>1, FirstStays DEF StartInv
    <3>3. OnlyStarts(inputQueue)'
      <4>1. CASE inputQueue' = inputQueue
        BY <4>1 DEF StartInv, OnlyStarts
      <4>2. CASE Pull(Input)
        <5>1. ~isEmpty(inputQueue) /\ inputQueue' = get(inputQueue)
          BY <4>2 DEF Pull, QueueOf
        <5>2. OnlyStarts(get(inputQueue))
          BY <1>3, <5>1, StartTier DEF StartInv
        <5> QED BY <5>1, <5>2 DEF OnlyStarts
      <4> QED BY <2>1, <4>1, <4>2
    <3> QED BY <2>3, <3>2, <3>3 DEF StartInv, Early
  <2> QED BY <2>4, <2>5
<1>8. CASE UNCHANGED vars
  BY <1>8 DEF vars, queueVars, startVars, histVars, StartInv, GateOK, Early, StartFirst, OnlyStarts
<1> QED BY <1>4, <1>5, <1>6, <1>7, <1>8 DEF Next

\* No handler is called before the StartFrame's, nor before setting up is done,
\* whatever is queued and however early.
THEOREM StartFirstHolds == Spec => []StartFirst
<1>1. Init => LoopInv
  BY LoopInit
<1>2. Init => StartInv
  BY DEF Init, goroutine, newQueue, StartInv, GateOK, Early, EarlyPcs, HandPcs, StartFirst, OnlyStarts,
         Life, Input
<1>3. StartInv => StartFirst
  BY DEF StartInv
<1> QED BY <1>1, <1>2, <1>3, TypeInit, TypeNext, LoopNext, StartNext, PTL DEF Spec

-----------------------------------------------------------------------------
(***************************************************************************)
(* One place for a frame.  A data or control frame is unsent, waits in the *)
(* input queue, is held by one goroutine, is ready in the process queue or *)
(* has begun, and never two of these; a system frame never gets to a       *)
(* process goroutine.  What is said of a frame that an interruption has    *)
(* dropped, or of a canceled processor, rests on this.                     *)
(***************************************************************************)
Unsent(f) == sent[f] \in {"unsent", "refused"}
Waits(f) == f \in FramesOf(inputQueue.other)
Ready(f) == f \in FramesOf(procQueue.other)
Begun(f) == f \in FramesOf(begun)
Holds(g, f) == go[g].pc \in HandPcs /\ go[g].frame = f

\* The goroutines that take frames off a queue.
Takers == Loops \cup {Input}

OnePlace(f) ==
    /\ Unsent(f) => ~Waits(f) /\ ~Ready(f) /\ ~Begun(f)
    /\ Waits(f) => ~Ready(f) /\ ~Begun(f)
    /\ Ready(f) => ~Begun(f)
    /\ \A g \in Takers :
           Holds(g, f) => ~Unsent(f) /\ ~Waits(f) /\ ~Ready(f) /\ ~Begun(f)
    /\ \A g, h \in Takers : Holds(g, f) /\ Holds(h, f) => g = h

TierInv == /\ Tiered(inputQueue) /\ Tiered(procQueue)
           /\ procQueue.start = <<>> /\ procQueue.system = <<>>
           /\ \A g \in Loops : go[g].pc \in HandPcs => ~isSystemFrame(go[g].frame)

\* Who stops a process goroutine leaves its context canceled.
StopFlag == \A g \in Loops : go[g].stop \/ (procRunning /\ g = Len(go))

PlaceInv == /\ TierInv /\ StopFlag
            /\ Distinct(inputQueue.other) /\ Distinct(procQueue.other)
            /\ \A f \in Frame : ~isSystemFrame(f) => OnePlace(f)

\* What only the input goroutine does, handing a frame on apart: no frame changes
\* hands, and a process goroutine is started only where there is none to stop.
LEMMA InputKeeps ==
  ASSUME TypeInv, TypeInv', LoopInv, InputStep, ~Drain(Input), ~HandOn
  PROVE  /\ UNCHANGED <<sent, inputQueue, begun, baseDone>> /\ procQueue' \in {procQueue, reset(procQueue)}
         /\ \A h \in Goroutines : go'[h].frame = go[h].frame
         /\ \A h \in Loops : go'[h].pc = go[h].pc
         /\ \A h \in Loops :
                (go[h].stop \/ (procRunning /\ ~procRunning' /\ h = Len(go))) => go'[h].stop
         /\ go'[Input].pc \notin HandPcs \cup {"interrupt"}
         /\ go'[Input].stop = go[Input].stop \/ (procRunning /\ Len(go) = Input)
         /\ go'[Life].pc = go[Life].pc
         /\ \/ Len(go') = Len(go) /\ (procRunning' => procRunning)
            \/ /\ Len(go') = Len(go) + 1 /\ ~procRunning /\ procRunning'
               /\ go'[Len(go) + 1] = goroutine("top")
<1>1. /\ {Life, Watch, Input} \subseteq Goroutines /\ Loops \subseteq Goroutines /\ Len(go) \in Nat
      /\ \A h \in Goroutines : go[h] \in Goroutine
  BY TypeInvGo
<1>2. Input \notin Loops /\ Watch \notin Loops /\ Life \notin Loops /\ Life # Input /\ Life # Watch /\ Watch # Input
  BY DEF Input, Watch, Life, Loops
<1> DEFINE Sits == /\ \A h \in Goroutines : go'[h].frame = go[h].frame
                   /\ \A h \in Loops : go'[h].pc = go[h].pc
                   /\ \A h \in Loops :
                          (go[h].stop \/ (procRunning /\ ~procRunning' /\ h = Len(go))) => go'[h].stop
                   /\ go'[Input].pc \notin HandPcs \cup {"interrupt"}
                   /\ go'[Input].stop = go[Input].stop \/ (procRunning /\ Len(go) = Input)
                   /\ go'[Life].pc = go[Life].pc
           One == \/ Len(go') = Len(go) /\ (procRunning' => procRunning)
                  \/ /\ Len(go') = Len(go) + 1 /\ ~procRunning /\ procRunning'
                     /\ go'[Len(go) + 1] = goroutine("top")
<1>3. ASSUME NEW pc, pc \notin HandPcs \cup {"interrupt"}, Walks(Input, pc), procRunning' = procRunning PROVE Sits /\ One
  BY <1>1, <1>2, <1>3 DEF Walks, Moves
<1>4. ASSUME NEW pc, pc \notin HandPcs \cup {"interrupt"}, Goto(Input, pc), procRunning' = procRunning PROVE Sits /\ One
  BY <1>1, <1>3, <1>4, GotoWalks
<1>5. ASSUME NEW pc, pc \notin HandPcs \cup {"interrupt"}, StopProcessTask(Input, pc) PROVE Sits /\ One
  <2>1. "join" \notin HandPcs \cup {"interrupt"}
    BY DEF HandPcs
  <2> QED BY <1>1, <1>2, <1>5, <2>1, StopShape
<1>6. ASSUME NEW pc \in {"hold", "finish"}, Spawn(pc), ~procRunning PROVE Sits /\ One
  <2>1. pc \in Pcs \ HandPcs /\ pc # "interrupt"
    BY DEF Pcs, HandPcs, HandlerPcs
  <2>2. /\ Len(go') = Len(go) + 1 /\ go'[Len(go) + 1] = goroutine("top")
        /\ \A h \in Goroutines : h # Input => go'[h] = go[h]
        /\ go'[Input].frame = go[Input].frame /\ go'[Input].pc = pc /\ go'[Input].stop = go[Input].stop
    BY <1>1, <1>6, <2>1, SpawnType
  <2>3. procRunning'
    BY <1>6 DEF Spawn
  <2> QED BY <1>1, <1>2, <1>6, <2>1, <2>2, <2>3
<1> HIDE DEF Sits, One
<1> USE DEF queueVars, histVars, taskVars
<1>7. {"get", "exited", "holdFrames", "finish", "createFlush", "create", "respawn", "pauseClear", "flush"} \cap (HandPcs \cup {"interrupt"}) = {}
  BY DEF HandPcs
<1>8. CASE StartGate \/ HoldSystem
  BY <1>4, <1>7, <1>8 DEF StartGate, HoldSystem, Sits, One
<1>9. CASE Join(Input)
  <2>1. AfterJoin(Input) \in {"create", "respawn", "finish"}
    BY DEF AfterJoin, Input, Life
  <2> QED BY <1>4, <1>7, <1>9, <2>1 DEF Join, Sits, One
<1>10. CASE Create
  BY <1>4, <1>7, <1>10 DEF Create, Sits, One
<1>11. CASE StartInterruption
  BY <1>4, <1>5, <1>7, <1>11 DEF StartInterruption, Sits, One
<1>12. CASE CancelProcessTask \/ CancelFrameInProgress
  BY <1>4, <1>5, <1>7, <1>12 DEF CancelProcessTask, CancelFrameInProgress, Sits, One
<1>13. CASE CreateFlush
  <2>1. ~procRunning
    BY <1>13 DEF CreateFlush, LoopInv, CreateAlone
  <2> QED BY <1>6, <1>13, <2>1 DEF CreateFlush, Sits, One
<1>14. CASE Respawn
  BY <1>4, <1>6, <1>7, <1>14 DEF Respawn, Sits, One
<1>15. CASE HoldFrames
  <2> DEFINE r == [go[Input] EXCEPT !.pc = "pauseClear", !.on = processEvent]
  <2>1. r.pc = "pauseClear" /\ r.frame = go[Input].frame /\ r.stop = go[Input].stop
    BY <1>1 DEF Goroutine
  <2>2. Walks(Input, "pauseClear")
    BY <1>1, <1>15, <2>1, UpdateWalks DEF HoldFrames
  <2> QED BY <1>3, <1>7, <1>15, <2>2 DEF HoldFrames, Sits, One
<1>16. CASE StartWatcher
  <2>1. go' = [go EXCEPT ![Input].pc = "finish", ![Watch].pc = "watching"]
        /\ UNCHANGED <<sent, inputQueue, procQueue, begun, baseDone, procRunning>>
    BY <1>16 DEF StartWatcher
  <2>2. DOMAIN go = 1..Len(go) /\ DOMAIN go' = 1..Len(go') /\ Len(go') \in Nat
    BY LenProperties DEF TypeInv, TypeOK, TaskOK
  <2>3. Len(go') = Len(go)
    <3>1. Len(go) \in Nat /\ Len(go') \in Nat /\ 1..Len(go') = 1..Len(go)
      BY <1>1, <2>1, <2>2
    <3> QED BY <3>1
  <2>4. \A h \in Goroutines : /\ go'[h].frame = go[h].frame /\ go'[h].stop = go[h].stop
                              /\ h \notin {Input, Watch} => go'[h].pc = go[h].pc
    BY <1>1, <2>1, <2>2 DEF Goroutine, Goroutines
  <2>5. go'[Input].pc = "finish"
    BY <1>1, <1>2, <2>1, <2>2 DEF Goroutine, Goroutines
  <2> QED BY <1>1, <1>2, <1>7, <2>1, <2>3, <2>4, <2>5
<1> QED BY <1>8, <1>9, <1>10, <1>11, <1>12, <1>13, <1>14, <1>15, <1>16 DEF InputStep

\* Nobody holds a frame but who held it.
Fewer == \A g \in Takers' : go'[g].pc \in HandPcs =>
             g \in Takers /\ go[g].pc \in HandPcs /\ go'[g].frame = go[g].frame

\* A frame that gets nowhere new.
Shrinks(f) == /\ Unsent(f)' => Unsent(f)
              /\ Waits(f)' => Waits(f)
              /\ Ready(f)' => Ready(f)
              /\ Begun(f)' => Begun(f)
              /\ \A g \in Takers' : Holds(g, f)' => g \in Takers /\ Holds(g, f)

\* It is still at one place.
LEMMA ShrinkOne ==
  ASSUME NEW f, OnePlace(f), Shrinks(f)
  PROVE  OnePlace(f)'
<1>1. /\ Unsent(f)' => ~Waits(f)' /\ ~Ready(f)' /\ ~Begun(f)'
      /\ Waits(f)' => ~Ready(f)' /\ ~Begun(f)'
      /\ Ready(f)' => ~Begun(f)'
  BY DEF OnePlace, Shrinks
<1>2. ASSUME NEW g \in Takers', Holds(g, f)'
      PROVE  ~Unsent(f)' /\ ~Waits(f)' /\ ~Ready(f)' /\ ~Begun(f)'
  <2>1. g \in Takers /\ Holds(g, f)
    BY <1>2 DEF Shrinks
  <2> QED BY <2>1 DEF OnePlace, Shrinks
<1>3. ASSUME NEW g \in Takers', NEW h \in Takers', Holds(g, f)', Holds(h, f)'
      PROVE  g = h
  BY <1>3 DEF OnePlace, Shrinks
<1> QED BY <1>1, <1>2, <1>3 DEF OnePlace

\* A step that carries no frame anywhere, though it may drop some.
LEMMA FewerInv ==
  ASSUME TypeInv, TypeInv', PlaceInv, Fewer, StopFlag', UNCHANGED <<inputQueue, begun>>,
         procQueue' \in {procQueue, reset(procQueue)}, \A f \in Frame : Unsent(f)' => Unsent(f)
  PROVE  PlaceInv'
<1>1. /\ inputQueue \in Queue /\ procQueue \in Queue /\ procQueue.other \in Seq(Frame)
      /\ Len(go) \in Nat /\ Len(go') \in Nat
  BY TypeInvGo DEF TypeInv, TypeOK, QueueOK, Queue, TaskOK
<1>2. /\ Tiered(procQueue)' /\ procQueue'.start = <<>> /\ procQueue'.system = <<>>
      /\ Distinct(procQueue.other)' /\ \A f \in Frame : Ready(f)' => Ready(f)
  <2>1. CASE procQueue' = procQueue
    BY <2>1 DEF PlaceInv, TierInv, Tiered, OnlyStarts, OnlySystem, OnlyOther, Distinct, Ready
  <2>2. CASE procQueue' = reset(procQueue)
    <3>1. /\ Tiered(reset(procQueue)) /\ reset(procQueue).other = keep(procQueue.other)
          /\ reset(procQueue).start = procQueue.start /\ reset(procQueue).system = procQueue.system
      BY <1>1, OtherTiers DEF PlaceInv, TierInv
    <3>2. /\ Distinct(keep(procQueue.other))
          /\ FramesOf(keep(procQueue.other)) = {f \in FramesOf(procQueue.other) : ~Interruptible(f)}
      BY <1>1, DistinctKeep, KeepProperties DEF PlaceInv
    <3>3. Tiered(procQueue') /\ Distinct(procQueue'.other)
      BY <2>2, <3>1, <3>2
    <3>4. procQueue'.start = <<>> /\ procQueue'.system = <<>>
      BY <2>2, <3>1 DEF PlaceInv, TierInv
    <3>5. \A f \in Frame : Ready(f)' => Ready(f)
      BY <2>2, <3>1, <3>2 DEF Ready
    <3> QED BY <3>3, <3>4, <3>5 DEF Tiered, OnlyStarts, OnlySystem, OnlyOther, Distinct
  <2> QED BY <2>1, <2>2
<1>3. Tiered(inputQueue)' /\ Distinct(inputQueue.other)'
  BY DEF PlaceInv, TierInv, Tiered, OnlyStarts, OnlySystem, OnlyOther, Distinct
<1>4. \A g \in Loops' : go'[g].pc \in HandPcs => ~isSystemFrame(go'[g].frame)
  <2> SUFFICES ASSUME NEW g \in Loops', go'[g].pc \in HandPcs PROVE ~isSystemFrame(go'[g].frame)
    OBVIOUS
  <2>1. g \in Takers' /\ g # Input
    BY DEF Takers, Loops, Input
  <2>2. g \in Takers /\ go[g].pc \in HandPcs /\ go'[g].frame = go[g].frame
    BY <2>1 DEF Fewer
  <2>3. g \in Loops
    BY <2>1, <2>2 DEF Takers
  <2> QED BY <2>2, <2>3 DEF PlaceInv, TierInv
<1>5. \A f \in Frame : Shrinks(f)
  BY <1>2 DEF Shrinks, Fewer, Holds, Waits, Begun
<1>6. \A f \in Frame : ~isSystemFrame(f) => OnePlace(f)'
  BY <1>5, ShrinkOne DEF PlaceInv
<1>7. TierInv'
  BY <1>2, <1>3, <1>4 DEF TierInv
<1> QED BY <1>2, <1>3, <1>6, <1>7 DEF PlaceInv

\* One goroutine changes.
LEMMA UpdateOne ==
  ASSUME TypeInv, TypeInv', NEW g \in Goroutines, NEW r, Update(g, r)
  PROVE  /\ Len(go') = Len(go) /\ Takers' = Takers /\ Loops' = Loops
         /\ \A h \in Goroutines : go'[h] = IF h = g THEN r ELSE go[h]
<1>1. DOMAIN go = Goroutines /\ go' = [go EXCEPT ![g] = r]
  BY LenProperties DEF TypeInv, TypeOK, TaskOK, Goroutines, Update
<1>2. Len(go') = Len(go)
  BY UpdateMoves DEF Moves
<1> QED BY <1>1, <1>2 DEF Goroutines, Takers, Loops

\* The goroutines as they are, none stopped and none started.
LEMMA FlagKept ==
  ASSUME TypeInv, StopFlag, Len(go') = Len(go), procRunning' = procRunning,
         \A h \in Loops : go[h].stop => go'[h].stop
  PROVE  StopFlag'
<1>1. Loops' = Loops
  BY DEF Loops
<1> QED BY <1>1 DEF StopFlag

\* A goroutine that walks on.
LEMMA WalkFewer ==
  ASSUME TypeInv, PlaceInv, NEW g \in Goroutines, NEW pc, Walks(g, pc), procRunning' = procRunning,
         pc \in HandPcs => go[g].pc \in HandPcs
  PROVE  Fewer /\ StopFlag'
<1>1. Takers' = Takers /\ Len(go') = Len(go) /\ Takers \subseteq Goroutines
  BY TypeInvGo DEF Walks, Moves, Takers, Loops
<1>2. Fewer
  BY <1>1 DEF Fewer, Walks, Moves
<1>3. StopFlag'
  BY <1>1, FlagKept DEF PlaceInv, Walks
<1> QED BY <1>2, <1>3

\* QueueFrame: a frame that was not sent now waits.
LEMMA QueuePlace ==
  ASSUME TypeInv, TypeInv', PlaceInv, NEW f \in Frame, QueueFrame(f)
  PROVE  PlaceInv'
<1>1. /\ inputQueue \in Queue /\ inputQueue.other \in Seq(Frame) /\ sent \in [Frame -> {"unsent", "opening", "queued", "refused"}]
  BY DEF TypeInv, TypeOK, QueueOK, Queue
<1>2. /\ sent[f] = "unsent" /\ inputQueue' = push(inputQueue, f)
      /\ UNCHANGED <<procQueue, go, procRunning, begun>>
      /\ sent'[f] \notin {"unsent", "refused"} /\ \A h \in Frame : h # f => sent'[h] = sent[h]
  BY <1>1 DEF QueueFrame, taskVars
<1>3. /\ Tiered(push(inputQueue, f))
      /\ isSystemFrame(f) => push(inputQueue, f).other = inputQueue.other
      /\ ~isSystemFrame(f) => push(inputQueue, f).other = Append(inputQueue.other, f)
  BY <1>1, PushTiers DEF PlaceInv, TierInv
<1>4. /\ ~isSystemFrame(f) => ~Waits(f) /\ ~Ready(f) /\ ~Begun(f) /\ \A g \in Takers : ~Holds(g, f)
  BY <1>2 DEF PlaceInv, OnePlace, Unsent
<1>5. Distinct(inputQueue'.other) /\ \A h \in Frame : Waits(h)' => Waits(h) \/ (h = f /\ ~isSystemFrame(f))
  <2>1. CASE isSystemFrame(f)
    BY <1>2, <1>3, <2>1 DEF PlaceInv, Waits
  <2>2. CASE ~isSystemFrame(f)
    <3>1. f \notin FramesOf(inputQueue.other) /\ Distinct(inputQueue.other)
      BY <1>4, <2>2 DEF PlaceInv, Waits
    <3>2. Distinct(Append(inputQueue.other, f))
      BY <1>1, <3>1, DistinctAppend
    <3>3. FramesOf(Append(inputQueue.other, f)) = FramesOf(inputQueue.other) \cup {f}
      BY <1>1, AppendTo
    <3>4. inputQueue'.other = Append(inputQueue.other, f)
      BY <1>2, <1>3, <2>2
    <3> QED BY <2>2, <3>2, <3>3, <3>4 DEF Waits
  <2> QED BY <2>1, <2>2
<1>6. TierInv' /\ StopFlag'
  <2>1. Tiered(inputQueue')
    BY <1>2, <1>3
  <2>2. Tiered(inputQueue)'
    BY <2>1 DEF Tiered, OnlyStarts, OnlySystem, OnlyOther
  <2>3. Tiered(procQueue)'
    BY <1>2 DEF PlaceInv, TierInv, Tiered, OnlyStarts, OnlySystem, OnlyOther
  <2> QED BY <1>2, <2>2, <2>3 DEF PlaceInv, TierInv, StopFlag, Loops
<1>7. ASSUME NEW h \in Frame, ~isSystemFrame(h) PROVE OnePlace(h)'
  <2>0. OnePlace(h)
    BY <1>7 DEF PlaceInv
  <2>1. CASE h # f
    <3>1. Shrinks(h)
      BY <1>2, <1>5, <2>1 DEF Shrinks, Unsent, Ready, Begun, Holds, Takers, Loops
    <3> QED BY <2>0, <3>1, ShrinkOne
  <2>2. CASE h = f
    <3>1. ~Unsent(h)' /\ ~Ready(h)' /\ ~Begun(h)' /\ \A g \in Takers' : ~Holds(g, h)'
      BY <1>2, <1>4, <1>7, <2>2 DEF Unsent, Ready, Begun, Holds, Takers, Loops
    <3> QED BY <3>1 DEF OnePlace
  <2> QED BY <2>1, <2>2
<1> QED BY <1>2, <1>5, <1>6, <1>7 DEF PlaceInv, Distinct

\* get: a frame that waits, or that is ready, is now held.
LEMMA PullPlace ==
  ASSUME TypeInv, TypeInv', PlaceInv, NEW g \in Takers, Pull(g)
  PROVE  PlaceInv'
<1> DEFINE q == QueueOf(g)
           f == head(q)
           r == [go[g] EXCEPT !.pc = IF g = Input THEN "gate" ELSE "take", !.frame = f]
<1>1. /\ g \in Goroutines /\ Takers \subseteq Goroutines /\ go[g] \in Goroutine
      /\ inputQueue \in Queue /\ procQueue \in Queue /\ q \in Queue /\ ~isEmpty(q)
  BY TypeInvGo DEF TypeInv, TypeOK, QueueOK, QueueOf, Pull, Takers
<1>2. /\ Update(g, r) /\ UNCHANGED <<sent, begun, procRunning>>
      /\ g = Input => inputQueue' = get(q) /\ procQueue' = procQueue
      /\ g # Input => procQueue' = get(q) /\ inputQueue' = inputQueue
  BY DEF Pull, QueueOf, taskVars, histVars
<1>3. f \in Frame
  BY <1>1, GetProperties
<1>4. Tiered(q) /\ Distinct(q.other) /\ q.other \in Seq(Frame)
  BY <1>1 DEF PlaceInv, TierInv, QueueOf, Queue
<1>5. /\ Tiered(get(q))
      /\ isSystemFrame(f) => get(q).other = q.other
      /\ ~isSystemFrame(f) => /\ get(q).start = q.start /\ get(q).system = q.system
                              /\ q.other # <<>> /\ f = Head(q.other) /\ get(q).other = Tail(q.other)
  BY <1>1, <1>4, GetTiers
<1>6. r.frame = f /\ r.pc \in HandPcs /\ r.stop = go[g].stop
  BY <1>1 DEF Goroutine, HandPcs
<1> HIDE DEF q, f, r
<1>7. /\ Takers' = Takers /\ Loops' = Loops /\ Len(go') = Len(go)
      /\ \A h \in Goroutines : go'[h] = IF h = g THEN r ELSE go[h]
  BY <1>1, <1>2, UpdateOne
<1>8. ~isSystemFrame(f) => /\ Distinct(get(q).other) /\ f \in FramesOf(q.other)
                           /\ FramesOf(get(q).other) = FramesOf(q.other) \ {f}
  BY <1>4, <1>5, DistinctTail
<1>9. g # Input => ~isSystemFrame(f)
  <2> SUFFICES ASSUME g # Input PROVE ~isSystemFrame(f)
    OBVIOUS
  <2>1. q = procQueue /\ q.start = <<>> /\ q.system = <<>>
    BY DEF q, QueueOf, PlaceInv, TierInv
  <2>2. q.other # <<>> /\ f = Head(q.other)
    BY <1>1, <2>1 DEF f, head, startsNext, systemNext, isEmpty
  <2>3. Head(q.other) = q.other[1] /\ 1 \in 1..Len(q.other)
    <3>1. Len(q.other) \in Nat /\ Len(q.other) # 0
      BY <1>4, <2>2
    <3> QED BY <1>4, <2>2, <3>1, HeadAndTail
  <2> QED BY <1>4, <2>2, <2>3 DEF Tiered, OnlyOther
<1>10. /\ Distinct(inputQueue'.other) /\ Distinct(procQueue'.other)
       /\ \A h \in Frame : /\ (Waits(h)' => Waits(h)) /\ (Ready(h)' => Ready(h))
                           /\ (h = f /\ ~isSystemFrame(f)) => /\ Waits(f) \/ Ready(f)
                                                              /\ ~Waits(h)' /\ ~Ready(h)'
  <2>1. CASE g = Input
    <3>1. inputQueue' = get(q) /\ procQueue' = procQueue /\ q = inputQueue
      BY <1>2, <2>1 DEF q, QueueOf
    <3>2. CASE isSystemFrame(f)
      BY <1>5, <3>1, <3>2 DEF PlaceInv, Waits, Ready
    <3>3. CASE ~isSystemFrame(f)
      BY <1>3, <1>8, <3>1, <3>3 DEF PlaceInv, OnePlace, Waits, Ready
    <3> QED BY <3>2, <3>3
  <2>2. CASE g # Input
    <3>1. procQueue' = get(q) /\ inputQueue' = inputQueue /\ q = procQueue
      BY <1>2, <2>2 DEF q, QueueOf
    <3> QED BY <1>3, <1>8, <1>9, <2>2, <3>1 DEF PlaceInv, OnePlace, Waits, Ready
  <2> QED BY <2>1, <2>2
<1>11. TierInv'
  <2>1. Tiered(inputQueue') /\ Tiered(procQueue')
    BY <1>2, <1>5 DEF PlaceInv, TierInv
  <2>2. Tiered(inputQueue)' /\ Tiered(procQueue)'
    BY <2>1 DEF Tiered, OnlyStarts, OnlySystem, OnlyOther
  <2>3. procQueue'.start = <<>> /\ procQueue'.system = <<>>
    <3>1. CASE g = Input
      BY <1>2, <3>1 DEF PlaceInv, TierInv
    <3>2. CASE g # Input
      BY <1>2, <1>5, <1>9, <3>2 DEF PlaceInv, TierInv, q, QueueOf
    <3> QED BY <3>1, <3>2
  <2>4. \A h \in Loops' : go'[h].pc \in HandPcs => ~isSystemFrame(go'[h].frame)
    <3> SUFFICES ASSUME NEW h \in Loops, go'[h].pc \in HandPcs PROVE ~isSystemFrame(go'[h].frame)
      BY <1>7
    <3>1. h \in Goroutines /\ h # Input
      BY TypeInvGo DEF Loops, Input
    <3> QED BY <1>6, <1>7, <1>9, <3>1 DEF PlaceInv, TierInv
  <2> QED BY <2>2, <2>3, <2>4 DEF TierInv
<1>12. StopFlag'
  <2>1. \A h \in Loops : go[h].stop => go'[h].stop
    BY <1>6, <1>7, TypeInvGo
  <2> QED BY <1>2, <1>7, <2>1, FlagKept DEF PlaceInv
<1>13. ASSUME NEW h \in Frame, ~isSystemFrame(h) PROVE OnePlace(h)'
  <2>0. OnePlace(h)
    BY <1>13 DEF PlaceInv
  <2>1. CASE h # f
    <3>1. Shrinks(h)
      BY <1>1, <1>2, <1>6, <1>7, <1>10, <2>1 DEF Shrinks, Unsent, Begun, Holds
    <3> QED BY <2>0, <3>1, ShrinkOne
  <2>2. CASE h = f
    <3>1. ~Unsent(h) /\ ~Begun(h) /\ \A k \in Takers : ~Holds(k, h)
      BY <1>10, <1>13, <2>0, <2>2 DEF OnePlace
    <3>2. ~Unsent(h)' /\ ~Begun(h)' /\ \A k \in Takers' : Holds(k, h)' => k = g
      BY <1>1, <1>2, <1>7, <3>1 DEF Unsent, Begun, Holds
    <3> QED BY <1>10, <1>13, <2>2, <3>2 DEF OnePlace
  <2> QED BY <2>1, <2>2
<1> QED BY <1>10, <1>11, <1>12, <1>13 DEF PlaceInv, Distinct

\* A frame that one goroutine holds is nowhere else and nobody else's.
LEMMA HeldAlone ==
  ASSUME TypeInv, PlaceInv, NEW g \in Takers, go[g].pc \in HandPcs, ~isSystemFrame(go[g].frame)
  PROVE  LET f == go[g].frame
         IN  /\ f \in Frame /\ ~Unsent(f) /\ ~Waits(f) /\ ~Ready(f) /\ ~Begun(f)
             /\ \A h \in Takers : Holds(h, f) => h = g
<1>1. go[g].frame \in Frame
  BY TypeInvGo DEF Takers
<1>2. OnePlace(go[g].frame) /\ Holds(g, go[g].frame)
  BY <1>1 DEF PlaceInv, Holds
<1> QED BY <1>1, <1>2 DEF OnePlace

\* The handler is called: a data or control frame that was held has begun.
LEMMA BeginPlace ==
  ASSUME TypeInv, TypeInv', PlaceInv, NEW g \in Takers, Begin(g) \/ BeginPause(g)
  PROVE  PlaceInv'
<1> DEFINE f == go[g].frame
<1>1. g \in Goroutines /\ Takers \subseteq Goroutines /\ go[g] \in Goroutine /\ begun \in Seq(Frame)
  BY TypeInvGo DEF Takers, TypeInv, TypeOK, HistoryOK
<1>2. /\ go[g].pc = "handle" /\ go[g].pc \in HandPcs /\ begun' = Append(begun, f)
      /\ UNCHANGED <<sent, inputQueue, procQueue, procRunning>>
  BY DEF Begin, BeginPause, Begins, queueVars, HandPcs
<1>3. f \in Frame
  BY <1>1, <1>2, TypeInvGo
<1>4. PICK r : Update(g, r) /\ r.pc \notin HandPcs /\ r.frame = f /\ r.stop = go[g].stop
  <2>1. CASE Begin(g)
    <3> DEFINE r == [go[g] EXCEPT !.pc = FirstPc(f)]
    <3>1. r.pc = FirstPc(f) /\ r.frame = f /\ r.stop = go[g].stop
      BY <1>1 DEF Goroutine
    <3>2. FirstPc(f) \notin HandPcs
      BY NextPcs
    <3>3. Update(g, r)
      BY <2>1 DEF Begin, Goto
    <3> HIDE DEF r
    <3> QED BY <3>1, <3>2, <3>3
  <2>2. CASE BeginPause(g)
    <3> DEFINE r == [go[g] EXCEPT !.pc = "pauseClear", !.on = processEvent]
    <3>1. r.pc = "pauseClear" /\ r.frame = f /\ r.stop = go[g].stop
      BY <1>1 DEF Goroutine
    <3>2. Update(g, r)
      BY <2>2 DEF BeginPause
    <3> HIDE DEF r
    <3> QED BY <3>1, <3>2 DEF HandPcs
  <2> QED BY <2>1, <2>2
<1> HIDE DEF f
<1>5. /\ Takers' = Takers /\ Loops' = Loops /\ Len(go') = Len(go)
      /\ \A h \in Goroutines : go'[h] = IF h = g THEN r ELSE go[h]
  BY <1>1, <1>4, UpdateOne
<1>6. FramesOf(begun') = FramesOf(begun) \cup {f}
  BY <1>1, <1>2, <1>3, AppendTo
<1>7. TierInv'
  <2>1. Tiered(inputQueue)' /\ Tiered(procQueue)' /\ procQueue'.start = <<>> /\ procQueue'.system = <<>>
    BY <1>2 DEF PlaceInv, TierInv, Tiered, OnlyStarts, OnlySystem, OnlyOther
  <2>2. \A h \in Loops' : go'[h].pc \in HandPcs => ~isSystemFrame(go'[h].frame)
    BY <1>4, <1>5, TypeInvGo DEF PlaceInv, TierInv
  <2> QED BY <2>1, <2>2 DEF TierInv
<1>8. StopFlag'
  <2>1. \A h \in Loops : go[h].stop => go'[h].stop
    BY <1>4, <1>5, TypeInvGo
  <2> QED BY <1>2, <1>5, <2>1, FlagKept DEF PlaceInv
<1>9. ASSUME NEW h \in Frame, ~isSystemFrame(h) PROVE OnePlace(h)'
  <2>0. OnePlace(h)
    BY <1>9 DEF PlaceInv
  <2>1. CASE h # f
    <3>1. Shrinks(h)
      BY <1>1, <1>2, <1>4, <1>5, <1>6, <2>1 DEF Shrinks, Unsent, Waits, Ready, Begun, Holds
    <3> QED BY <2>0, <3>1, ShrinkOne
  <2>2. CASE h = f
    <3>1. /\ ~Unsent(h) /\ ~Waits(h) /\ ~Ready(h)
          /\ \A k \in Takers : Holds(k, h) => k = g
      BY <1>1, <1>2, <1>9, <2>2, HeldAlone DEF f
    <3>2. /\ ~Unsent(h)' /\ ~Waits(h)' /\ ~Ready(h)'
          /\ \A k \in Takers' : ~Holds(k, h)'
      BY <1>1, <1>2, <1>4, <1>5, <3>1 DEF Unsent, Waits, Ready, Holds
    <3> QED BY <3>2 DEF OnePlace
  <2> QED BY <2>1, <2>2
<1> QED BY <1>2, <1>7, <1>8, <1>9 DEF PlaceInv, Distinct

\* A frame that was held is ready: handed on by the input goroutine, or given
\* back by a process goroutine that was stopped.
LEMMA ReadyPlace ==
  ASSUME TypeInv, TypeInv', PlaceInv, NEW g \in Takers, NEW pc, pc \notin HandPcs, Goto(g, pc),
         go[g].pc \in HandPcs, ~isSystemFrame(go[g].frame),
         procQueue' \in {push(procQueue, go[g].frame), requeue(procQueue, go[g].frame)},
         UNCHANGED <<sent, inputQueue, begun, procRunning>>
  PROVE  PlaceInv'
<1> DEFINE f == go[g].frame
           r == [go[g] EXCEPT !.pc = pc]
<1>1. /\ g \in Goroutines /\ Takers \subseteq Goroutines /\ go[g] \in Goroutine
      /\ procQueue \in Queue /\ procQueue.other \in Seq(Frame)
  BY TypeInvGo DEF Takers, TypeInv, TypeOK, QueueOK, Queue
<1>2. /\ f \in Frame /\ ~Unsent(f) /\ ~Waits(f) /\ ~Ready(f) /\ ~Begun(f)
      /\ \A h \in Takers : Holds(h, f) => h = g
  BY <1>1, HeldAlone
<1>3. Update(g, r) /\ r.pc = pc /\ r.frame = f /\ r.stop = go[g].stop
  BY <1>1 DEF Goto, Goroutine
<1>4. ~isSystemFrame(f) /\ procQueue' \in {push(procQueue, f), requeue(procQueue, f)}
  OBVIOUS
<1> HIDE DEF f, r
<1>5. /\ Takers' = Takers /\ Loops' = Loops /\ Len(go') = Len(go)
      /\ \A h \in Goroutines : go'[h] = IF h = g THEN r ELSE go[h]
  BY <1>1, <1>3, UpdateOne
<1>6. Tiered(procQueue) /\ Distinct(procQueue.other) /\ f \notin FramesOf(procQueue.other)
  BY <1>2 DEF PlaceInv, TierInv, Ready
<1>7. /\ Tiered(procQueue') /\ procQueue'.start = procQueue.start /\ procQueue'.system = procQueue.system
      /\ Distinct(procQueue'.other) /\ FramesOf(procQueue'.other) = FramesOf(procQueue.other) \cup {f}
  <2>1. CASE procQueue' = push(procQueue, f)
    <3>1. /\ Tiered(procQueue') /\ procQueue'.other = Append(procQueue.other, f)
          /\ procQueue'.start = procQueue.start /\ procQueue'.system = procQueue.system
      BY <1>1, <1>2, <1>4, <1>6, <2>1, PushTiers
    <3>2. Distinct(Append(procQueue.other, f))
      BY <1>1, <1>2, <1>6, DistinctAppend
    <3>3. FramesOf(Append(procQueue.other, f)) = FramesOf(procQueue.other) \cup {f}
      BY <1>1, <1>2, AppendTo
    <3> QED BY <3>1, <3>2, <3>3
  <2>2. CASE procQueue' = requeue(procQueue, f)
    <3>1. /\ Tiered(procQueue') /\ procQueue'.other = <<f>> \o procQueue.other
          /\ procQueue'.start = procQueue.start /\ procQueue'.system = procQueue.system
      BY <1>1, <1>2, <1>4, <1>6, <2>2, OtherTiers
    <3>2. /\ Distinct(<<f>> \o procQueue.other)
          /\ FramesOf(<<f>> \o procQueue.other) = FramesOf(procQueue.other) \cup {f}
      BY <1>1, <1>2, <1>6, DistinctRequeue
    <3> QED BY <3>1, <3>2
  <2> QED BY <1>4, <2>1, <2>2
<1>8. TierInv'
  <2>1. Tiered(procQueue)' /\ Tiered(inputQueue)' /\ procQueue'.start = <<>> /\ procQueue'.system = <<>>
    BY <1>7 DEF PlaceInv, TierInv, Tiered, OnlyStarts, OnlySystem, OnlyOther
  <2>2. \A h \in Loops' : go'[h].pc \in HandPcs => ~isSystemFrame(go'[h].frame)
    BY <1>3, <1>5, TypeInvGo DEF PlaceInv, TierInv
  <2> QED BY <2>1, <2>2 DEF TierInv
<1>9. StopFlag'
  <2>1. \A h \in Loops : go[h].stop => go'[h].stop
    BY <1>3, <1>5, TypeInvGo
  <2> QED BY <1>5, <2>1, FlagKept DEF PlaceInv
<1>10. ASSUME NEW h \in Frame, ~isSystemFrame(h) PROVE OnePlace(h)'
  <2>0. OnePlace(h)
    BY <1>10 DEF PlaceInv
  <2>1. CASE h # f
    <3>1. Shrinks(h)
      BY <1>1, <1>3, <1>5, <1>7, <2>1 DEF Shrinks, Unsent, Waits, Ready, Begun, Holds
    <3> QED BY <2>0, <3>1, ShrinkOne
  <2>2. CASE h = f
    <3>1. /\ ~Unsent(h)' /\ ~Waits(h)' /\ ~Begun(h)'
          /\ \A k \in Takers' : ~Holds(k, h)'
      BY <1>1, <1>2, <1>3, <1>5, <2>2 DEF Unsent, Waits, Begun, Holds
    <3> QED BY <3>1 DEF OnePlace
  <2> QED BY <2>1, <2>2
<1> QED BY <1>7, <1>8, <1>9, <1>10 DEF PlaceInv, Distinct

\* A goroutine that drains a queue.
LEMMA DrainPlace ==
  ASSUME TypeInv, TypeInv', PlaceInv, NEW g \in Takers,
         Drain(g) \/ (g # Input /\ (Top(g) \/ takeCurFrame(g) \/ giveBack(g)))
  PROVE  PlaceInv'
<1>1. /\ g \in Goroutines /\ Takers \subseteq Goroutines /\ go[g] \in Goroutine
      /\ g # Life /\ g # Watch /\ (g # Input => g \in Loops)
  BY TypeInvGo DEF Takers, Loops, Life, Watch, Input
<1> USE DEF queueVars, histVars, taskVars
<1>2. CASE Still /\ \E pc : Walks(g, pc) /\ Path(g, go[g].pc, pc)
  <2>1. PICK pc : Walks(g, pc) /\ Path(g, go[g].pc, pc)
    BY <1>2
  <2>2. pc \in HandPcs => go[g].pc \in HandPcs
    BY <2>1 DEF Path, HandPcs
  <2>3. Fewer /\ StopFlag'
    BY <1>1, <1>2, <2>1, <2>2, WalkFewer DEF Still
  <2> QED BY <1>2, <2>3, FewerInv DEF Still, Unsent
<1>3. CASE GetCheck(g)
  <2> DEFINE r == [go[g] EXCEPT !.pc = IF Stopped(g) THEN "exited" ELSE "pull",
                                !.frame = NoFrame, !.on = 0, !.woken = FALSE]
  <2>1. r.pc \notin HandPcs /\ r.stop = go[g].stop
    BY <1>1 DEF Goroutine, HandPcs
  <2>2. Update(g, r) /\ UNCHANGED <<sent, inputQueue, procQueue, begun, procRunning>>
    BY <1>3 DEF GetCheck
  <2> HIDE DEF r
  <2>3. /\ Takers' = Takers /\ Len(go') = Len(go)
        /\ \A h \in Goroutines : go'[h] = IF h = g THEN r ELSE go[h]
    BY <1>1, <2>2, UpdateOne
  <2>4. Fewer
    BY <1>1, <2>1, <2>3 DEF Fewer
  <2>5. StopFlag'
    <3>1. \A h \in Loops : go[h].stop => go'[h].stop
      BY <2>1, <2>3, TypeInvGo
    <3> QED BY <2>2, <2>3, <3>1, FlagKept DEF PlaceInv
  <2> QED BY <2>2, <2>4, <2>5, FewerInv DEF Unsent
<1>4. CASE BroadcastResetGate(g) \/ Flush(g)
  <2>1. PICK pc \in {"flush", "finish"} : Goto(g, pc)
    BY <1>4 DEF BroadcastResetGate, Flush
  <2>2. /\ UNCHANGED <<sent, inputQueue, begun, procRunning>>
        /\ procQueue' \in {procQueue, reset(procQueue)}
    BY <1>4 DEF BroadcastResetGate, Flush
  <2>3. Fewer /\ StopFlag'
    BY <1>1, <2>1, <2>2, GotoWalks, WalkFewer DEF HandPcs
  <2> QED BY <2>2, <2>3, FewerInv DEF Unsent
<1>5. CASE giveBack(g)
  <2>1. g # Input
    BY <1>5 DEF Drain, giveBack, GetCheck, Pull, GoIdle, Wake, Gate, WaitEvent,
       Select, ClearEvent, Unblock, Begin, BeginPause, Begins, PauseClear, BroadcastResetGate,
       Flush, Finish, applyPendingResume, ResumeGet, ResumeSet
  <2>2. /\ go[g].pc \in HandPcs /\ Goto(g, "exited") /\ "exited" \notin HandPcs
        /\ UNCHANGED <<sent, inputQueue, begun, procRunning>>
        /\ procQueue' = IF Interruptible(go[g].frame) THEN procQueue ELSE requeue(procQueue, go[g].frame)
    BY <1>5 DEF giveBack, HandPcs
  <2>3. ~isSystemFrame(go[g].frame)
    BY <1>1, <2>1, <2>2 DEF PlaceInv, TierInv
  <2>4. CASE Interruptible(go[g].frame)
    <3>1. Fewer /\ StopFlag'
      BY <1>1, <2>2, GotoWalks, WalkFewer
    <3> QED BY <2>2, <2>4, <3>1, FewerInv DEF Unsent
  <2>5. CASE ~Interruptible(go[g].frame)
    BY <2>2, <2>3, <2>5, ReadyPlace
  <2> QED BY <2>4, <2>5
<1> QED BY <1>1, <1>2, <1>3, <1>4, <1>5, DrainSteps, PullPlace, BeginPlace DEF Carries

\* No step, and no stuttering, breaks PlaceInv.
LEMMA PlaceNext == TypeInv /\ TypeInv' /\ LoopInv /\ PlaceInv /\ [Next]_vars => PlaceInv'
<1> SUFFICES ASSUME TypeInv, TypeInv', LoopInv, PlaceInv, [Next]_vars PROVE PlaceInv'
  OBVIOUS
<1>1. /\ {Life, Watch, Input} \subseteq Goroutines /\ Loops \subseteq Goroutines /\ Len(go) \in Nat
      /\ \A h \in Goroutines : go[h] \in Goroutine
  BY TypeInvGo
<1>2. Input \notin Loops /\ Life \notin Loops /\ Watch \notin Loops
  BY DEF Input, Life, Watch, Loops
<1> USE DEF queueVars, histVars, taskVars
<1>3. ASSUME NEW f \in Frame, Send(f) PROVE PlaceInv'
  <2>1. CASE RefuseFrame(f) \/ OpenOnStart(f)
    <3>1. UNCHANGED <<inputQueue, procQueue, begun, go, procRunning>>
      BY <2>1 DEF RefuseFrame, OpenOnStart
    <3>2. Fewer /\ StopFlag'
      BY <3>1 DEF Fewer, Takers, StopFlag, Loops, PlaceInv
    <3>3. \A h \in Frame : Unsent(h)' => Unsent(h)
      BY <2>1 DEF RefuseFrame, OpenOnStart, Unsent, TypeInv, TypeOK, QueueOK
    <3> QED BY <3>1, <3>2, <3>3, FewerInv
  <2> QED BY <1>3, <2>1, QueuePlace DEF Send
<1>4. CASE Setup
  <2>1. /\ go' = [go EXCEPT ![Life].pc = "settingUp", ![Input].pc = "startGate"]
        /\ UNCHANGED <<sent, inputQueue, procQueue, begun, procRunning>>
    BY <1>4 DEF Setup
  <2>2. DOMAIN go = 1..Len(go) /\ DOMAIN go' = 1..Len(go') /\ Len(go') \in Nat
    BY LenProperties DEF TypeInv, TypeOK, TaskOK
  <2>3. Len(go') = Len(go)
    <3>1. Len(go) \in Nat /\ Len(go') \in Nat /\ 1..Len(go') = 1..Len(go)
      BY <1>1, <2>1, <2>2
    <3> QED BY <3>1
  <2>4. \A h \in Goroutines : /\ go'[h].frame = go[h].frame /\ go'[h].stop = go[h].stop
                              /\ go'[h].pc \in {go[h].pc, "settingUp", "startGate"}
    BY <1>1, <2>1, <2>2 DEF Goroutine, Goroutines
  <2>5. Fewer
    BY <1>1, <2>3, <2>4 DEF Fewer, Takers, Loops, HandPcs
  <2>6. StopFlag'
    BY <1>1, <2>1, <2>3, <2>4, FlagKept DEF PlaceInv
  <2> QED BY <2>1, <2>5, <2>6, FewerInv DEF Unsent
<1>5. CASE WatchStep \/ SetupFinished \/ Cleanup \/ LifeStep
  <2>1. Aside
    BY <1>5, AsideSteps
  <2>2. /\ UNCHANGED <<sent, inputQueue, procQueue, begun>> /\ Takers' = Takers /\ Loops' = Loops
        /\ Len(go') = Len(go) /\ (procRunning' => procRunning)
    BY <2>1 DEF Aside, Takers, Loops
  <2>3. Fewer
    BY <2>1, <2>2 DEF Fewer, Aside, Takers
  <2>4. StopFlag'
    <3>1. \A h \in Loops : (go[h].stop \/ (procRunning /\ ~procRunning' /\ h = Len(go))) => go'[h].stop
      BY <2>1 DEF Aside
    <3> QED BY <2>2, <3>1 DEF StopFlag, PlaceInv
  <2> QED BY <2>2, <2>3, <2>4, FewerInv DEF Unsent
<1>6. CASE ProcessStep
  <2>1. PICK g \in Loops : Drain(g) \/ Top(g) \/ takeCurFrame(g) \/ giveBack(g)
    BY <1>6 DEF ProcessStep, LoopStep
  <2> QED BY <1>2, <2>1, DrainPlace DEF Takers
<1>7. CASE InputStep /\ Drain(Input)
  BY <1>7, DrainPlace DEF Takers
<1>8. CASE HandOn
  <2>1. /\ go[Input].pc \in HandPcs /\ Goto(Input, "get") /\ "get" \notin HandPcs
        /\ ~isSystemFrame(go[Input].frame) /\ procQueue' = push(procQueue, go[Input].frame)
        /\ UNCHANGED <<sent, inputQueue, begun, procRunning>>
    BY <1>8 DEF HandOn, HandPcs
  <2> QED BY <2>1, ReadyPlace DEF Takers
<1>9. CASE InputStep /\ ~Drain(Input) /\ ~HandOn
  <2>1. /\ UNCHANGED <<sent, inputQueue, begun, baseDone>> /\ procQueue' \in {procQueue, reset(procQueue)}
        /\ \A h \in Goroutines : go'[h].frame = go[h].frame
        /\ \A h \in Loops : go'[h].pc = go[h].pc
        /\ \A h \in Loops :
               (go[h].stop \/ (procRunning /\ ~procRunning' /\ h = Len(go))) => go'[h].stop
        /\ go'[Input].pc \notin HandPcs
        /\ \/ Len(go') = Len(go) /\ (procRunning' => procRunning)
           \/ /\ Len(go') = Len(go) + 1 /\ ~procRunning /\ procRunning'
              /\ go'[Len(go) + 1] = goroutine("top")
    BY <1>9, InputKeeps
  <2>2. /\ \A h \in Loops' : h \in Loops \/ (h = Len(go) + 1 /\ h = Len(go') /\ procRunning')
        /\ \A h \in Loops' : h \notin Loops => go'[h].pc \notin HandPcs
    <3>1. goroutine("top").pc \notin HandPcs
      BY DEF goroutine, HandPcs
    <3>2. \A h \in Loops' : h \in Loops \/ (h = Len(go) + 1 /\ Len(go') = Len(go) + 1 /\ Len(go') # Len(go))
      BY <1>1, <2>1 DEF Loops
    <3> QED BY <1>1, <2>1, <3>1, <3>2
  <2>3. Fewer
    BY <1>1, <2>1, <2>2 DEF Fewer, Takers
  <2>4. StopFlag'
    <3> SUFFICES ASSUME NEW h \in Loops' PROVE go'[h].stop \/ (procRunning' /\ h = Len(go'))
      BY DEF StopFlag
    <3>1. CASE h \in Loops
      <4>1. go[h].stop \/ (procRunning /\ h = Len(go))
        BY <3>1 DEF StopFlag, PlaceInv
      <4> QED BY <2>1, <3>1, <4>1
    <3> QED BY <2>2, <3>1
  <2> QED BY <2>1, <2>3, <2>4, FewerInv DEF Unsent
<1>10. CASE UNCHANGED vars
  <2>1. UNCHANGED <<sent, inputQueue, procQueue, begun, go, procRunning>>
    BY <1>10 DEF vars
  <2>2. Fewer /\ StopFlag'
    BY <2>1 DEF Fewer, Takers, StopFlag, Loops, PlaceInv
  <2> QED BY <2>1, <2>2, FewerInv DEF Unsent
<1> QED BY <1>3, <1>4, <1>5, <1>6, <1>7, <1>8, <1>9, <1>10 DEF Next

\* A new processor holds no frame.
LEMMA PlaceInit == Init => PlaceInv
<1> SUFFICES ASSUME Init PROVE PlaceInv
  OBVIOUS
<1>1. TierInv /\ StopFlag
  BY DEF Init, newQueue, goroutine, TierInv, Tiered, OnlyStarts, OnlySystem, OnlyOther, StopFlag, Loops
<1>2. Distinct(inputQueue.other) /\ Distinct(procQueue.other)
  BY DEF Init, newQueue, Distinct
<1>3. \A f \in Frame : OnePlace(f)
  <2>1. Takers = {Input} /\ go[Input].pc = "none"
    BY DEF Init, goroutine, Takers, Loops, Input
  <2>2. \A f : ~Waits(f) /\ ~Ready(f) /\ ~Begun(f)
    BY DEF Init, newQueue, Waits, Ready, Begun, FramesOf
  <2> QED BY <2>1, <2>2 DEF OnePlace, Holds, HandPcs
<1> QED BY <1>1, <1>2, <1>3 DEF PlaceInv

-----------------------------------------------------------------------------
(***************************************************************************)
(* Cancellation.  From the moment the handler of a CancelFrame has begun   *)
(* until that of a StartFrame or of an interruption does, the input        *)
(* goroutine has still to stop the process goroutine, or there is none to  *)
(* stop and nothing under way that would start one; a goroutine it is      *)
(* waiting for is then the one that the CancelFrame itself stopped.        *)
(***************************************************************************)
Canceled(i) == /\ Kind[begun[i]] = "cancel"
               /\ \A k \in DOMAIN begun : k > i => Kind[begun[k]] \notin {"start", "interruption"}

Restarts == {"interrupt", "create", "createFlush", "respawn"}

Stopping(i) ==
    \/ go[Input].pc = "stopTask" /\ go[Input].frame = begun[i]
    \/ /\ ~procRunning /\ go[Input].pc \notin Restarts
       /\ go[Input].pc = "join" => go[Input].frame = begun[i]

CancelInv == \A i \in DOMAIN begun : Canceled(i) => Stopping(i)

\* A step in which nothing begins and the input goroutine neither starts nor
\* stops a process goroutine.
LEMMA CancelQuiet ==
  ASSUME CancelInv, begun' = begun, procRunning' => procRunning,
         \/ go'[Input].pc = go[Input].pc /\ go'[Input].frame = go[Input].frame
         \/ go[Input].pc # "stopTask" /\ go'[Input].pc \notin Restarts \cup {"join"}
  PROVE  CancelInv'
<1> SUFFICES ASSUME NEW i \in DOMAIN begun, Canceled(i) PROVE Stopping(i)'
  BY DEF CancelInv, Canceled
<1>1. Stopping(i)
  BY DEF CancelInv
<1> QED BY <1>1 DEF Stopping

\* One more frame has begun.
LEMMA CancelAppend ==
  ASSUME TypeInv, NEW f \in Frame, begun' = Append(begun, f),
         Kind[f] = "cancel" => \A i : i = Len(begun) + 1 => Stopping(i)',
         Kind[f] \notin {"start", "interruption"} =>
             \A i \in DOMAIN begun : Canceled(i) => Stopping(i)'
  PROVE  CancelInv'
<1>1. begun \in Seq(Frame) /\ Len(begun) \in Nat /\ DOMAIN begun = 1..Len(begun)
  BY LenProperties DEF TypeInv, TypeOK, HistoryOK
<1>2. /\ begun' \in Seq(Frame) /\ Len(begun') = Len(begun) + 1 /\ begun'[Len(begun) + 1] = f
      /\ \A k \in 1..Len(begun) : begun'[k] = begun[k]
  BY <1>1, AppendTo
<1>3. DOMAIN begun' = 1..(Len(begun) + 1)
  BY <1>2, LenProperties
<1> SUFFICES ASSUME NEW i \in DOMAIN begun', Canceled(i)' PROVE Stopping(i)'
  BY DEF CancelInv
<1>4. CASE i = Len(begun) + 1
  BY <1>2, <1>4 DEF Canceled
<1>5. CASE i # Len(begun) + 1
  <2>1. i \in 1..Len(begun) /\ Len(begun) + 1 > i /\ Len(begun) + 1 \in DOMAIN begun'
    BY <1>1, <1>3, <1>5
  <2>2. Kind[f] \notin {"start", "interruption"}
    BY <1>2, <2>1 DEF Canceled
  <2>3. \A k \in DOMAIN begun : k \in DOMAIN begun' /\ begun'[k] = begun[k]
    BY <1>1, <1>2, <1>3
  <2>4. Canceled(i)
    BY <1>1, <2>1, <2>3 DEF Canceled
  <2> QED BY <1>1, <2>1, <2>2, <2>4
<1> QED BY <1>4, <1>5

\* No step, and no stuttering, breaks CancelInv.
LEMMA CancelNext == TypeInv /\ TypeInv' /\ LoopInv /\ PlaceInv /\ CancelInv /\ [Next]_vars => CancelInv'
<1> SUFFICES ASSUME TypeInv, TypeInv', LoopInv, PlaceInv, CancelInv, [Next]_vars PROVE CancelInv'
  OBVIOUS
<1>1. /\ {Life, Watch, Input} \subseteq Goroutines /\ Loops \subseteq Goroutines /\ Len(go) \in Nat
      /\ \A h \in Goroutines : go[h] \in Goroutine
  BY TypeInvGo
<1>2. Input \notin Loops /\ Life \notin Loops /\ Watch \notin Loops /\ Input # Life /\ Input # Watch
  BY DEF Input, Life, Watch, Loops
<1> USE DEF queueVars, histVars, taskVars
<1>3. ASSUME NEW f \in Frame, Send(f) PROVE CancelInv'
  BY <1>3, CancelQuiet DEF Send, QueueFrame, RefuseFrame, OpenOnStart
<1>4. CASE Setup
  <2>1. DOMAIN go = Goroutines
    BY LenProperties DEF TypeInv, TypeOK, TaskOK, Goroutines
  <2>2. go'[Input].pc = "startGate"
    BY <1>1, <1>2, <1>4, <2>1 DEF Setup, Goroutine
  <2>3. go[Input].pc = "none"
    BY <1>4 DEF Setup, LoopInv, NotYet
  <2> QED BY <1>4, <2>2, <2>3, CancelQuiet DEF Setup, Restarts
<1>5. CASE WatchStep \/ SetupFinished \/ Cleanup \/ LifeStep
  <2>1. Aside
    BY <1>5, AsideSteps
  <2> QED BY <2>1, CancelQuiet DEF Aside
<1>6. ASSUME NEW g \in Takers, Drain(g) \/ (g # Input /\ (Top(g) \/ takeCurFrame(g) \/ giveBack(g)))
      PROVE  CancelInv'
  <2>1. g \in Goroutines /\ g # Life /\ g # Watch /\ go[g] \in Goroutine /\ (g # Input => g \in Loops)
    BY <1>1, <1>2 DEF Takers, Loops, Life, Watch
  <2>2. PICK pc : Moves(g, pc)
    BY <1>6, <2>1, DrainMoves
  <2>3. UNCHANGED <<procRunning, baseDone>>
    BY <1>6, <2>1, DrainMoves
  <2>4. g # Input => go'[Input].pc = go[Input].pc /\ go'[Input].frame = go[Input].frame
    <3> SUFFICES ASSUME g # Input PROVE go'[Input].pc = go[Input].pc /\ go'[Input].frame = go[Input].frame
      OBVIOUS
    <3>1. CASE \E r : Update(g, r)
      BY <1>1, <2>1, <3>1, UpdateOne
    <3>2. CASE \E p : Walks(g, p)
      BY <1>1, <3>2 DEF Walks, Moves
    <3> QED BY <1>6, <2>1, <3>1, <3>2, DrainSteps DEF Carries, GetCheck, Pull, giveBack, Begin, BeginPause,
               BroadcastResetGate, Flush, Goto
  <2>5. CASE Begin(g) \/ BeginPause(g)
    <3>1. go[g].pc = "handle" /\ go[g].frame \in Frame /\ begun' = Append(begun, go[g].frame)
      BY <2>1, <2>5, TypeInvGo DEF Begin, BeginPause, Begins, HandPcs
    <3>2. CASE g # Input
      <4>1. ~isSystemFrame(go[g].frame)
        BY <2>1, <3>1, <3>2 DEF PlaceInv, TierInv, HandPcs
      <4>2. Kind[go[g].frame] # "cancel"
        BY <4>1 DEF isSystemFrame, SystemKinds
      <4>3. \A i \in DOMAIN begun : Canceled(i) => Stopping(i)'
        <5> SUFFICES ASSUME NEW i \in DOMAIN begun, Canceled(i) PROVE Stopping(i)'
          OBVIOUS
        <5>1. Stopping(i)
          BY DEF CancelInv
        <5>2. begun'[i] = begun[i]
          BY <3>1, LenProperties, AppendTo DEF TypeInv, TypeOK, HistoryOK
        <5> QED BY <2>3, <2>4, <3>2, <5>1, <5>2 DEF Stopping
      <4> QED BY <3>1, <4>2, <4>3, CancelAppend
    <3>3. CASE g = Input
      <4> DEFINE f == go[Input].frame
      <4>1. go'[Input].frame = f /\ go'[Input].pc \in {FirstPc(f), "pauseClear"} /\ (Kind[f] = "cancel" => go'[Input].pc = FirstPc(f))
        <5>1. CASE Begin(Input)
          BY <1>1, <5>1, GotoWalks DEF Begin, Walks, Moves
        <5>2. CASE BeginPause(Input)
          <6> DEFINE r == [go[Input] EXCEPT !.pc = "pauseClear", !.on = processEvent]
          <6>1. r.pc = "pauseClear" /\ r.frame = f
            BY <1>1 DEF Goroutine
          <6>2. Update(Input, r) /\ Kind[f] # "cancel"
            BY <5>2 DEF BeginPause, Pauses
          <6> HIDE DEF r
          <6> QED BY <1>1, <6>1, <6>2, UpdateOne
        <5> QED BY <2>5, <3>3, <5>1, <5>2
      <4>2. f \in Frame /\ begun' = Append(begun, f) /\ go[Input].pc = "handle"
        BY <3>1, <3>3
      <4> HIDE DEF f
      <4>3. ASSUME Kind[f] = "cancel" PROVE \A i : i = Len(begun) + 1 => Stopping(i)'
        <5>1. FirstPc(f) = "stopTask"
          BY <4>3 DEF FirstPc
        <5>2. begun'[Len(begun) + 1] = f
          BY <4>2, AppendTo DEF TypeInv, TypeOK, HistoryOK
        <5> QED BY <4>1, <4>3, <5>1, <5>2 DEF Stopping
      <4>4. ASSUME Kind[f] \notin {"start", "interruption"}, NEW i \in DOMAIN begun, Canceled(i)
            PROVE  Stopping(i)'
        <5>1. FirstPc(f) \in {"stopTask", "withdraw", "resetGate", "finish"}
          BY <4>4 DEF FirstPc
        <5>2. Stopping(i)
          BY <4>4 DEF CancelInv
        <5>3. ~procRunning
          BY <4>2, <5>2 DEF Stopping
        <5> QED BY <2>3, <4>1, <5>1, <5>3 DEF Stopping, Restarts
      <4> QED BY <4>2, <4>3, <4>4, CancelAppend
    <3> QED BY <3>2, <3>3
  <2>6. CASE ~Begin(g) /\ ~BeginPause(g)
    <3>1. begun' = begun
      BY <1>6, <2>1, <2>6, DrainSteps DEF Still, Carries, GetCheck, Pull, giveBack, BroadcastResetGate, Flush
    <3>2. CASE g # Input
      BY <2>3, <2>4, <3>1, <3>2, CancelQuiet
    <3>3. CASE g = Input
      <4>1. go[Input].pc # "stopTask" /\ go'[Input].pc \notin Restarts \cup {"join"}
        <5>1. CASE \E p : Walks(Input, p) /\ Path(Input, go[Input].pc, p)
          BY <5>1 DEF Walks, Moves, Path, HandPcs, Restarts
        <5>2. CASE GetCheck(Input)
          <6>1. go'[Input].pc \in {"exited", "pull"}
            <7> DEFINE r == [go[Input] EXCEPT !.pc = IF Stopped(Input) THEN "exited" ELSE "pull",
                                !.frame = NoFrame, !.on = 0, !.woken = FALSE]
            <7>1. r.pc \in {"exited", "pull"}
              BY <1>1 DEF Goroutine
            <7>2. Update(Input, r)
              BY <5>2 DEF GetCheck
            <7> HIDE DEF r
            <7> QED BY <1>1, <7>1, <7>2, UpdateOne
          <6> QED BY <5>2, <6>1 DEF GetCheck, Restarts
        <5>3. CASE Pull(Input)
          <6>1. go'[Input].pc = "gate"
            <7> DEFINE r == [go[Input] EXCEPT !.pc = IF Input = Input THEN "gate" ELSE "take",
                                              !.frame = head(QueueOf(Input))]
            <7>1. r.pc = "gate"
              BY <1>1 DEF Goroutine
            <7> QED BY <1>1, <5>3, <7>1, UpdateMoves DEF Pull, Moves
          <6> QED BY <5>3, <6>1 DEF Pull, Restarts
        <5>4. CASE BroadcastResetGate(Input) \/ Flush(Input)
          <6>1. go'[Input].pc \in {"flush", "finish"}
            BY <1>1, <5>4, GotoMoves DEF BroadcastResetGate, Flush, Moves
          <6> QED BY <5>4, <6>1 DEF BroadcastResetGate, Flush, Restarts
        <5>5. CASE giveBack(Input)
          <6>1. go'[Input].pc = "exited"
            BY <1>1, <5>5, GotoMoves DEF giveBack, Moves
          <6> QED BY <5>5, <6>1 DEF giveBack, Restarts
        <5> QED BY <1>6, <2>1, <2>6, <3>3, <5>1, <5>2, <5>3, <5>4, <5>5, DrainSteps DEF Carries
      <4> QED BY <2>3, <3>1, <4>1, CancelQuiet
    <3> QED BY <3>2, <3>3
  <2> QED BY <2>5, <2>6
<1>7. CASE ProcessStep
  <2>1. PICK g \in Loops : Drain(g) \/ Top(g) \/ takeCurFrame(g) \/ giveBack(g)
    BY <1>7 DEF ProcessStep, LoopStep
  <2> QED BY <1>2, <1>6, <2>1 DEF Takers
<1>8. CASE Drain(Input)
  BY <1>6, <1>8 DEF Takers
<1>9. ASSUME NEW pc, Goto(Input, pc), UNCHANGED <<begun, procRunning>>,
             go[Input].pc # "stopTask", pc \notin Restarts \cup {"join"}
      PROVE  CancelInv'
  <2>1. go'[Input].pc = pc
    BY <1>1, <1>9, GotoMoves DEF Moves
  <2> QED BY <1>9, <2>1, CancelQuiet
<1>10. CASE StartGate \/ HandOn \/ HoldSystem
  <2>1. PICK pc \in {"get", "exited", "holdFrames"} : Goto(Input, pc)
    BY <1>10 DEF StartGate, HandOn, HoldSystem
  <2>2. UNCHANGED <<begun, procRunning>> /\ go[Input].pc # "stopTask"
    BY <1>10 DEF StartGate, HandOn, HoldSystem
  <2> QED BY <1>9, <2>1, <2>2 DEF Restarts
<1>11. CASE HoldFrames
  <2> DEFINE r == [go[Input] EXCEPT !.pc = "pauseClear", !.on = processEvent]
  <2>1. r.pc = "pauseClear"
    BY <1>1 DEF Goroutine
  <2>2. go'[Input].pc = "pauseClear"
    BY <1>1, <1>11, <2>1, UpdateMoves DEF HoldFrames, Moves
  <2> QED BY <1>11, <2>2, CancelQuiet DEF HoldFrames, Restarts
<1>12. CASE StartWatcher
  <2>1. DOMAIN go = Goroutines
    BY LenProperties DEF TypeInv, TypeOK, TaskOK, Goroutines
  <2>2. go'[Input].pc = "finish"
    BY <1>1, <1>2, <1>12, <2>1 DEF StartWatcher, Goroutine
  <2> QED BY <1>12, <2>2, CancelQuiet DEF StartWatcher, Restarts
<1>13. CASE StartInterruption \/ Create \/ CreateFlush \/ Respawn
  <2>1. go[Input].pc \in Restarts /\ begun' = begun
    BY <1>13 DEF StartInterruption, Create, CreateFlush, Respawn, Restarts
  <2>2. \A i \in DOMAIN begun : ~Canceled(i)
    BY <2>1 DEF CancelInv, Stopping, Restarts
  <2> QED BY <2>1, <2>2 DEF CancelInv, Canceled
<1>14. CASE CancelProcessTask
  <2>1. StopProcessTask(Input, "finish") /\ begun' = begun /\ go[Input].pc = "stopTask"
    BY <1>14 DEF CancelProcessTask
  <2>2. /\ go'[Input].pc = IF procRunning THEN "join" ELSE "finish"
        /\ go'[Input].frame = go[Input].frame /\ ~procRunning'
    BY <1>1, <2>1, StopShape
  <2> SUFFICES ASSUME NEW i \in DOMAIN begun, Canceled(i) PROVE Stopping(i)'
    BY <2>1 DEF CancelInv, Canceled
  <2>3. Stopping(i)
    BY DEF CancelInv
  <2> QED BY <2>1, <2>2, <2>3 DEF Stopping, Restarts
<1>15. CASE CancelFrameInProgress
  <2>1. begun' = begun /\ go[Input].pc = "withdraw"
    BY <1>15 DEF CancelFrameInProgress
  <2> SUFFICES ASSUME NEW i \in DOMAIN begun, Canceled(i) PROVE Stopping(i)'
    BY <2>1 DEF CancelInv, Canceled
  <2>2. ~procRunning
    BY <2>1 DEF CancelInv, Stopping
  <2>3. Goto(Input, "finish") /\ UNCHANGED procRunning
    BY <1>15, <2>2 DEF CancelFrameInProgress, StopProcessTask
  <2>4. go'[Input].pc = "finish"
    BY <1>1, <2>3, GotoMoves DEF Moves
  <2> QED BY <2>2, <2>3, <2>4 DEF Stopping, Restarts
<1>16. CASE Join(Input)
  <2>1. begun' = begun /\ go[Input].pc = "join" /\ Goto(Input, AfterJoin(Input)) /\ procRunning' = procRunning
    BY <1>16 DEF Join
  <2> SUFFICES ASSUME NEW i \in DOMAIN begun, Canceled(i) PROVE Stopping(i)'
    BY <2>1 DEF CancelInv, Canceled
  <2>2. ~procRunning /\ go[Input].frame = begun[i] /\ Kind[begun[i]] = "cancel"
    BY <2>1 DEF CancelInv, Stopping, Canceled
  <2>3. AfterJoin(Input) = "finish"
    BY <1>2, <2>2 DEF AfterJoin
  <2>4. go'[Input].pc = "finish"
    BY <1>1, <2>1, <2>3, GotoMoves DEF Moves
  <2> QED BY <2>1, <2>2, <2>4 DEF Stopping, Restarts
<1>17. CASE UNCHANGED vars
  BY <1>17, CancelQuiet DEF vars
<1> QED BY <1>3, <1>4, <1>5, <1>7, <1>8, <1>10, <1>11, <1>12, <1>13, <1>14, <1>15, <1>16, <1>17 DEF Next, InputStep

\* After a CancelFrame, until a StartFrame or an interruption, no data or control
\* frame is handled, whatever was queued, paused or withdrawn before.
THEOREM CancelIsFinalHolds == Spec => []CancelIsFinal
<1>1. Init => CancelInv
  BY DEF Init, CancelInv
<1>2. TypeInv /\ LoopInv /\ CancelInv => CancelIsFinal
  <2> SUFFICES ASSUME TypeInv, LoopInv, CancelInv, ~baseDone, NEW i \in DOMAIN begun,
                      Kind[begun[i]] = "cancel", BaseDone(begun[i]),
                      \A k \in DOMAIN begun : k > i => Kind[begun[k]] \notin {"start", "interruption"},
                      NEW g \in Loops
               PROVE  go[g].pc \notin HandlerPcs
    BY DEF CancelIsFinal
  <2>1. Stopping(i)
    BY DEF CancelInv, Canceled
  <2>2. go[Input].frame = begun[i] => go[Input].pc \notin Handling
    BY TypeInvGo DEF BaseDone
  <2>3. "stopTask" \in Handling /\ "join" \in Handling
    BY DEF Handling, HandlerPcs
  <2>4. ~procRunning /\ go[Input].pc # "join"
    BY <2>1, <2>2, <2>3 DEF Stopping
  <2>5. go[g].pc = "exited"
    BY <2>4 DEF LoopInv, NoneLeft
  <2> QED BY <2>5 DEF HandlerPcs
<1> QED BY <1>1, <1>2, TypeInit, TypeNext, LoopInit, LoopNext, PlaceInit, PlaceNext, CancelNext, PTL DEF Spec

-----------------------------------------------------------------------------
(***************************************************************************)
(* What an interruption drops.  A frame that was queued when an            *)
(* interruption replaced the process goroutine may still sit in the queue, *)
(* or in the hands of the goroutine that is being stopped.  In the queue   *)
(* it is there only until the flush that has to come (Refill: before a     *)
(* goroutine is started; a flush by the goroutine itself; or never, once   *)
(* baseCtx is done, when nothing is made current any more); in a hand it   *)
(* is with a goroutine whose context is canceled and which has still to    *)
(* look at it.                                                             *)
(***************************************************************************)
Refill == /\ ~procRunning /\ go[Input].pc \in {"join", "create", "createFlush"}
          /\ go[Input].pc = "join" => Kind[go[Input].frame] = "interruption"

FlushDue == baseDone \/ Refill \/ \E g \in Loops : go[g].pc = "flush"

GivenUp(g) == g \in Loops /\ (go[g].pc = "giveBack" \/ (go[g].pc = "take" /\ Stopped(g)))

Gone(f) == /\ ~isSystemFrame(f) /\ Interruptible(f)
           /\ ~Unsent(f) /\ ~Waits(f) /\ ~Begun(f)
           /\ \A g \in Takers : Holds(g, f) => GivenUp(g)
           /\ Ready(f) => FlushDue

IntKind == go[Input].pc = "interrupt" => Kind[go[Input].frame] = "interruption"

DropInv == IntKind /\ \A f \in dropped : Gone(f)

\* A frame that was dropped and gets nowhere new.
LEMMA GoneKept ==
  ASSUME NEW f, Gone(f),
         Unsent(f)' => Unsent(f), Waits(f)' => Waits(f), Begun(f)' => Begun(f),
         \A g \in Takers' : Holds(g, f)' => g \in Takers /\ Holds(g, f),
         \A g \in Takers' : g \in Takers /\ Holds(g, f) /\ GivenUp(g) => (Holds(g, f)' => GivenUp(g)'),
         Ready(f)' => Ready(f) /\ (FlushDue => FlushDue')
  PROVE  Gone(f)'
<1>1. \A g \in Takers' : Holds(g, f)' => GivenUp(g)'
  BY DEF Gone
<1> QED BY <1>1 DEF Gone

\* Nothing but the flush itself takes it off the way.
LEMMA DueKept ==
  ASSUME baseDone => baseDone', Refill => Refill',
         \A h \in Loops : go[h].pc = "flush" => h \in Loops' /\ go'[h].pc = "flush"
  PROVE  FlushDue => FlushDue'
  BY DEF FlushDue

\* A frame that is queued when it is dropped is with nobody but a process
\* goroutine that has still to look at its context.
LEMMA QueuedPlace ==
  ASSUME TypeInv, PlaceInv, NEW f \in Queued
  PROVE  /\ f \in Frame /\ ~isSystemFrame(f) /\ Interruptible(f)
         /\ ~Unsent(f) /\ ~Waits(f) /\ ~Begun(f)
         /\ \A g \in Takers : Holds(g, f) => g \in Loops /\ go[g].pc = "take"
<1>1. Loops \subseteq Takers /\ procQueue.other \in Seq(Frame)
  BY DEF Takers, TypeInv, TypeOK, QueueOK, Queue
<1>2. CASE Ready(f) /\ Interruptible(f)
  <2>1. f \in Frame /\ ~isSystemFrame(f)
    BY <1>1, <1>2 DEF Ready, FramesOf, PlaceInv, TierInv, Tiered, OnlyOther
  <2> QED BY <1>2, <2>1 DEF PlaceInv, OnePlace
<1>3. CASE f \in Frame /\ \E g \in Loops : go[g].pc = "take" /\ go[g].frame = f /\ Interruptible(f)
  <2>1. PICK g \in Loops : go[g].pc = "take" /\ go[g].frame = f
    BY <1>3
  <2>2. Holds(g, f) /\ ~isSystemFrame(f) /\ g \in Takers
    BY <1>1, <2>1 DEF Holds, HandPcs, PlaceInv, TierInv
  <2> QED BY <1>3, <2>1, <2>2 DEF PlaceInv, OnePlace
<1> QED BY <1>2, <1>3 DEF Queued, Ready

\* reset leaves nothing that an interruption may drop.
LEMMA ResetDrops ==
  ASSUME NEW q \in Queue, NEW f, Interruptible(f)
  PROVE  f \notin FramesOf(reset(q).other)
<1>1. q.other \in Seq(Frame) /\ reset(q).other = keep(q.other)
  BY DEF Queue, reset
<1> QED BY <1>1, KeepProperties

\* requeue adds the frame it is given and no other.
LEMMA RequeueFrames ==
  ASSUME NEW s \in Seq(Frame), NEW f \in Frame
  PROVE  FramesOf(<<f>> \o s) = FramesOf(s) \cup {f}
<1> DEFINE t == <<f>> \o s
<1>1. /\ Len(s) \in Nat /\ Len(t) = Len(s) + 1 /\ t[1] = f
      /\ \A i \in 1..Len(s) : t[i+1] = s[i]
  OBVIOUS
<1> HIDE DEF t
<1>2. FramesOf(t) \subseteq FramesOf(s) \cup {f}
  <2> SUFFICES ASSUME NEW i \in 1..Len(t) PROVE t[i] \in FramesOf(s) \cup {f}
    BY DEF FramesOf
  <2>1. CASE i = 1
    BY <1>1, <2>1
  <2>2. CASE i # 1
    <3>1. i - 1 \in 1..Len(s) /\ t[(i - 1) + 1] = s[i - 1] /\ (i - 1) + 1 = i
      BY <1>1, <2>2
    <3> QED BY <3>1 DEF FramesOf
  <2> QED BY <2>1, <2>2
<1>3. FramesOf(s) \cup {f} \subseteq FramesOf(t)
  <2>1. 1 \in 1..Len(t) /\ \A i \in 1..Len(s) : i + 1 \in 1..Len(t)
    BY <1>1
  <2> QED BY <1>1, <2>1 DEF FramesOf
<1> QED BY <1>2, <1>3 DEF t

\* What get does to the places of the data and control frames.
LEMMA PullTakes ==
  ASSUME TypeInv, PlaceInv, NEW g \in Takers, Pull(g), NEW h \in Frame
  PROVE  /\ Waits(h)' => Waits(h)
         /\ Ready(h)' => Ready(h)
         /\ h = head(QueueOf(g)) /\ ~isSystemFrame(h) => IF g = Input THEN Waits(h) ELSE Ready(h)
<1> DEFINE q == QueueOf(g)
<1>1. /\ q \in Queue /\ ~isEmpty(q) /\ Tiered(q) /\ Distinct(q.other) /\ q.other \in Seq(Frame)
  BY DEF TypeInv, TypeOK, QueueOK, Queue, QueueOf, Pull, PlaceInv, TierInv
<1>2. /\ isSystemFrame(head(q)) => get(q).other = q.other
      /\ ~isSystemFrame(head(q)) => /\ q.other # <<>> /\ head(q) = Head(q.other)
                                    /\ get(q).other = Tail(q.other)
  BY <1>1, GetTiers
<1>3. q.other # <<>> => /\ FramesOf(Tail(q.other)) = FramesOf(q.other) \ {Head(q.other)}
                        /\ Head(q.other) \in FramesOf(q.other)
  BY <1>1, DistinctTail
<1>4. /\ FramesOf(get(q).other) \subseteq FramesOf(q.other)
      /\ ~isSystemFrame(head(q)) => head(q) \in FramesOf(q.other)
  BY <1>2, <1>3
<1> HIDE DEF q
<1>5. CASE g = Input
  <2>1. inputQueue' = get(q) /\ procQueue' = procQueue /\ q = inputQueue
    BY <1>5 DEF q, QueueOf, Pull
  <2> QED BY <1>4, <1>5, <2>1 DEF Waits, Ready, q
<1>6. CASE g # Input
  <2>1. procQueue' = get(q) /\ inputQueue' = inputQueue /\ q = procQueue
    BY <1>6 DEF q, QueueOf, Pull
  <2> QED BY <1>4, <1>6, <2>1 DEF Waits, Ready, q
<1> QED BY <1>5, <1>6

\* A goroutine that takes frames moves, and there is no flush it owes.
LEMMA OthersStay ==
  ASSUME TypeInv, DropInv, NEW g \in Takers, Len(go') = Len(go), UNCHANGED <<procRunning, baseDone>>,
         \A h \in Goroutines : h # g => go'[h].pc = go[h].pc /\ go'[h].frame = go[h].frame,
         \A h \in Loops : go'[h].stop = go[h].stop
  PROVE  /\ Takers' = Takers /\ Loops' = Loops
         /\ go[g].pc \notin {"flush", "join", "create", "createFlush"} => (FlushDue => FlushDue')
         /\ \A f \in dropped, k \in Takers : (k # g /\ Holds(k, f)') => Holds(k, f) /\ GivenUp(k)'
         /\ \A k \in Loops : Stopped(k)' = Stopped(k)
         /\ g # Input => IntKind'
<1>1. Takers \subseteq Goroutines /\ Loops \subseteq Takers /\ Input \in Takers
  BY TypeInvGo DEF Takers
<1>2. Takers' = Takers /\ Loops' = Loops
  BY DEF Takers, Loops
<1>3. \A k \in Loops : Stopped(k)' = Stopped(k)
  BY DEF Stopped
<1>4. ASSUME go[g].pc \notin {"flush", "join", "create", "createFlush"} PROVE FlushDue => FlushDue'
  <2>1. Refill => Refill'
    BY <1>1, <1>4 DEF Refill
  <2>2. \A h \in Loops : go[h].pc = "flush" => h \in Loops' /\ go'[h].pc = "flush"
    BY <1>1, <1>2, <1>4
  <2> QED BY <2>1, <2>2, DueKept
<1>5. ASSUME NEW f \in dropped, NEW k \in Takers, k # g, Holds(k, f)' PROVE Holds(k, f) /\ GivenUp(k)'
  <2>1. Holds(k, f)
    BY <1>1, <1>5 DEF Holds
  <2>2. GivenUp(k)
    BY <2>1 DEF DropInv, Gone
  <2> QED BY <1>1, <1>2, <1>3, <1>5, <2>1, <2>2 DEF GivenUp
<1>6. g # Input => IntKind'
  BY <1>1 DEF DropInv, IntKind
<1> QED BY <1>2, <1>3, <1>4, <1>5, <1>6

\* A goroutine that drains a queue breaks no promise about dropped frames.
LEMMA DropDrain ==
  ASSUME TypeInv, TypeInv', LoopInv, PlaceInv, DropInv, NEW g \in Takers,
         Drain(g) \/ (g # Input /\ (Top(g) \/ takeCurFrame(g) \/ giveBack(g)))
  PROVE  DropInv'
<1>1. /\ g \in Goroutines /\ Takers \subseteq Goroutines /\ go[g] \in Goroutine /\ Loops \subseteq Takers
      /\ g # Life /\ g # Watch /\ (g # Input => g \in Loops) /\ Input \notin Loops /\ Input \in Takers
  BY TypeInvGo DEF Takers, Loops, Life, Watch, Input
<1>2. /\ dropped \subseteq Frame /\ begun \in Seq(Frame) /\ procQueue \in Queue /\ procQueue.other \in Seq(Frame)
  BY DEF TypeInv, TypeOK, HistoryOK, QueueOK, Queue
<1>3. \A f \in dropped : /\ Gone(f) /\ Interruptible(f) /\ ~isSystemFrame(f)
                         /\ ~Holds(Input, f) /\ \A k \in Takers : Holds(k, f) => GivenUp(k)
  BY <1>1 DEF DropInv, Gone, GivenUp
<1>4. \A h, k \in Loops : Working(h) /\ Working(k) => h = k
  BY OneAtWork DEF OneHandler
<1>5. UNCHANGED <<procRunning, baseDone>>
  BY <1>1, DrainMoves
<1> USE DEF queueVars, histVars, taskVars
<1>6. CASE Still /\ \E pc : Walks(g, pc) /\ Path(g, go[g].pc, pc)
  <2>1. PICK pc : Walks(g, pc) /\ Path(g, go[g].pc, pc)
    BY <1>6
  <2>2. /\ Takers' = Takers /\ Loops' = Loops /\ (FlushDue => FlushDue')
        /\ \A f \in dropped, k \in Takers : (k # g /\ Holds(k, f)') => Holds(k, f) /\ GivenUp(k)'
        /\ \A k \in Loops : Stopped(k)' = Stopped(k)
        /\ g # Input => IntKind'
    <3>1. go[g].pc \notin {"flush", "join", "create", "createFlush"}
      BY <2>1 DEF Path, HandPcs
    <3> QED BY <1>5, <2>1, <3>1, OthersStay DEF Walks, Moves
  <2>3. go'[g].pc = pc /\ go'[g].frame = go[g].frame /\ pc # "interrupt" /\ (pc \in HandPcs => go[g].pc \in HandPcs)
    BY <1>1, <2>1 DEF Walks, Moves, Path, HandPcs
  <2>4. ASSUME NEW f \in dropped PROVE Gone(f)'
    <3>1. Holds(g, f)' => Holds(g, f) /\ GivenUp(g)'
      <4> SUFFICES ASSUME Holds(g, f)' PROVE Holds(g, f) /\ GivenUp(g)'
        OBVIOUS
      <4>1. Holds(g, f)
        BY <2>3 DEF Holds
      <4>2. GivenUp(g)
        BY <1>3, <4>1
      <4>3. pc = "giveBack" /\ g \in Loops
        BY <2>1, <2>3, <4>1, <4>2 DEF GivenUp, Path, Holds, HandPcs
      <4> QED BY <2>2, <2>3, <4>1, <4>3 DEF GivenUp
    <3>2. \A k \in Takers' : Holds(k, f)' => Holds(k, f) /\ GivenUp(k)'
      BY <2>2, <3>1
    <3> QED BY <1>3, <1>6, <2>2, <3>2, GoneKept DEF Still, Unsent, Waits, Ready, Begun
  <2>5. IntKind'
    BY <2>2, <2>3 DEF IntKind
  <2> QED BY <1>6, <2>4, <2>5 DEF DropInv, Still
<1>7. ASSUME NEW r, Update(g, r), r.stop = go[g].stop, go[g].pc \notin {"join", "create", "createFlush"}
      PROVE  /\ Takers' = Takers /\ Loops' = Loops /\ go'[g] = r
             /\ go[g].pc # "flush" => (FlushDue => FlushDue')
             /\ \A f \in dropped, k \in Takers : (k # g /\ Holds(k, f)') => Holds(k, f) /\ GivenUp(k)'
             /\ \A k \in Loops : Stopped(k)' = Stopped(k)
             /\ g # Input => IntKind'
  <2>1. /\ Len(go') = Len(go)
        /\ \A h \in Goroutines : go'[h] = IF h = g THEN r ELSE go[h]
    BY <1>1, <1>7, UpdateOne
  <2>2. \A h \in Loops : go'[h].stop = go[h].stop
    BY <1>1, <1>7, <2>1
  <2>3. go'[g] = r
    BY <1>1, <2>1
  <2> QED BY <1>5, <1>7, <2>1, <2>2, <2>3, OthersStay
<1>8. CASE GetCheck(g)
  <2> DEFINE r == [go[g] EXCEPT !.pc = IF Stopped(g) THEN "exited" ELSE "pull",
                                !.frame = NoFrame, !.on = 0, !.woken = FALSE]
  <2>1. r.pc \in {"exited", "pull"} /\ r.stop = go[g].stop
    BY <1>1 DEF Goroutine
  <2>2. Update(g, r) /\ UNCHANGED <<sent, inputQueue, procQueue, begun, dropped>> /\ go[g].pc = "get"
    BY <1>8 DEF GetCheck
  <2> HIDE DEF r
  <2>3. /\ Takers' = Takers /\ go'[g] = r /\ (FlushDue => FlushDue')
        /\ \A f \in dropped, k \in Takers : (k # g /\ Holds(k, f)') => Holds(k, f) /\ GivenUp(k)'
        /\ g # Input => IntKind'
    BY <1>7, <2>1, <2>2
  <2>4. ASSUME NEW f \in dropped PROVE Gone(f)'
    <3>1. \A k \in Takers' : Holds(k, f)' => Holds(k, f) /\ GivenUp(k)'
      BY <2>1, <2>3 DEF Holds, HandPcs
    <3> QED BY <1>3, <2>2, <2>3, <3>1, GoneKept DEF Unsent, Waits, Ready, Begun
  <2>5. IntKind'
    BY <2>1, <2>3 DEF IntKind
  <2> QED BY <2>2, <2>4, <2>5 DEF DropInv
<1>9. CASE Pull(g)
  <2> DEFINE h == head(QueueOf(g))
             r == [go[g] EXCEPT !.pc = IF g = Input THEN "gate" ELSE "take", !.frame = h]
  <2>1. r.pc = (IF g = Input THEN "gate" ELSE "take") /\ r.stop = go[g].stop /\ r.frame = h
    BY <1>1 DEF Goroutine
  <2>2. Update(g, r) /\ UNCHANGED <<sent, begun, dropped>> /\ go[g].pc = "pull"
    BY <1>9 DEF Pull
  <2>3. \A f \in Frame : /\ Waits(f)' => Waits(f)
                         /\ Ready(f)' => Ready(f)
                         /\ f = h /\ ~isSystemFrame(f) => IF g = Input THEN Waits(f) ELSE Ready(f)
    BY <1>9, PullTakes
  <2> HIDE DEF r, h
  <2>4. /\ Takers' = Takers /\ Loops' = Loops /\ go'[g] = r /\ (FlushDue => FlushDue')
        /\ \A f \in dropped, k \in Takers : (k # g /\ Holds(k, f)') => Holds(k, f) /\ GivenUp(k)'
        /\ \A k \in Loops : Stopped(k)' = Stopped(k)
        /\ g # Input => IntKind'
    BY <1>7, <2>1, <2>2
  <2>5. ASSUME NEW f \in dropped PROVE Gone(f)'
    <3>1. ASSUME Holds(g, f)' PROVE GivenUp(g)'
      <4>1. f = h
        BY <2>1, <2>4, <3>1 DEF Holds
      <4>2. g # Input /\ Ready(f) /\ g \in Loops
        <5>1. ~Waits(f)
          BY <1>3 DEF Gone
        <5> QED BY <1>1, <1>2, <1>3, <2>3, <4>1, <5>1
      <4>3. FlushDue
        BY <1>3, <4>2 DEF Gone
      <4>4. Stopped(g)
        <5>1. CASE Refill
          BY <4>2, <5>1 DEF Refill, PlaceInv, StopFlag, Stopped
        <5>2. ASSUME NEW k \in Loops, go[k].pc = "flush" PROVE FALSE
          BY <1>4, <2>2, <4>2, <5>2 DEF Working
        <5> QED BY <4>3, <5>1, <5>2 DEF FlushDue, Stopped
      <4> QED BY <2>1, <2>4, <4>2, <4>4 DEF GivenUp
    <3>2. \A k \in Takers' : Holds(k, f)' => GivenUp(k)'
      BY <2>4, <3>1
    <3> QED BY <1>2, <1>3, <2>2, <2>3, <2>4, <3>2 DEF Gone, Unsent, Begun
  <2>6. IntKind'
    BY <2>1, <2>4 DEF IntKind
  <2> QED BY <2>2, <2>5, <2>6 DEF DropInv
<1>10. CASE Begin(g) \/ BeginPause(g)
  <2> DEFINE h == go[g].frame
  <2>1. /\ go[g].pc = "handle" /\ begun' = Append(begun, h) /\ h \in Frame /\ Holds(g, h)
        /\ UNCHANGED <<sent, inputQueue, procQueue, dropped>>
    BY <1>1, <1>10, TypeInvGo DEF Begin, BeginPause, Begins, HandPcs, Holds
  <2>2. h \notin dropped
    BY <1>3, <2>1 DEF GivenUp
  <2>3. PICK r : /\ Update(g, r) /\ r.stop = go[g].stop /\ r.pc \notin HandPcs /\ r.frame = h
                 /\ r.pc = "interrupt" => Kind[h] = "interruption"
    <3>1. CASE Begin(g)
      <4> DEFINE r == [go[g] EXCEPT !.pc = FirstPc(h)]
      <4>1. r.pc = FirstPc(h) /\ r.frame = h /\ r.stop = go[g].stop
        BY <1>1 DEF Goroutine
      <4>2. FirstPc(h) \notin HandPcs /\ (FirstPc(h) = "interrupt" => Kind[h] = "interruption")
        BY NextPcs DEF FirstPc
      <4>3. Update(g, r)
        BY <3>1 DEF Begin, Goto
      <4> HIDE DEF r
      <4> QED BY <4>1, <4>2, <4>3
    <3>2. CASE BeginPause(g)
      <4> DEFINE r == [go[g] EXCEPT !.pc = "pauseClear", !.on = processEvent]
      <4>1. r.pc = "pauseClear" /\ r.frame = h /\ r.stop = go[g].stop
        BY <1>1 DEF Goroutine
      <4>2. Update(g, r)
        BY <3>2 DEF BeginPause
      <4> HIDE DEF r
      <4> QED BY <4>1, <4>2 DEF HandPcs
    <3> QED BY <1>10, <3>1, <3>2
  <2>4. FramesOf(begun') = FramesOf(begun) \cup {h}
    BY <1>2, <2>1, AppendTo
  <2> HIDE DEF h
  <2>5. /\ Takers' = Takers /\ Loops' = Loops /\ go'[g] = r /\ (FlushDue => FlushDue')
        /\ \A f \in dropped, k \in Takers : (k # g /\ Holds(k, f)') => Holds(k, f) /\ GivenUp(k)'
        /\ g # Input => IntKind'
    BY <1>7, <2>1, <2>3
  <2>6. ASSUME NEW f \in dropped PROVE Gone(f)'
    <3>1. \A k \in Takers' : Holds(k, f)' => Holds(k, f) /\ GivenUp(k)'
      BY <2>3, <2>5 DEF Holds
    <3>2. Begun(f)' => Begun(f)
      BY <2>2, <2>4 DEF Begun
    <3> QED BY <1>3, <2>1, <2>5, <3>1, <3>2, GoneKept DEF Unsent, Waits, Ready
  <2>7. IntKind'
    BY <2>3, <2>5 DEF IntKind
  <2> QED BY <2>1, <2>6, <2>7 DEF DropInv
<1>11. CASE BroadcastResetGate(g)
  <2> DEFINE r == [go[g] EXCEPT !.pc = "flush"]
  <2>1. r.pc = "flush" /\ r.stop = go[g].stop
    BY <1>1 DEF Goroutine
  <2>2. /\ Update(g, r) /\ UNCHANGED <<sent, inputQueue, procQueue, begun>> /\ go[g].pc = "resetGate"
        /\ dropped' = IF g = Input THEN dropped ELSE dropped \cup Queued
    BY <1>11 DEF BroadcastResetGate, Goto
  <2> HIDE DEF r
  <2>3. /\ Takers' = Takers /\ Loops' = Loops /\ go'[g] = r /\ (FlushDue => FlushDue')
        /\ \A f \in dropped, k \in Takers : (k # g /\ Holds(k, f)') => Holds(k, f) /\ GivenUp(k)'
        /\ g # Input => IntKind'
    BY <1>7, <2>1, <2>2
  <2>4. ASSUME NEW f \in dropped PROVE Gone(f)'
    <3>1. \A k \in Takers' : Holds(k, f)' => Holds(k, f) /\ GivenUp(k)'
      BY <2>1, <2>3 DEF Holds, HandPcs
    <3> QED BY <1>3, <2>2, <2>3, <3>1, GoneKept DEF Unsent, Waits, Ready, Begun
  <2>5. ASSUME g # Input, NEW f \in Queued PROVE Gone(f)'
    <3>1. /\ ~isSystemFrame(f) /\ Interruptible(f) /\ ~Unsent(f) /\ ~Waits(f) /\ ~Begun(f)
          /\ \A k \in Takers : Holds(k, f) => k \in Loops /\ go[k].pc = "take"
      BY QueuedPlace
    <3>2. \A k \in Takers : ~Holds(k, f)
      BY <1>1, <1>4, <2>2, <2>5, <3>1 DEF Working
    <3>3. \A k \in Takers' : ~Holds(k, f)'
      <4>1. \A h \in Goroutines : go'[h] = IF h = g THEN r ELSE go[h]
        BY <1>1, <2>2, UpdateOne
      <4> QED BY <1>1, <2>1, <2>3, <3>2, <4>1 DEF Holds, HandPcs
    <3>4. FlushDue'
      BY <1>1, <2>1, <2>3, <2>5 DEF FlushDue
    <3> QED BY <2>2, <3>1, <3>3, <3>4 DEF Gone, Unsent, Waits, Begun
  <2>6. IntKind'
    BY <2>1, <2>3 DEF IntKind
  <2> QED BY <2>2, <2>4, <2>5, <2>6 DEF DropInv
<1>12. CASE Flush(g)
  <2> DEFINE r == [go[g] EXCEPT !.pc = "finish"]
  <2>1. r.pc = "finish" /\ r.stop = go[g].stop
    BY <1>1 DEF Goroutine
  <2>2. /\ Update(g, r) /\ UNCHANGED <<sent, inputQueue, begun, dropped>> /\ go[g].pc = "flush"
        /\ procQueue' = reset(procQueue)
    BY <1>12 DEF Flush, Goto
  <2> HIDE DEF r
  <2>3. /\ Takers' = Takers /\ go'[g] = r
        /\ \A f \in dropped, k \in Takers : (k # g /\ Holds(k, f)') => Holds(k, f) /\ GivenUp(k)'
        /\ g # Input => IntKind'
    BY <1>7, <2>1, <2>2
  <2>4. ASSUME NEW f \in dropped PROVE Gone(f)'
    <3>1. \A k \in Takers' : Holds(k, f)' => Holds(k, f) /\ GivenUp(k)'
      BY <2>1, <2>3 DEF Holds, HandPcs
    <3>2. ~Ready(f)'
      BY <1>2, <1>3, <2>2, ResetDrops DEF Ready
    <3> QED BY <1>3, <2>2, <2>3, <3>1, <3>2, GoneKept DEF Unsent, Waits, Begun
  <2>5. IntKind'
    BY <2>1, <2>3 DEF IntKind
  <2> QED BY <2>2, <2>4, <2>5 DEF DropInv
<1>13. CASE giveBack(g)
  <2> DEFINE h == go[g].frame
             r == [go[g] EXCEPT !.pc = "exited"]
  <2>1. r.pc = "exited" /\ r.stop = go[g].stop
    BY <1>1 DEF Goroutine
  <2>2. /\ Update(g, r) /\ UNCHANGED <<sent, inputQueue, begun, dropped>> /\ go[g].pc = "giveBack"
        /\ procQueue' = IF Interruptible(h) THEN procQueue ELSE requeue(procQueue, h)
        /\ h \in Frame
    BY <1>1, <1>13, TypeInvGo DEF giveBack, Goto, HandPcs
  <2> HIDE DEF r, h
  <2>3. /\ Takers' = Takers /\ go'[g] = r /\ (FlushDue => FlushDue')
        /\ \A f \in dropped, k \in Takers : (k # g /\ Holds(k, f)') => Holds(k, f) /\ GivenUp(k)'
        /\ g # Input => IntKind'
    BY <1>7, <2>1, <2>2
  <2>4. ASSUME NEW f \in dropped PROVE Gone(f)'
    <3>1. \A k \in Takers' : Holds(k, f)' => Holds(k, f) /\ GivenUp(k)'
      BY <2>1, <2>3 DEF Holds, HandPcs
    <3>2. Ready(f)' => Ready(f)
      <4>1. CASE Interruptible(h)
        BY <2>2, <4>1 DEF Ready
      <4>2. CASE ~Interruptible(h)
        <5>1. Gone(f) /\ f # h
          BY <1>3, <4>2
        <5>2. requeue(procQueue, h).other = <<h>> \o procQueue.other
          BY <1>2 DEF requeue, Queue
        <5>3. FramesOf(<<h>> \o procQueue.other) = FramesOf(procQueue.other) \cup {h}
          BY <1>2, <2>2, RequeueFrames
        <5> QED BY <2>2, <4>2, <5>1, <5>2, <5>3 DEF Ready
      <4> QED BY <4>1, <4>2
    <3> QED BY <1>3, <2>2, <2>3, <3>1, <3>2, GoneKept DEF Unsent, Waits, Begun
  <2>5. IntKind'
    BY <2>1, <2>3 DEF IntKind
  <2> QED BY <2>2, <2>4, <2>5 DEF DropInv
<1> QED BY <1>1, <1>6, <1>8, <1>9, <1>10, <1>11, <1>12, <1>13, DrainSteps DEF Carries

\* A step that gives no dropped frame to anyone and takes no flush away.
LEMMA DropQuiet ==
  ASSUME TypeInv, TypeInv', DropInv, IntKind', UNCHANGED <<inputQueue, begun>>,
         NEW f \in dropped, Unsent(f)' => Unsent(f), baseDone => baseDone',
         Loops \subseteq Loops',
         \A h \in Loops : go'[h].pc = go[h].pc /\ go'[h].frame = go[h].frame /\ (go[h].stop => go'[h].stop),
         \A h \in Loops' : h \notin Loops => go'[h].pc \notin HandPcs,
         go'[Input].pc \in HandPcs => go[Input].pc \in HandPcs /\ go'[Input].frame = go[Input].frame,
         Ready(f)' => Ready(f) /\ (Refill => Refill')
  PROVE  Gone(f)'
<1>1. Gone(f) /\ Takers' = Loops' \cup {Input}
  BY DEF DropInv, Takers
<1>2. ASSUME NEW k \in Takers', Holds(k, f)' PROVE k \in Takers /\ Holds(k, f)
  <2>1. CASE k \in Loops
    BY <1>2, <2>1 DEF Holds, Takers
  <2>2. CASE k \notin Loops
    <3>1. k = Input
      BY <1>1, <1>2, <2>2 DEF Holds
    <3> QED BY <1>2, <3>1 DEF Holds, Takers
  <2> QED BY <2>1, <2>2
<1>3. ASSUME NEW k, GivenUp(k) PROVE GivenUp(k)'
  BY <1>3 DEF GivenUp, Stopped
<1>4. Ready(f)' => (FlushDue => FlushDue')
  <2>1. \A h \in Loops : go[h].pc = "flush" => h \in Loops' /\ go'[h].pc = "flush"
    OBVIOUS
  <2> QED BY <2>1, DueKept
<1> QED BY <1>1, <1>2, <1>3, <1>4, GoneKept DEF Waits, Begun

\* No step, and no stuttering, breaks DropInv.
LEMMA DropNext ==
  TypeInv /\ TypeInv' /\ LoopInv /\ PlaceInv /\ PlaceInv' /\ DropInv /\ [Next]_vars => DropInv'
<1> SUFFICES ASSUME TypeInv, TypeInv', LoopInv, PlaceInv, PlaceInv', DropInv, [Next]_vars PROVE DropInv'
  OBVIOUS
<1>1. /\ {Life, Watch, Input} \subseteq Goroutines /\ Loops \subseteq Goroutines /\ Len(go) \in Nat
      /\ \A h \in Goroutines : go[h] \in Goroutine
  BY TypeInvGo
<1>2. Input \notin Loops /\ Life \notin Loops /\ Watch \notin Loops /\ Input # Life /\ Input # Watch
  BY DEF Input, Life, Watch, Loops
<1>3. /\ dropped \subseteq Frame /\ inputQueue \in Queue /\ procQueue \in Queue
      /\ inputQueue.other \in Seq(Frame) /\ procQueue.other \in Seq(Frame)
      /\ sent \in [Frame -> {"unsent", "opening", "queued", "refused"}]
  BY DEF TypeInv, TypeOK, HistoryOK, QueueOK, Queue
<1>4. \A f \in dropped : Gone(f) /\ Interruptible(f) /\ ~isSystemFrame(f) /\ ~Unsent(f)
  BY DEF DropInv, Gone
<1> USE DEF queueVars, histVars, taskVars
<1>5. ASSUME NEW e \in Frame, Send(e) PROVE DropInv'
  <2>1. UNCHANGED <<go, procRunning, baseDone, procQueue, begun, dropped>>
    BY <1>5 DEF Send, QueueFrame, RefuseFrame, OpenOnStart
  <2>2. IntKind'
    BY <2>1 DEF IntKind, DropInv
  <2>3. ASSUME NEW f \in dropped PROVE Gone(f)'
    <3>1. ~Unsent(f)' /\ (Waits(f)' => Waits(f))
      <4>1. CASE QueueFrame(e)
        <5>1. sent[e] = "unsent" /\ inputQueue' = push(inputQueue, e)
              /\ \A h \in Frame : h # e => sent'[h] = sent[h]
          BY <1>3, <4>1 DEF QueueFrame
        <5>2. f # e /\ f \in Frame /\ ~Unsent(f)
          BY <1>3, <1>4, <5>1 DEF Unsent
        <5>3. Waits(f)' => Waits(f)
          <6>1. /\ isSystemFrame(e) => push(inputQueue, e).other = inputQueue.other
                /\ ~isSystemFrame(e) => push(inputQueue, e).other = Append(inputQueue.other, e)
            BY <1>3, PushTiers DEF PlaceInv, TierInv
          <6>2. FramesOf(Append(inputQueue.other, e)) = FramesOf(inputQueue.other) \cup {e}
            BY <1>3, AppendTo
          <6> QED BY <5>1, <5>2, <6>1, <6>2 DEF Waits
        <5> QED BY <5>1, <5>2, <5>3 DEF Unsent
      <4>2. CASE RefuseFrame(e) \/ OpenOnStart(e)
        <5>1. /\ inputQueue' = inputQueue
              /\ sent[e] \in {"unsent", "opening"} /\ \A h \in Frame : h # e => sent'[h] = sent[h]
              /\ sent'[e] = "queued" \/ sent[e] = "unsent"
          BY <1>3, <4>2 DEF RefuseFrame, OpenOnStart
        <5>2. f \in Frame /\ ~Unsent(f)
          BY <1>3, <1>4
        <5> QED BY <5>1, <5>2 DEF Unsent, Waits
      <4> QED BY <1>5, <4>1, <4>2 DEF Send
    <3>2. /\ \A k \in Takers' : Holds(k, f)' => Holds(k, f) /\ k \in Takers /\ (GivenUp(k) => GivenUp(k)')
          /\ FlushDue => FlushDue'
      BY <2>1 DEF Takers, Loops, Holds, GivenUp, Stopped, FlushDue, Refill
    <3> QED BY <1>4, <2>1, <3>1, <3>2, GoneKept DEF Ready, Begun
  <2> QED BY <2>1, <2>2, <2>3 DEF DropInv
<1>6. CASE Setup
  <2>1. /\ go' = [go EXCEPT ![Life].pc = "settingUp", ![Input].pc = "startGate"]
        /\ UNCHANGED <<sent, inputQueue, procQueue, begun, procRunning, baseDone, dropped>>
        /\ go[Input].pc = "none"
    BY <1>6 DEF Setup, LoopInv, NotYet
  <2>2. DOMAIN go = 1..Len(go) /\ DOMAIN go' = 1..Len(go') /\ Len(go') \in Nat
    BY LenProperties DEF TypeInv, TypeOK, TaskOK
  <2>3. Len(go') = Len(go)
    <3>1. Len(go) \in Nat /\ Len(go') \in Nat /\ 1..Len(go') = 1..Len(go)
      BY <1>1, <2>1, <2>2
    <3> QED BY <3>1
  <2>4. \A h \in Loops : go'[h] = go[h]
    BY <1>1, <1>2, <2>1, <2>2 DEF Goroutines
  <2>5. go'[Input].pc = "startGate" /\ Loops' = Loops
    BY <1>1, <1>2, <2>1, <2>2, <2>3 DEF Goroutines, Goroutine, Loops
  <2>6. IntKind' /\ ~Refill /\ go'[Input].pc \notin HandPcs
    BY <2>1, <2>5 DEF IntKind, Refill, HandPcs
  <2>7. \A f \in dropped : Gone(f)'
    BY <2>1, <2>4, <2>5, <2>6, DropQuiet DEF Unsent, Ready
  <2> QED BY <2>1, <2>6, <2>7 DEF DropInv
<1>7. CASE WatchStep \/ SetupFinished \/ Cleanup \/ LifeStep
  <2>1. Aside
    BY <1>7, AsideSteps
  <2>2. /\ UNCHANGED <<sent, inputQueue, procQueue, begun, dropped>> /\ Loops' = Loops
        /\ IntKind' /\ (Refill => Refill')
    BY <2>1 DEF Aside, Loops, IntKind, Refill, DropInv
  <2>3. \A f \in dropped : Gone(f)'
    BY <2>1, <2>2, DropQuiet DEF Aside, Unsent, Ready
  <2> QED BY <2>2, <2>3 DEF DropInv
<1>8. CASE ProcessStep
  <2>1. PICK g \in Loops : Drain(g) \/ Top(g) \/ takeCurFrame(g) \/ giveBack(g)
    BY <1>8 DEF ProcessStep, LoopStep
  <2> QED BY <1>2, <2>1, DropDrain DEF Takers
<1>9. CASE Drain(Input)
  BY <1>9, DropDrain DEF Takers
<1>10. CASE HandOn
  <2> DEFINE h == go[Input].frame
  <2>1. /\ go[Input].pc = "handle" /\ ~isSystemFrame(h) /\ procQueue' = push(procQueue, h)
        /\ UNCHANGED <<sent, inputQueue, begun, dropped, procRunning, baseDone>> /\ Goto(Input, "get")
    BY <1>10 DEF HandOn
  <2>2. h \in Frame /\ Holds(Input, h) /\ Input \in Takers
    BY <1>1, <2>1, TypeInvGo DEF Holds, HandPcs, Takers
  <2>3. h \notin dropped
    BY <1>2, <2>2 DEF DropInv, Gone, GivenUp
  <2>4. /\ Len(go') = Len(go) /\ go'[Input].pc = "get"
        /\ \A k \in Loops : go'[k].pc = go[k].pc /\ go'[k].frame = go[k].frame /\ go'[k].stop = go[k].stop
    BY <1>1, <1>2, <2>1, GotoWalks DEF Walks, Moves
  <2>5. push(procQueue, h).other = Append(procQueue.other, h)
    BY <1>3, <2>1, <2>2, PushTiers DEF PlaceInv, TierInv
  <2>6. FramesOf(Append(procQueue.other, h)) = FramesOf(procQueue.other) \cup {h}
    BY <1>3, <2>2, AppendTo
  <2> HIDE DEF h
  <2>7. IntKind' /\ Loops' = Loops /\ ~Refill /\ go'[Input].pc \notin HandPcs
    BY <2>1, <2>4 DEF IntKind, Loops, Refill, HandPcs
  <2>8. ASSUME NEW f \in dropped PROVE Gone(f)'
    <3>1. Ready(f)' => Ready(f)
      BY <2>1, <2>3, <2>5, <2>6 DEF Ready
    <3> QED BY <2>1, <2>4, <2>7, <3>1, DropQuiet DEF Unsent
  <2> QED BY <2>1, <2>7, <2>8 DEF DropInv
<1>11. CASE InputStep /\ ~Drain(Input) /\ ~HandOn
  <2>1. /\ UNCHANGED <<sent, inputQueue, begun, baseDone>> /\ procQueue' \in {procQueue, reset(procQueue)}
        /\ \A h \in Goroutines : go'[h].frame = go[h].frame
        /\ \A h \in Loops : go'[h].pc = go[h].pc
        /\ \A h \in Loops : go[h].stop => go'[h].stop
        /\ go'[Input].pc \notin HandPcs \cup {"interrupt"}
        /\ \/ Len(go') = Len(go)
           \/ Len(go') = Len(go) + 1 /\ go'[Len(go) + 1] = goroutine("top")
    BY <1>11, InputKeeps
  <2>2. /\ Loops \subseteq Loops' /\ \A h \in Loops' : h \notin Loops => go'[h].pc \notin HandPcs
    <3>1. goroutine("top").pc \notin HandPcs
      BY DEF goroutine, HandPcs
    <3>2. Loops \subseteq Loops' /\ \A h \in Loops' : h \in Loops \/ (h = Len(go) + 1 /\ Len(go') # Len(go))
      BY <1>1, <2>1 DEF Loops
    <3> QED BY <1>1, <2>1, <3>1, <3>2
  <2>3. IntKind' /\ go'[Input].pc \notin HandPcs
    BY <2>1 DEF IntKind
  <2>4. CreateFlush \/ (Refill => Refill')
    <3> SUFFICES ASSUME Refill, ~CreateFlush PROVE Refill'
      OBVIOUS
    <3>1. go[Input].pc \in {"join", "create", "createFlush"} /\ ~procRunning
      BY DEF Refill
    <3>2. Join(Input) \/ Create
      BY <1>11, <3>1 DEF InputStep, StartGate, StartInterruption, CancelProcessTask, CancelFrameInProgress,
         Respawn, HoldSystem, HoldFrames, StartWatcher
    <3>3. CASE Join(Input)
      <4>1. AfterJoin(Input) = "create"
        BY <1>2, <3>3 DEF AfterJoin, Join, Refill
      <4>2. go'[Input].pc = "create" /\ procRunning' = procRunning
        BY <1>1, <3>3, <4>1, GotoMoves DEF Join, Moves
      <4> QED BY <3>1, <4>2 DEF Refill
    <3>4. CASE Create
      <4>1. go'[Input].pc = "createFlush" /\ procRunning' = procRunning
        BY <1>1, <3>1, <3>4, GotoMoves DEF Create, Moves
      <4> QED BY <3>1, <4>1 DEF Refill
    <3> QED BY <3>2, <3>3, <3>4
  <2>5. ASSUME NEW f \in dropped PROVE Gone(f)'
    <3>1. Ready(f)' => Ready(f) /\ (Refill => Refill')
      <4>1. ~Interruptible(f) \/ f \notin FramesOf(reset(procQueue).other)
        BY <1>3, ResetDrops
      <4>2. CASE CreateFlush
        BY <1>4, <4>1, <4>2 DEF CreateFlush, Ready
      <4> QED BY <1>4, <2>1, <2>4, <4>1, <4>2 DEF Ready
    <3> QED BY <1>1, <2>1, <2>2, <2>3, <3>1, DropQuiet DEF Unsent
  <2>6. CASE ~StartInterruption
    <3>1. dropped' = dropped
      BY <1>11, <2>6 DEF InputStep, StartGate, Create, CreateFlush, Join, CancelProcessTask, CancelFrameInProgress,
         Respawn, HoldSystem, HoldFrames, StartWatcher
    <3> QED BY <2>3, <2>5, <3>1 DEF DropInv
  <2>7. CASE StartInterruption
    <3>1. dropped' = dropped \/ (dropped' = dropped \cup Queued /\ StopProcessTask(Input, "create"))
      BY <2>7 DEF StartInterruption
    <3>2. ASSUME StopProcessTask(Input, "create"), NEW f \in Queued PROVE Gone(f)'
      <4>1. /\ ~isSystemFrame(f) /\ Interruptible(f) /\ ~Unsent(f) /\ ~Waits(f) /\ ~Begun(f)
            /\ \A k \in Takers : Holds(k, f) => k \in Loops /\ go[k].pc = "take"
        BY QueuedPlace
      <4>2. /\ go'[Input].pc \in {"join", "create"} /\ ~procRunning' /\ Len(go') = Len(go)
            /\ go'[Input].frame = go[Input].frame
        BY <1>1, <3>2, StopShape
      <4>3. Refill'
        BY <2>7, <4>2 DEF Refill, DropInv, IntKind, StartInterruption
      <4>4. ASSUME NEW k \in Takers', Holds(k, f)' PROVE GivenUp(k)'
        <5>1. k \in Loops /\ k \in Loops' /\ k \in Takers
          BY <2>3, <4>2, <4>4 DEF Holds, Takers, Loops
        <5>2. Holds(k, f) /\ go[k].pc = "take"
          BY <1>1, <2>1, <4>1, <4>4, <5>1 DEF Holds
        <5>3. go'[k].stop
          BY <4>2, <5>1 DEF PlaceInv, StopFlag
        <5> QED BY <2>1, <5>1, <5>2, <5>3 DEF GivenUp, Stopped
      <4> QED BY <2>1, <4>1, <4>3, <4>4 DEF Gone, Unsent, Waits, Begun, FlushDue
    <3> QED BY <2>3, <2>5, <3>1, <3>2 DEF DropInv
  <2> QED BY <2>6, <2>7
<1>12. CASE UNCHANGED vars
  <2>1. UNCHANGED <<sent, inputQueue, procQueue, begun, go, procRunning, baseDone, dropped>>
    BY <1>12 DEF vars
  <2>2. IntKind' /\ Loops' = Loops /\ (Refill => Refill')
    BY <2>1 DEF IntKind, DropInv, Loops, Refill
  <2>3. \A f \in dropped : Gone(f)'
    <3>1. \A h \in Loops : go'[h].pc = go[h].pc /\ go'[h].frame = go[h].frame /\ (go[h].stop => go'[h].stop)
      BY <2>1
    <3> QED BY <2>1, <2>2, <3>1, DropQuiet DEF Unsent, Ready
  <2> QED BY <2>1, <2>2, <2>3 DEF DropInv
<1> QED BY <1>5, <1>6, <1>7, <1>8, <1>9, <1>10, <1>11, <1>12 DEF Next

\* A frame that was queued when an interruption replaced the process goroutine
\* is never handled, for any frames and however often the processor is
\* interrupted, paused, withdrawn from or canceled meanwhile.
THEOREM DroppedNeverBeginsHolds == Spec => []DroppedNeverBegins
<1>1. Init => DropInv
  BY DEF Init, goroutine, DropInv, IntKind, Input
<1>2. DropInv => DroppedNeverBegins
  BY DEF DropInv, Gone, Begun, DroppedNeverBegins
<1> QED BY <1>1, <1>2, TypeInit, TypeNext, LoopInit, LoopNext, PlaceInit, PlaceNext, DropNext, PTL DEF Spec

-----------------------------------------------------------------------------
(***************************************************************************)
(* Handled once.                                                           *)
(***************************************************************************)
\* The handler of a data or control frame is called at most once, however often
\* the frame was given back by one process goroutine and taken by the next
\* (requeue in giveBack, and takeCurFrame).
HandledOnce == \A i, j \in DOMAIN begun :
                   (begun[i] = begun[j] /\ ~isSystemFrame(begun[i])) => i = j

\* A frame is held when its handler is called, so it has not been called before.
LEMMA OnceNext == TypeInv /\ TypeInv' /\ PlaceInv /\ HandledOnce /\ [Next]_vars => HandledOnce'
<1> SUFFICES ASSUME TypeInv, TypeInv', PlaceInv, HandledOnce, [Next]_vars PROVE HandledOnce'
  OBVIOUS
<1>1. begun \in Seq(Frame) /\ Len(begun) \in Nat /\ DOMAIN begun = 1..Len(begun)
  BY LenProperties DEF TypeInv, TypeOK, HistoryOK
<1>2. CASE begun' = begun
  BY <1>2 DEF HandledOnce
<1>3. ASSUME NEW g \in Loops \cup {Input}, Begins(g) PROVE HandledOnce'
  <2> DEFINE f == go[g].frame
  <2>1. g \in Takers /\ go[g].pc \in HandPcs /\ begun' = Append(begun, f) /\ f \in Frame
    BY <1>3, TypeInvGo DEF Takers, Begins, HandPcs
  <2>2. ~isSystemFrame(f) => \A i \in 1..Len(begun) : begun[i] # f
    BY <1>1, <2>1, HeldAlone DEF Begun, FramesOf
  <2> HIDE DEF f
  <2>3. /\ begun' \in Seq(Frame) /\ Len(begun') = Len(begun) + 1 /\ begun'[Len(begun) + 1] = f
        /\ \A i \in 1..Len(begun) : begun'[i] = begun[i]
    BY <1>1, <2>1, AppendTo
  <2>4. DOMAIN begun' = 1..(Len(begun) + 1)
    BY <2>3, LenProperties
  <2> SUFFICES ASSUME NEW i \in DOMAIN begun', NEW j \in DOMAIN begun',
                      begun'[i] = begun'[j], ~isSystemFrame(begun'[i])
               PROVE  i = j
    BY DEF HandledOnce
  <2>5. /\ i \in 1..Len(begun) \/ i = Len(begun) + 1
        /\ j \in 1..Len(begun) \/ j = Len(begun) + 1
    BY <1>1, <2>4
  <2>6. CASE i \in 1..Len(begun) /\ j \in 1..Len(begun)
    <3>1. begun[i] = begun[j] /\ ~isSystemFrame(begun[i])
      BY <2>3, <2>6
    <3> QED BY <1>1, <2>6, <3>1 DEF HandledOnce
  <2> QED BY <2>2, <2>3, <2>5, <2>6
<1>4. CASE InputStep \/ ProcessStep
  BY <1>2, <1>3, <1>4, RunSteps
<1>5. CASE WatchStep \/ SetupFinished \/ Cleanup \/ LifeStep
  <2>1. Aside
    BY <1>5, AsideSteps
  <2> QED BY <1>2, <2>1 DEF Aside, histVars
<1>6. ASSUME NEW f \in Frame, Send(f) PROVE HandledOnce'
  BY <1>2, <1>6 DEF Send, QueueFrame, RefuseFrame, OpenOnStart, histVars
<1>7. CASE Setup \/ UNCHANGED vars
  BY <1>2, <1>7 DEF Setup, histVars, vars
<1> QED BY <1>4, <1>5, <1>6, <1>7 DEF Next

\* No data or control frame is handled twice, for any frames and any number of
\* process goroutines one after another.
THEOREM HandledOnceHolds == Spec => []HandledOnce
<1>1. Init => HandledOnce
  BY DEF Init, HandledOnce
<1> QED BY <1>1, TypeInit, TypeNext, LoopInit, LoopNext, PlaceInit, PlaceNext, OnceNext, PTL DEF Spec

-----------------------------------------------------------------------------
(***************************************************************************)
(* The processor is a line.  At any time the line is what the process      *)
(* goroutine at work holds, the process queue, what the input goroutine    *)
(* holds and the input queue (LineOK says what the two hands are), so that *)
(* a frame that changes hands keeps its place: the steps that matter are   *)
(* the one that queues a frame, the call of a handler, a reset, a frame    *)
(* that is not given back, and the end of the input goroutine.             *)
(***************************************************************************)
LineOK ==
    /\ loopHand \in Seq(Frame) /\ inputHand \in Seq(Frame)
    /\ \A g \in Loops : go[g].pc \in HandPcs => loopHand = <<go[g].frame>>
    /\ (\A g \in Loops : go[g].pc \notin HandPcs) => loopHand = <<>>
    /\ inputHand = IF go[Input].pc \in HandPcs /\ ~isSystemFrame(go[Input].frame)
                     THEN <<go[Input].frame>> ELSE <<>>

\* There is at most one process goroutine that holds a frame.
LEMMA HandsAre == TypeInv /\ LoopInv /\ PlaceInv => LineOK
<1> SUFFICES ASSUME TypeInv, LoopInv, PlaceInv PROVE LineOK
  OBVIOUS
<1>1. /\ Loops \subseteq Goroutines /\ Input \in Goroutines
      /\ \A h \in Goroutines : go[h].pc \in HandPcs => go[h].frame \in Frame
  BY TypeInvGo
<1>2. \A g \in Loops : Holding(g) <=> go[g].pc \in HandPcs
  BY DEF Holding, PlaceInv, TierInv
<1>3. \A g, h \in Loops : go[g].pc \in HandPcs /\ go[h].pc \in HandPcs => g = h
  BY OneAtWork DEF OneHandler, Working, HandPcs
<1>4. inputHand = IF go[Input].pc \in HandPcs /\ ~isSystemFrame(go[Input].frame)
                    THEN <<go[Input].frame>> ELSE <<>>
  BY DEF inputHand, Holding
<1>5. ASSUME NEW g \in Loops, go[g].pc \in HandPcs PROVE loopHand = <<go[g].frame>>
  <2>1. (CHOOSE h \in Loops : Holding(h)) = g
    BY <1>2, <1>3, <1>5
  <2> QED BY <1>2, <1>5, <2>1 DEF loopHand
<1>6. (\A g \in Loops : go[g].pc \notin HandPcs) => loopHand = <<>>
  BY <1>2 DEF loopHand
<1>7. inputHand \in Seq(Frame)
  BY <1>1, <1>4
<1>8. loopHand \in Seq(Frame)
  <2>1. CASE \A g \in Loops : go[g].pc \notin HandPcs
    BY <1>6, <2>1, EmptySeq
  <2>2. ASSUME NEW g \in Loops, go[g].pc \in HandPcs PROVE loopHand \in Seq(Frame)
    <3>1. go[g].frame \in Frame /\ loopHand = <<go[g].frame>>
      BY <1>1, <1>5, <2>2
    <3> QED BY <3>1
  <2> QED BY <2>1, <2>2
<1> QED BY <1>4, <1>5, <1>6, <1>7, <1>8 DEF LineOK

\* A process goroutine that works is the only one to hold a frame.
LEMMA OnlyHand ==
  ASSUME TypeInv, LoopInv, NEW g \in Loops, Working(g), NEW h \in Loops, go[h].pc \in HandPcs
  PROVE  h = g
BY OneAtWork DEF OneHandler, Working, HandPcs

\* What the proofs below need of the queues.
LEMMA QueueSeqs ==
  ASSUME TypeInv
  PROVE  /\ inputQueue.other \in Seq(Frame) /\ procQueue.other \in Seq(Frame)
         /\ inputQueue \in Queue /\ procQueue \in Queue
         /\ begun \in Seq(Frame) /\ arrived \in Seq(Frame)
BY DEF TypeInv, TypeOK, QueueOK, Queue, HistoryOK

\* Nothing the process goroutines hold changes.
LEMMA LoopHandStays ==
  ASSUME LineOK, LineOK',
         \A g \in Loops' : go'[g].pc \in HandPcs =>
             g \in Loops /\ go[g].pc \in HandPcs /\ go'[g].frame = go[g].frame,
         \A g \in Loops : go[g].pc \in HandPcs => g \in Loops' /\ go'[g].pc \in HandPcs
  PROVE  loopHand' = loopHand
<1>1. CASE \A g \in Loops : go[g].pc \notin HandPcs
  <2>1. loopHand = <<>>
    BY <1>1 DEF LineOK
  <2>2. loopHand' = <<>>
    BY <1>1 DEF LineOK
  <2> QED BY <2>1, <2>2
<1>2. ASSUME NEW g \in Loops, go[g].pc \in HandPcs PROVE loopHand' = loopHand
  <2>1. loopHand = <<go[g].frame>>
    BY <1>2 DEF LineOK
  <2>2. g \in Loops' /\ go'[g].pc \in HandPcs /\ go'[g].frame = go[g].frame
    BY <1>2
  <2>3. loopHand' = <<go'[g].frame>>
    BY <2>2 DEF LineOK
  <2> QED BY <2>1, <2>2, <2>3
<1> QED BY <1>1, <1>2

\* Nothing the input goroutine holds changes.
LEMMA InputHandStays ==
  ASSUME LineOK, LineOK', go'[Input].pc \in HandPcs <=> go[Input].pc \in HandPcs,
         go[Input].pc \in HandPcs => go'[Input].frame = go[Input].frame
  PROVE  inputHand' = inputHand
BY DEF LineOK

\* A step that changes nothing the line is made of.
LEMMA LineStays ==
  ASSUME loopHand' = loopHand, inputHand' = inputHand, inputQueue'.other = inputQueue.other,
         procQueue'.other = procQueue.other, UNCHANGED <<arrived, begun, baseDone>>
  PROVE  UNCHANGED D!vars
<1>1. line' = line
  BY DEF line
<1>2. FramesOf(arrived)' = FramesOf(arrived) /\ InOrder(begun)' = InOrder(begun)
  BY DEF FramesOf, InOrder
<1> QED BY <1>1, <1>2 DEF D!vars

\* InOrder grows with the data and control frames.
LEMMA InOrderAppend ==
  ASSUME NEW b \in Seq(Frame), NEW f \in Frame
  PROVE  InOrder(Append(b, f)) = IF isSystemFrame(f) THEN InOrder(b) ELSE Append(InOrder(b), f)
<1> DEFINE a == Append(b, f)
           K == {i \in 1..Len(b) : ~isSystemFrame(b[i])}
           Ka == {i \in 1..Len(a) : ~isSystemFrame(a[i])}
<1>1. /\ a \in Seq(Frame) /\ Len(a) = Len(b) + 1 /\ Len(b) \in Nat /\ a[Len(b) + 1] = f
      /\ \A i \in 1..Len(b) : a[i] = b[i]
  BY AppendProperties
<1>2. /\ Pick(a, K) = Pick(b, K)
      /\ Pick(a, K \cup {Len(b) + 1}) = Append(Pick(b, K), f)
  BY PickAppend
<1> HIDE DEF a
<1>3. \A i : i \in 1..Len(a) <=> i \in 1..Len(b) \/ i = Len(b) + 1
  BY <1>1
<1>4. Ka = IF isSystemFrame(f) THEN K ELSE K \cup {Len(b) + 1}
  <2>1. CASE isSystemFrame(f)
    <3>1. \A i : i \in Ka <=> i \in K
      BY <1>1, <1>3, <2>1
    <3> QED BY <2>1, <3>1
  <2>2. CASE ~isSystemFrame(f)
    <3>1. \A i : i \in Ka <=> i \in K \cup {Len(b) + 1}
      BY <1>1, <1>3, <2>2
    <3> QED BY <2>2, <3>1
  <2> QED BY <2>1, <2>2
<1>5. InOrder(a) = Pick(a, Ka) /\ InOrder(b) = Pick(b, K)
  BY DEF InOrder
<1> HIDE DEF K, Ka
<1>6. InOrder(a) = IF isSystemFrame(f) THEN InOrder(b) ELSE Append(InOrder(b), f)
  BY <1>2, <1>4, <1>5
<1> QED BY <1>6 DEF a

\* OrderedDelivery's Without is Pick.
LEMMA WithoutIsPick ==
  ASSUME NEW s \in Seq(Frame), NEW R
  PROVE  D!Without(s, R) = Pick(s, (1..Len(s)) \ R)
<1> DEFINE K == (1..Len(s)) \ R
           n == Cardinality(K)
           at(k) == CHOOSE i \in K : Place(K, i) = k
           at2(k) == CHOOSE i \in K : D!Cardinality({j \in K : j <= i}) = k
<1>1. \A S : D!Cardinality(S) = Cardinality(S)
    BY DEF D!Cardinality, Cardinality
<1>2. Pick(s, K) = [k \in 1..n |-> s[at(k)]]
    BY DEF Pick
<1>3. \A i : Place(K, i) = D!Cardinality({j \in K : j <= i})
    BY <1>1 DEF Place
<1>4. D!Without(s, R) = [k \in 1..D!Cardinality(K) |-> s[at2(k)]]
    BY DEF D!Without
<1>5. Len(s) \in Nat /\ K \in SUBSET (1..Len(s))
    OBVIOUS
<1>6. /\ \A i, j \in K : i < j => Place(K, i) < Place(K, j)
      /\ \A k \in 1..n : \E i \in K : Place(K, i) = k
  <2> HIDE DEF K
  <2> QED BY <1>5, Places
<1>10. \A i \in K : i \in Int
  OBVIOUS
<1>11. \A i \in K : Place(K, i) \in Int
  <2> HIDE DEF K
  <2>1. \A i \in K : Place(K, i) \in 1..Cardinality(K)
    BY <1>5, Places
  <2>2. Cardinality(K) \in Nat
    BY <1>5, Places
  <2> QED BY <2>1, <2>2
<1>7. ASSUME NEW k \in 1..n PROVE at(k) = at2(k)
  <2>1. at(k) \in K /\ Place(K, at(k)) = k
    BY <1>6
  <2>2. \E i \in K : D!Cardinality({j \in K : j <= i}) = k
    BY <1>3, <1>6
  <2>3. at2(k) \in K /\ D!Cardinality({j \in K : j <= at2(k)}) = k
    BY <2>2
  <2>4. Place(K, at2(k)) = k
    BY <1>3, <2>3
  <2> HIDE DEF at, at2, K, n
  <2>5. PICK x, y : x = at(k) /\ y = at2(k)
    OBVIOUS
  <2> QED BY <1>6, <1>10, <1>11, <2>1, <2>3, <2>4, <2>5
<1> HIDE DEF at, at2, K
<1>8. D!Cardinality(K) = n
  BY <1>1
<1>9. D!Without(s, R) = Pick(s, K)
  BY <1>2, <1>4, <1>7, <1>8
<1> QED BY <1>9 DEF K
\* Frames leave the middle of the line.
LEMMA DropStep ==
  ASSUME NEW A \in Seq(Frame), NEW P \in Seq(Frame), NEW B \in Seq(Frame), NEW K \in SUBSET (1..Len(P)),
         line = (A \o P) \o B, line' = (A \o Pick(P, K)) \o B,
         ~baseDone => \A i \in (1..Len(P)) \ K : Interruptible(P[i]),
         UNCHANGED <<arrived, begun, baseDone>>
  PROVE  D!Next
<1>1. PICK s : s = line /\ s = (A \o P) \o B
  OBVIOUS
<1>2. PICK R : R = After(A, P, K)
  OBVIOUS
<1>3. Narrowed(s, R, A, P, B, K)
  <2>1. s = (A \o P) \o B
    BY <1>1
  <2> QED BY <1>2, <2>1, PickMiddle, Zenon
<1>8. s \in Seq(Frame)
  <2>1. s = (A \o P) \o B
    BY <1>1
  <2> QED BY <2>1, ConcatProperties
<1>9. /\ R \in SUBSET (1..Len(s)) /\ D!Without(s, R) = (A \o Pick(P, K)) \o B
      /\ \A r \in R : \E i \in (1..Len(P)) \ K : s[r] = P[i]
  BY <1>3, <1>8, WithoutIsPick DEF Narrowed
<1>4. line' = D!Without(line, R) /\ R \in SUBSET (1..Len(line))
  BY <1>1, <1>9
<1>5. ~baseDone => \A r \in R : line[r] \notin {f \in InOrderFrames : ~Interruptible(f)}
  BY <1>1, <1>9
<1>6. FramesOf(arrived)' = FramesOf(arrived) /\ InOrder(begun)' = InOrder(begun)
  BY DEF FramesOf, InOrder
<1>7. D!Drop
  BY <1>4, <1>5, <1>6 DEF D!Drop
<1> QED BY <1>7 DEF D!Next

\* A frame goes from the head of the line to its handler.
LEMMA ServeStep ==
  ASSUME TypeInv, NEW f \in Frame, ~isSystemFrame(f), NEW B \in Seq(Frame), line = <<f>> \o B, line' = B,
         begun' = Append(begun, f), UNCHANGED <<arrived, baseDone>>
  PROVE  D!Next
<1> DEFINE s == <<f>> \o B
<1>1. s # <<>> /\ Head(s) = f /\ Tail(s) = B
  <2>1. /\ s \in Seq(Frame) /\ Len(s) = Len(B) + 1 /\ Len(B) \in Nat /\ s[1] = f
        /\ \A i \in 1..Len(B) : s[i + 1] = B[i]
    OBVIOUS
  <2> HIDE DEF s
  <2>2. s # <<>> /\ Head(s) = f
    BY <2>1
  <2>3. /\ Tail(s) \in Seq(Frame) /\ Len(Tail(s)) = Len(B)
        /\ \A i \in 1..Len(B) : Tail(s)[i] = s[i + 1]
    BY <2>1, <2>2, HeadTailProperties
  <2>4. \A i \in 1..Len(B) : Tail(s)[i] = B[i]
    BY <2>1, <2>3
  <2>5. Tail(s) = B
    BY <2>3, <2>4, SeqEqual
  <2> QED BY <2>2, <2>5
<1>2. line = s
  OBVIOUS
<1> HIDE DEF s
<1>3. InOrder(begun)' = Append(InOrder(begun), f)
  <2>1. InOrder(Append(begun, f)) = Append(InOrder(begun), f)
    BY QueueSeqs, InOrderAppend
  <2> QED BY <2>1
<1>4. FramesOf(arrived)' = FramesOf(arrived)
  BY DEF FramesOf
<1>5. D!Serve
  BY <1>1, <1>2, <1>3, <1>4 DEF D!Serve
<1> QED BY <1>5 DEF D!Next

\* The line split after, and before, the process queue.
Split(l, A, P, H, B) ==
    /\ A \o P \in Seq(Frame) /\ H \o B \in Seq(Frame) /\ P \o (H \o B) \in Seq(Frame)
    /\ l = (A \o P) \o (H \o B)
    /\ l = A \o (P \o (H \o B))

\* Concatenation is associative, so that it is the same line either way.
LEMMA LineSplit ==
  ASSUME NEW A \in Seq(Frame), NEW P \in Seq(Frame), NEW H \in Seq(Frame), NEW B \in Seq(Frame),
         NEW l, l = ((A \o P) \o H) \o B
  PROVE  Split(l, A, P, H, B)
<1> DEFINE u == A \o P
           v == H \o B
<1>1. u \in Seq(Frame) /\ v \in Seq(Frame)
  BY ConcatProperties
<1>2. P \o v \in Seq(Frame)
  BY <1>1, ConcatProperties
<1>3. u \o v = A \o (P \o v)
  <2> HIDE DEF v
  <2> QED BY <1>1, ConcatAssociative
<1>4. (u \o H) \o B = u \o v
  <2> HIDE DEF u
  <2> QED BY <1>1, ConcatAssociative
<1> QED BY <1>1, <1>2, <1>3, <1>4 DEF Split

\* A reset of the process queue, whoever does it.
LEMMA ResetStep ==
  ASSUME TypeInv, LineOK, loopHand' = loopHand, inputHand' = inputHand, inputQueue' = inputQueue,
         procQueue' = reset(procQueue), UNCHANGED <<arrived, begun, baseDone>>
  PROVE  D!Next
<1>1. /\ procQueue.other \in Seq(Frame) /\ inputQueue.other \in Seq(Frame) /\ procQueue \in Queue
      /\ loopHand \in Seq(Frame) /\ inputHand \in Seq(Frame)
  BY QueueSeqs DEF LineOK
<1>2. PICK A \in Seq(Frame), P \in Seq(Frame), H \in Seq(Frame), Q \in Seq(Frame) :
        A = loopHand /\ P = procQueue.other /\ H = inputHand /\ Q = inputQueue.other
  BY <1>1
<1>3. PICK K : K = Survivors(P)
  OBVIOUS
<1>4. K \in SUBSET (1..Len(P)) /\ \A i \in (1..Len(P)) \ K : Interruptible(P[i])
  BY <1>3 DEF Survivors
<1>5. PICK p : p = Pick(P, K) /\ p \in Seq(Frame)
  BY <1>4, PickFrom
<1>6. procQueue'.other = p
  BY <1>1, <1>2, <1>3, <1>5 DEF reset, keep, Queue
<1>7. PICK B : B = H \o Q /\ B \in Seq(Frame)
  BY ConcatProperties
<1>8. line = (A \o P) \o B
  <2>1. PICK l : l = line /\ l = ((A \o P) \o H) \o Q
    BY <1>2 DEF line
  <2>2. l = (A \o P) \o (H \o Q)
    <3>1. Split(l, A, P, H, Q)
      BY <2>1, LineSplit, Zenon
    <3> QED BY <3>1 DEF Split
  <2> QED BY <1>7, <2>1, <2>2
<1>9. line' = (A \o Pick(P, K)) \o B
  <2>1. PICK l : l = line' /\ l = ((A \o p) \o H) \o Q
    BY <1>2, <1>6 DEF line
  <2>2. l = (A \o p) \o (H \o Q)
    <3>1. p \in Seq(Frame) /\ l = ((A \o p) \o H) \o Q
      BY <1>5, <2>1
    <3>2. Split(l, A, p, H, Q)
      BY <3>1, LineSplit, Zenon
    <3> QED BY <3>2 DEF Split
  <2> QED BY <1>5, <1>7, <2>1, <2>2
<1> QED BY <1>4, <1>7, <1>8, <1>9, DropStep

\* The line made of what the process goroutine holds, the process queue, what the
\* input goroutine holds and the input queue.
Line(A, P, H, B) == ((A \o P) \o H) \o B

\* The line of the refinement is that one, before a step and after it.
LEMMA LineIs ==
  /\ line = Line(loopHand, procQueue.other, inputHand, inputQueue.other)
  /\ line' = Line(loopHand', procQueue'.other, inputHand', inputQueue'.other)
BY DEF line, Line

\* A sequence is its first element and the rest.
LEMMA HeadThenTail ==
  ASSUME NEW s \in Seq(Frame), s # <<>>
  PROVE  <<Head(s)>> \o Tail(s) = s /\ Head(s) \in Frame /\ Tail(s) \in Seq(Frame)
<1> DEFINE h == Head(s)
           t == Tail(s)
           c == <<h>> \o t
<1>1. h \in Frame /\ h = s[1] /\ t \in Seq(Frame) /\ Len(t) = Len(s) - 1
      /\ \A i \in 1..Len(t) : t[i] = s[i+1]
  BY HeadAndTail
<1>2. Len(s) \in Nat /\ Len(s) # 0
  BY EmptySeq
<1> HIDE DEF h, t
<1>3. /\ c \in Seq(Frame) /\ Len(c) = Len(t) + 1 /\ c[1] = h
      /\ \A i \in 1..Len(t) : c[i + 1] = t[i]
  BY <1>1
<1> HIDE DEF c
<1>4. Len(c) = Len(s)
  BY <1>1, <1>2, <1>3
<1>5. ASSUME NEW i \in 1..Len(c) PROVE c[i] = s[i]
  <2>1. CASE i = 1
    BY <1>1, <1>3, <2>1
  <2>2. CASE i # 1
    <3>1. i - 1 \in 1..Len(t) /\ (i - 1) + 1 = i
      BY <1>1, <1>2, <1>3, <1>4, <2>2
    <3> QED BY <1>1, <1>3, <3>1
  <2> QED BY <2>1, <2>2
<1>6. c = s
  BY <1>3, <1>4, <1>5, SeqEqual
<1> QED BY <1>1, <1>6 DEF h, t, c

\* What the process goroutine holds is the head of the line.
StartsWith(l, f, r) == r \in Seq(Frame) /\ l = <<f>> \o r

\* The rest of the line is the line without it.
LEMMA LineHead ==
  ASSUME NEW f \in Frame, NEW P \in Seq(Frame), NEW H \in Seq(Frame), NEW B \in Seq(Frame)
  PROVE  StartsWith(Line(<<f>>, P, H, B), f, Line(<<>>, P, H, B))
<1>1. PICK A \in Seq(Frame) : A = <<f>>
  <2>1. <<f>> \in Seq(Frame)
    OBVIOUS
  <2> QED BY <2>1, Zenon
<1>2. PICK E \in Seq(Frame) : E = <<>>
  BY EmptySeq
<1>3. PICK u, v : u = Line(A, P, H, B) /\ v = Line(E, P, H, B)
  OBVIOUS
<1>4. Split(u, A, P, H, B) /\ Split(v, E, P, H, B)
  <2>1. u = ((A \o P) \o H) \o B /\ v = ((E \o P) \o H) \o B
    BY <1>3 DEF Line
  <2>2. Split(u, A, P, H, B)
    BY <2>1, LineSplit, Zenon
  <2>3. Split(v, E, P, H, B)
    BY <2>1, LineSplit, Zenon
  <2> QED BY <2>2, <2>3
<1>5. PICK r : r = P \o (H \o B) /\ r \in Seq(Frame)
  BY <1>4 DEF Split
<1>6. u = A \o r /\ v = E \o r
  BY <1>4, <1>5 DEF Split
<1>7. v = r
  BY <1>2, <1>5, <1>6, ConcatEmptySeq
<1> QED BY <1>1, <1>2, <1>3, <1>5, <1>6, <1>7 DEF StartsWith

\* A process goroutine takes the first frame of its queue.
LEMMA LinePull ==
  ASSUME NEW P \in Seq(Frame), P # <<>>, NEW H, NEW B
  PROVE  Line(<<Head(P)>>, Tail(P), H, B) = Line(<<>>, P, H, B)
<1>1. <<Head(P)>> \o Tail(P) = P /\ <<>> \o P = P
  BY HeadThenTail, ConcatEmptySeq
<1> QED BY <1>1 DEF Line

\* It puts it back.
LEMMA LineBack ==
  ASSUME NEW f \in Frame, NEW P \in Seq(Frame), NEW H, NEW B
  PROVE  Line(<<>>, <<f>> \o P, H, B) = Line(<<f>>, P, H, B)
<1>1. <<f>> \o P \in Seq(Frame)
  BY ConcatProperties
<1>2. <<>> \o (<<f>> \o P) = <<f>> \o P
  BY <1>1, ConcatEmptySeq
<1> QED BY <1>2 DEF Line

\* The input goroutine takes the first data or control frame of its queue.
LEMMA LineTake ==
  ASSUME NEW A \in Seq(Frame), NEW P \in Seq(Frame), NEW B \in Seq(Frame), B # <<>>
  PROVE  Line(A, P, <<Head(B)>>, Tail(B)) = Line(A, P, <<>>, B)
<1>1. PICK u : u = A \o P /\ u \in Seq(Frame)
  BY ConcatProperties
<1>2. PICK h, t : h = Head(B) /\ t = Tail(B) /\ h \in Frame /\ t \in Seq(Frame) /\ <<h>> \o t = B
  BY HeadThenTail
<1>3. (u \o <<h>>) \o t = u \o (<<h>> \o t)
  BY <1>1, <1>2, ConcatAssociative
<1>4. u \o <<>> = u
  BY <1>1, ConcatEmptySeq
<1> QED BY <1>1, <1>2, <1>3, <1>4 DEF Line

\* It hands it on.
LEMMA LineHand ==
  ASSUME NEW A \in Seq(Frame), NEW P \in Seq(Frame), NEW f \in Frame, NEW B \in Seq(Frame)
  PROVE  Line(A, Append(P, f), <<>>, B) = Line(A, P, <<f>>, B)
<1>1. Append(P, f) = P \o <<f>> /\ Append(P, f) \in Seq(Frame)
  BY AppendIsConcat, AppendProperties
<1>2. A \o (P \o <<f>>) = (A \o P) \o <<f>>
  BY ConcatAssociative
<1>3. A \o Append(P, f) \in Seq(Frame)
  BY <1>1, ConcatProperties
<1>4. (A \o Append(P, f)) \o <<>> = A \o Append(P, f)
  BY <1>3, ConcatEmptySeq
<1> QED BY <1>1, <1>2, <1>4 DEF Line

\* A frame joins the line at its end.
EndsWith(l, m, f) == m = Append(l, f)

\* A frame put on the input queue joins the line at its end.
LEMMA LineJoin ==
  ASSUME NEW A \in Seq(Frame), NEW P \in Seq(Frame), NEW H \in Seq(Frame), NEW B \in Seq(Frame), NEW f \in Frame,
         NEW l, l = Line(A, P, H, B), NEW m, m = Line(A, P, H, Append(B, f))
  PROVE  EndsWith(l, m, f)
<1>1. PICK u : u = (A \o P) \o H /\ u \in Seq(Frame)
  <2>1. A \o P \in Seq(Frame)
    BY ConcatProperties
  <2> QED BY <2>1, ConcatProperties
<1>2. Append(B, f) = B \o <<f>>
  BY AppendIsConcat
<1>3. u \o B \in Seq(Frame)
  BY <1>1, ConcatProperties
<1>4. Append(u \o B, f) = (u \o B) \o <<f>>
  BY <1>3, AppendIsConcat
<1>5. u \o (B \o <<f>>) = (u \o B) \o <<f>>
  BY <1>1, ConcatAssociative
<1> QED BY <1>1, <1>2, <1>4, <1>5 DEF Line, EndsWith

\* A step that leaves the line what it is.
LEMMA LineSame ==
  ASSUME line' = line, UNCHANGED <<arrived, begun, baseDone>>
  PROVE  UNCHANGED D!vars
<1>1. FramesOf(arrived)' = FramesOf(arrived) /\ InOrder(begun)' = InOrder(begun)
  BY DEF FramesOf, InOrder
<1> QED BY <1>1 DEF D!vars

\* A sequence of one without its element.
LEMMA PickNone ==
  ASSUME NEW f \in Frame
  PROVE  Pick(<<f>>, {}) = <<>>
<1> DEFINE s == <<f>>
           e == <<>>
           m == [k \in {} |-> 0]
<1>1. s \in Seq(Frame) /\ e \in Seq(Frame) /\ Len(e) = 0
  BY EmptySeq
<1>2. {} \in SUBSET (1..Len(s)) /\ 1..Len(e) = {}
  BY <1>1
<1>3. Lists(e, s, {}, m)
  <2>1. m \in [1..Len(e) -> {}]
    <3>1. m \in [{} -> {}]
      OBVIOUS
    <3>2. 1..Len(e) = {}
      BY <1>2
    <3> HIDE DEF m, e
    <3> QED BY <3>1, <3>2, Zenon
  <2> QED BY <1>2, <2>1 DEF Lists
<1> HIDE DEF s, e, m
<1>4. e = Pick(s, {})
  BY <1>1, <1>2, <1>3, PickUnique, Zenon
<1> QED BY <1>4 DEF s, e

\* The frame that the process goroutine held is gone.
LEMMA DropHead ==
  ASSUME TypeInv, LineOK, NEW f \in Frame, Interruptible(f), loopHand = <<f>>, loopHand' = <<>>,
         inputHand' = inputHand, inputQueue' = inputQueue, procQueue' = procQueue,
         UNCHANGED <<arrived, begun, baseDone>>
  PROVE  D!Next
<1>1. PICK P \in Seq(Frame), H \in Seq(Frame), B \in Seq(Frame) :
        P = procQueue.other /\ H = inputHand /\ B = inputQueue.other
  BY QueueSeqs DEF LineOK
<1>2. PICK l, r : l = Line(<<f>>, P, H, B) /\ r = Line(<<>>, P, H, B)
  OBVIOUS
<1>9. StartsWith(l, f, r)
  BY <1>2, LineHead
<1>3. line = <<f>> \o r /\ line' = r /\ r \in Seq(Frame)
  <2>1. line = Line(<<f>>, P, H, B) /\ line' = Line(<<>>, P, H, B)
    BY <1>1, LineIs
  <2> QED BY <1>2, <1>9, <2>1 DEF StartsWith
<1>4. PICK A, E, K : A = <<f>> /\ E = <<>> /\ K = {}
  OBVIOUS
<1>5. /\ A \in Seq(Frame) /\ E \in Seq(Frame) /\ K \in SUBSET (1..Len(A)) /\ E = Pick(A, K)
      /\ \A i \in 1..Len(A) : A[i] = f
  BY <1>4, EmptySeq, PickNone
<1>6. E \o A = A /\ E \o E = E
  BY <1>4, <1>5, ConcatEmptySeq
<1>7. E \o r = r
  BY <1>3, <1>4, ConcatEmptySeq
<1>8. line = (E \o A) \o r /\ line' = (E \o Pick(A, K)) \o r
  BY <1>3, <1>4, <1>5, <1>6, <1>7
<1>10. \A i \in (1..Len(A)) \ K : Interruptible(A[i])
  BY <1>5
<1> QED BY <1>3, <1>5, <1>8, <1>10, DropStep

\* The frame that the input goroutine held is gone, as the processor is torn down.
LEMMA DropMiddle ==
  ASSUME TypeInv, LineOK, NEW f \in Frame, baseDone, inputHand = <<f>>, inputHand' = <<>>,
         loopHand' = loopHand, inputQueue' = inputQueue, procQueue' = procQueue,
         UNCHANGED <<arrived, begun, baseDone>>
  PROVE  D!Next
<1>1. PICK A \in Seq(Frame), P \in Seq(Frame), B \in Seq(Frame) :
        A = loopHand /\ P = procQueue.other /\ B = inputQueue.other
  BY QueueSeqs DEF LineOK
<1>2. PICK u \in Seq(Frame) : u = A \o P
  <2>1. A \o P \in Seq(Frame)
    BY ConcatProperties
  <2> QED BY <2>1, Zenon
<1>3. PICK H, E, K : H = <<f>> /\ E = <<>> /\ K = {}
  OBVIOUS
<1>4. /\ H \in Seq(Frame) /\ K \in SUBSET (1..Len(H)) /\ E = Pick(H, K)
  BY <1>3, PickNone
<1>5. line = (u \o H) \o B /\ line' = (u \o Pick(H, K)) \o B
  <2>1. line = Line(A, P, H, B) /\ line' = Line(A, P, E, B)
    BY <1>1, <1>3, LineIs
  <2> QED BY <1>2, <1>4, <2>1 DEF Line
<1> QED BY <1>4, <1>5, DropStep

(***************************************************************************)
(* What the steps need besides: a frame that has joined the line was       *)
(* queued, so that none joins twice, and the input goroutine is stopped by *)
(* nothing but the end of baseCtx, so that it drops what it holds only     *)
(* once the processor is torn down.                                        *)
(***************************************************************************)
QueuedOnce == \A f \in FramesOf(arrived) : ~Unsent(f)

OnceInv == QueuedOnce /\ ~go[Input].stop /\ (procRunning => Len(go) >= 4)

\* A goroutine that drains a queue is not stopped by what it does.
LEMMA CarryStop ==
  ASSUME TypeInv, TypeInv', NEW g \in Goroutines, Carries(g)
  PROVE  Len(go') = Len(go) /\ \A h \in Goroutines : go'[h].stop = go[h].stop
<1>1. go[g] \in Goroutine
  BY TypeInvGo
<1>2. PICK r : Update(g, r) /\ r.stop = go[g].stop
  <2>1. CASE GetCheck(g)
    <3> DEFINE r == [go[g] EXCEPT !.pc = IF Stopped(g) THEN "exited" ELSE "pull",
                                  !.frame = NoFrame, !.on = 0, !.woken = FALSE]
    <3>1. r.stop = go[g].stop
      BY <1>1 DEF Goroutine
    <3>2. Update(g, r)
      BY <2>1 DEF GetCheck
    <3> QED BY <3>1, <3>2
  <2>2. CASE Pull(g)
    <3> DEFINE r == [go[g] EXCEPT !.pc = IF g = Input THEN "gate" ELSE "take",
                                  !.frame = head(QueueOf(g))]
    <3>1. r.stop = go[g].stop
      BY <1>1 DEF Goroutine
    <3>2. Update(g, r)
      BY <2>2 DEF Pull
    <3> QED BY <3>1, <3>2
  <2>3. CASE BeginPause(g)
    <3> DEFINE r == [go[g] EXCEPT !.pc = "pauseClear", !.on = processEvent]
    <3>1. r.stop = go[g].stop
      BY <1>1 DEF Goroutine
    <3>2. Update(g, r)
      BY <2>3 DEF BeginPause
    <3> QED BY <3>1, <3>2
  <2>4. CASE giveBack(g) \/ Begin(g) \/ BroadcastResetGate(g) \/ Flush(g)
    <3>1. PICK pc : Goto(g, pc)
      BY <2>4 DEF giveBack, Begin, BroadcastResetGate, Flush
    <3> DEFINE r == [go[g] EXCEPT !.pc = pc]
    <3>2. r.stop = go[g].stop
      BY <1>1 DEF Goroutine
    <3>3. Update(g, r)
      BY <3>1 DEF Goto
    <3> QED BY <3>2, <3>3
  <2> QED BY <2>1, <2>2, <2>3, <2>4 DEF Carries
<1> QED BY <1>2, UpdateOne

\* No step, and no stuttering, breaks it.
LEMMA JoinNext ==
  TypeInv /\ TypeInv' /\ LoopInv /\ OnceInv /\ [Next]_vars => OnceInv'
<1> SUFFICES ASSUME TypeInv, TypeInv', LoopInv, OnceInv, [Next]_vars PROVE OnceInv'
  OBVIOUS
<1>1. /\ {Life, Watch, Input} \subseteq Goroutines /\ Loops \subseteq Goroutines /\ Len(go) \in Nat
      /\ \A h \in Goroutines : go[h] \in Goroutine
  BY TypeInvGo
<1>2. QueuedOnce /\ ~go[Input].stop /\ (procRunning => Len(go) >= 4 /\ Len(go) # Input)
  <2>1. QueuedOnce /\ ~go[Input].stop /\ (procRunning => Len(go) >= 4)
    BY DEF OnceInv
  <2>2. Len(go) >= 4 => Len(go) # Input
    <3>1. PICK n \in Nat : n = Len(go)
      BY <1>1
    <3>2. n >= 4 => n # 3
      OBVIOUS
    <3> QED BY <3>1, <3>2 DEF Input
  <2> QED BY <2>1, <2>2
<1>3. arrived \in Seq(Frame) /\ sent \in [Frame -> {"unsent", "opening", "queued", "refused"}]
  BY QueueSeqs DEF TypeInv, TypeOK, QueueOK
<1>4. FramesOf(arrived) \subseteq Frame
  BY <1>3, ElementOfSeq DEF FramesOf
<1>5. ASSUME UNCHANGED <<arrived, sent>> PROVE QueuedOnce'
  BY <1>2, <1>5 DEF QueuedOnce, Unsent, FramesOf
<1> USE DEF queueVars, histVars, taskVars
<1>6. ASSUME NEW f \in Frame, Send(f) PROVE OnceInv'
  <2>1. UNCHANGED <<go, procRunning>>
    BY <1>6 DEF Send, QueueFrame, RefuseFrame, OpenOnStart
  <2>2. \A h \in Frame : Unsent(h)' => Unsent(h)
    BY <1>3, <1>6 DEF Send, QueueFrame, RefuseFrame, OpenOnStart, Unsent
  <2>3. \A h \in FramesOf(arrived)' : h \in Frame /\ (h \in FramesOf(arrived) \/ ~Unsent(h)')
    <3>1. CASE arrived' = arrived
      BY <1>4, <3>1 DEF FramesOf
    <3>2. CASE arrived' # arrived
      <4>1. arrived' = Append(arrived, f) /\ QueueFrame(f)
        BY <1>6, <3>2 DEF Send, QueueFrame, RefuseFrame, OpenOnStart
      <4>2. FramesOf(Append(arrived, f)) = FramesOf(arrived) \cup {f}
        BY <1>3, AppendTo
      <4>3. FramesOf(arrived)' = FramesOf(arrived) \cup {f}
        BY <4>1, <4>2 DEF FramesOf
      <4>4. ~Unsent(f)'
        BY <1>3, <4>1 DEF QueueFrame, Unsent
      <4> QED BY <1>4, <4>3, <4>4
    <3> QED BY <3>1, <3>2
  <2>4. QueuedOnce'
    BY <1>2, <2>2, <2>3 DEF QueuedOnce
  <2> QED BY <1>2, <2>1, <2>4 DEF OnceInv
<1>7. CASE Setup
  <2>1. /\ go' = [go EXCEPT ![Life].pc = "settingUp", ![Input].pc = "startGate"]
        /\ UNCHANGED <<sent, arrived, procRunning>>
    BY <1>7 DEF Setup
  <2>2. DOMAIN go = 1..Len(go) /\ DOMAIN go' = 1..Len(go') /\ Len(go') \in Nat
    BY LenProperties DEF TypeInv, TypeOK, TaskOK
  <2>3. Len(go') = Len(go)
    <3>1. Len(go) \in Nat /\ Len(go') \in Nat /\ 1..Len(go') = 1..Len(go)
      BY <1>1, <2>1, <2>2
    <3> QED BY <3>1
  <2>4. go'[Input].stop = go[Input].stop
    BY <1>1, <2>1, <2>2 DEF Goroutine, Goroutines
  <2> QED BY <1>2, <1>5, <2>1, <2>3, <2>4 DEF OnceInv
<1>8. CASE WatchStep \/ SetupFinished \/ Cleanup \/ LifeStep
  <2>1. Aside
    BY <1>8, AsideSteps
  <2>2. /\ UNCHANGED <<sent, arrived>> /\ Len(go') = Len(go) /\ (procRunning' => procRunning)
        /\ go'[Input].stop = go[Input].stop
    BY <1>2, <2>1 DEF Aside
  <2> QED BY <1>2, <1>5, <2>2 DEF OnceInv
<1>9. ASSUME NEW g \in Loops \cup {Input}, Drain(g) \/ Top(g) \/ takeCurFrame(g) \/ giveBack(g),
             UNCHANGED <<arrived, sent>>
      PROVE  OnceInv'
  <2>1. g \in Goroutines /\ g # Life /\ g # Watch
    BY <1>1 DEF Loops, Life, Watch, Input
  <2>2. procRunning' = procRunning
    BY <1>9, <2>1, DrainMoves
  <2>3. Len(go') = Len(go) /\ go'[Input].stop = go[Input].stop
    <3>1. CASE Carries(g)
      BY <1>1, <2>1, <3>1, CarryStop
    <3>2. CASE \E pc : Walks(g, pc)
      BY <3>2 DEF Walks, Moves
    <3> QED BY <1>9, <2>1, <3>1, <3>2, DrainSteps
  <2> QED BY <1>2, <1>5, <1>9, <2>2, <2>3 DEF OnceInv
<1>10. CASE ProcessStep
  <2>1. UNCHANGED <<arrived, sent>>
    BY <1>10, RunSteps
  <2>2. PICK g \in Loops : Drain(g) \/ Top(g) \/ takeCurFrame(g) \/ giveBack(g)
    BY <1>10 DEF ProcessStep, LoopStep
  <2> QED BY <1>9, <2>1, <2>2
<1>11. CASE InputStep
  <2>1. UNCHANGED <<arrived, sent>>
    BY <1>11, RunSteps
  <2>2. CASE Drain(Input)
    BY <1>9, <2>1, <2>2
  <2>3. CASE HandOn
    <3>1. Goto(Input, "get") /\ procRunning' = procRunning
      BY <2>3 DEF HandOn
    <3>2. Walks(Input, "get")
      BY <1>1, <3>1, GotoWalks
    <3> QED BY <1>2, <1>5, <2>1, <3>1, <3>2 DEF OnceInv, Walks, Moves
  <2>4. CASE ~Drain(Input) /\ ~HandOn
    <3>1. /\ go'[Input].stop = go[Input].stop
          /\ \/ Len(go') = Len(go) /\ (procRunning' => procRunning)
             \/ Len(go') = Len(go) + 1
      BY <1>2, <1>11, <2>4, InputKeeps
    <3>2. Len(go) >= 3
      BY DEF TypeInv, TypeOK, TaskOK
    <3>3. procRunning' => Len(go') >= 4
      BY <1>1, <1>2, <3>1, <3>2
    <3> QED BY <1>2, <1>5, <2>1, <3>1, <3>3 DEF OnceInv
  <2> QED BY <2>2, <2>3, <2>4
<1>12. CASE UNCHANGED vars
  BY <1>2, <1>5, <1>12 DEF vars, OnceInv
<1> QED BY <1>6, <1>7, <1>8, <1>10, <1>11, <1>12 DEF Next

\* Nothing has been queued on a new processor.
LEMMA JoinInit == Init => OnceInv
BY DEF Init, OnceInv, QueuedOnce, FramesOf, goroutine, Input

-----------------------------------------------------------------------------
(***************************************************************************)
(* Every step of the processor is a step of the line, or none.             *)
(***************************************************************************)
LineStep == D!Next \/ UNCHANGED D!vars

\* The goroutines stay as they are.
LEMMA HandsStay ==
  ASSUME go' = go
  PROVE  loopHand' = loopHand /\ inputHand' = inputHand
BY DEF loopHand, inputHand, Holding, Loops, Input

\* QueueFrame: a data or control frame joins the line.
LEMMA SendLine ==
  ASSUME TypeInv, PlaceInv, LineOK, OnceInv, NEW f \in Frame, Send(f)
  PROVE  LineStep
<1> USE DEF queueVars, histVars, taskVars
<1>1. go' = go /\ UNCHANGED <<procQueue, begun, baseDone>>
  BY DEF Send, QueueFrame, RefuseFrame, OpenOnStart
<1>2. loopHand' = loopHand /\ inputHand' = inputHand
  BY <1>1, HandsStay
<1>3. CASE RefuseFrame(f) \/ OpenOnStart(f)
  <2>1. UNCHANGED <<inputQueue, arrived>>
    BY <1>3 DEF RefuseFrame, OpenOnStart
  <2> QED BY <1>1, <1>2, <2>1, LineStays DEF LineStep
<1>4. CASE QueueFrame(f)
  <2>1. inputQueue \in Queue /\ arrived \in Seq(Frame) /\ Tiered(inputQueue)
    BY QueueSeqs DEF PlaceInv, TierInv
  <2>2. /\ isSystemFrame(f) => push(inputQueue, f).other = inputQueue.other
        /\ ~isSystemFrame(f) => push(inputQueue, f).other = Append(inputQueue.other, f)
    BY <2>1, PushTiers
  <2>3. inputQueue' = push(inputQueue, f) /\ sent[f] = "unsent"
    BY <1>4 DEF QueueFrame
  <2>4. CASE isSystemFrame(f)
    <3>1. inputQueue'.other = inputQueue.other /\ arrived' = arrived
      BY <1>4, <2>2, <2>3, <2>4 DEF QueueFrame
    <3> QED BY <1>1, <1>2, <3>1, LineStays DEF LineStep
  <2>5. CASE ~isSystemFrame(f)
    <3>1. inputQueue'.other = Append(inputQueue.other, f) /\ arrived' = Append(arrived, f)
      BY <1>4, <2>2, <2>3, <2>5 DEF QueueFrame
    <3>2. PICK A \in Seq(Frame), P \in Seq(Frame), H \in Seq(Frame), B \in Seq(Frame) :
            A = loopHand /\ P = procQueue.other /\ H = inputHand /\ B = inputQueue.other
      BY QueueSeqs DEF LineOK
    <3>3. line = Line(A, P, H, B) /\ line' = Line(A, P, H, Append(B, f))
      BY <1>1, <1>2, <3>1, <3>2, LineIs
    <3>5. line' = Append(line, f)
      <4>1. PICK l, m : l = line /\ m = line'
        OBVIOUS
      <4>2. m = Append(l, f)
        <5>1. l = Line(A, P, H, B)
          BY <3>3, <4>1
        <5>2. m = Line(A, P, H, Append(B, f))
          BY <3>3, <4>1
        <5>3. EndsWith(l, m, f)
          BY <5>1, <5>2, LineJoin, Zenon
        <5> QED BY <5>3 DEF EndsWith
      <4> QED BY <4>1, <4>2
    <3>6. FramesOf(Append(arrived, f)) = FramesOf(arrived) \cup {f}
      BY <2>1, AppendTo
    <3>7. FramesOf(arrived)' = FramesOf(arrived) \cup {f}
      BY <3>1, <3>6
    <3>8. f \notin FramesOf(arrived)
      BY <2>3 DEF OnceInv, QueuedOnce, Unsent
    <3>9. InOrder(begun)' = InOrder(begun)
      BY <1>1 DEF InOrder
    <3>10. D!Accept(f)
      BY <1>1, <3>5, <3>7, <3>8, <3>9 DEF D!Accept
    <3>11. f \in InOrderFrames
      BY <2>5 DEF InOrderFrames
    <3> QED BY <3>10, <3>11 DEF LineStep, D!Next
  <2> QED BY <2>4, <2>5
<1> QED BY <1>3, <1>4 DEF Send

\* The pipeline's goroutine and the watcher: tearing down closes the line.
LEMMA AsideLine ==
  ASSUME TypeInv, TypeInv', LineOK, LineOK', Aside
  PROVE  LineStep
<1>1. UNCHANGED <<inputQueue, procQueue, arrived, begun>> /\ Loops' = Loops /\ (baseDone => baseDone')
  BY DEF Aside, Loops, queueVars, histVars
<1>2. loopHand' = loopHand
  <2>1. \A g \in Loops' : go'[g].pc \in HandPcs =>
             g \in Loops /\ go[g].pc \in HandPcs /\ go'[g].frame = go[g].frame
    BY <1>1 DEF Aside
  <2>2. \A g \in Loops : go[g].pc \in HandPcs => g \in Loops' /\ go'[g].pc \in HandPcs
    BY <1>1 DEF Aside
  <2> QED BY <2>1, <2>2, LoopHandStays
<1>3. inputHand' = inputHand
  BY InputHandStays DEF Aside
<1>4. CASE baseDone' = baseDone
  BY <1>1, <1>2, <1>3, <1>4, LineStays DEF LineStep
<1>5. CASE baseDone' # baseDone
  <2>1. line' = line
    BY <1>1, <1>2, <1>3 DEF line
  <2>2. FramesOf(arrived)' = FramesOf(arrived) /\ InOrder(begun)' = InOrder(begun)
    BY <1>1 DEF FramesOf, InOrder
  <2>3. baseDone \in BOOLEAN /\ baseDone' \in BOOLEAN
    BY DEF TypeInv, TypeOK, FlagsOK
  <2>4. (~baseDone)' = FALSE
    BY <1>1, <1>5, <2>3
  <2>5. D!Close
    BY <2>1, <2>2, <2>4 DEF D!Close
  <2> QED BY <2>5 DEF LineStep, D!Next
<1> QED BY <1>4, <1>5

\* Setting up starts the input goroutine, which holds nothing.
LEMMA SetupLine ==
  ASSUME TypeInv, TypeInv', LoopInv, LineOK, LineOK', Setup
  PROVE  LineStep
<1>1. /\ {Life, Watch, Input} \subseteq Goroutines /\ Loops \subseteq Goroutines /\ Len(go) \in Nat
      /\ \A h \in Goroutines : go[h] \in Goroutine
  BY TypeInvGo
<1>2. /\ go' = [go EXCEPT ![Life].pc = "settingUp", ![Input].pc = "startGate"]
      /\ UNCHANGED <<inputQueue, procQueue, arrived, begun, baseDone>>
  BY DEF Setup, queueVars, histVars, taskVars
<1>3. DOMAIN go = 1..Len(go) /\ DOMAIN go' = 1..Len(go') /\ Len(go') \in Nat
  BY LenProperties DEF TypeInv, TypeOK, TaskOK
<1>4. Len(go') = Len(go)
  <2>1. Len(go) \in Nat /\ Len(go') \in Nat /\ 1..Len(go') = 1..Len(go)
    BY <1>1, <1>2, <1>3
  <2> QED BY <2>1
<1>5. Loops' = Loops /\ \A h \in Loops : go'[h] = go[h]
  BY <1>1, <1>2, <1>3, <1>4 DEF Loops, Goroutines, Life, Input
<1>6. go[Input].pc = "none" /\ go'[Input].pc = "startGate"
  BY <1>1, <1>2, <1>3 DEF Setup, LoopInv, NotYet, Goroutines, Goroutine, Life, Input
<1>7. loopHand' = loopHand
  BY <1>5, LoopHandStays
<1>8. inputHand' = inputHand
  BY <1>6, InputHandStays DEF HandPcs
<1> QED BY <1>2, <1>7, <1>8, LineStays DEF LineStep

\* Only goroutine g changes, and what it holds is r's.
Alone(g, r) ==
    /\ Len(go') = Len(go) /\ go'[g].pc = r.pc /\ go'[g].frame = r.frame
    /\ \A h \in Goroutines : h # g => go'[h].pc = go[h].pc /\ go'[h].frame = go[h].frame

\* A goroutine's record changes.
LEMMA UpdateAlone ==
  ASSUME TypeInv, TypeInv', NEW g \in Goroutines, NEW r, Update(g, r)
  PROVE  Alone(g, r)
BY UpdateOne DEF Alone

\* A goroutine moves on.
LEMMA GotoAlone ==
  ASSUME TypeInv, TypeInv', NEW g \in Goroutines, NEW pc, Goto(g, pc)
  PROVE  Alone(g, [pc |-> pc, frame |-> go[g].frame])
<1>1. Walks(g, pc)
  BY GotoWalks
<1> QED BY <1>1, TypeInvGo DEF Alone, Walks, Moves

\* What a process goroutine that works, and the input goroutine, then hold.
LEMMA LoopAlone ==
  ASSUME TypeInv, LoopInv, LineOK, LineOK', NEW g \in Loops, NEW r, Alone(g, r), Working(g)
  PROVE  /\ inputHand' = inputHand
         /\ loopHand = IF go[g].pc \in HandPcs THEN <<go[g].frame>> ELSE <<>>
         /\ loopHand' = IF r.pc \in HandPcs THEN <<r.frame>> ELSE <<>>
<1>1. Loops \subseteq Goroutines /\ Input \in Goroutines /\ g # Input /\ Loops' = Loops
  BY TypeInvGo DEF Loops, Input, Alone
<1>2. inputHand' = inputHand
  BY <1>1, InputHandStays DEF Alone
<1>3. \A h \in Loops : h # g => go[h].pc \notin HandPcs /\ go'[h].pc \notin HandPcs
  BY <1>1, OnlyHand DEF Alone
<1>8. loopHand = IF go[g].pc \in HandPcs THEN <<go[g].frame>> ELSE <<>>
  <2>1. CASE go[g].pc \in HandPcs
    BY <2>1 DEF LineOK
  <2>2. CASE go[g].pc \notin HandPcs
    BY <1>3, <2>2 DEF LineOK
  <2> QED BY <2>1, <2>2
<1>9. loopHand' = IF r.pc \in HandPcs THEN <<r.frame>> ELSE <<>>
  <2>1. CASE r.pc \in HandPcs
    <3>1. g \in Loops' /\ go'[g].pc \in HandPcs /\ go'[g].frame = r.frame
      BY <1>1, <2>1 DEF Alone
    <3>2. loopHand' = <<go'[g].frame>>
      BY <3>1 DEF LineOK
    <3> QED BY <2>1, <3>1, <3>2
  <2>2. CASE r.pc \notin HandPcs
    <3>1. \A h \in Loops' : go'[h].pc \notin HandPcs
      BY <1>1, <1>3, <2>2 DEF Alone
    <3>2. loopHand' = <<>>
      BY <3>1 DEF LineOK
    <3> QED BY <2>2, <3>2
  <2> QED BY <2>1, <2>2
<1> QED BY <1>2, <1>8, <1>9

\* What the process goroutines, and the input goroutine, hold after a step of it.
LEMMA InputAlone ==
  ASSUME TypeInv, LineOK, LineOK', NEW r, Alone(Input, r)
  PROVE  /\ loopHand' = loopHand
         /\ inputHand' = IF r.pc \in HandPcs /\ ~isSystemFrame(r.frame) THEN <<r.frame>> ELSE <<>>
<1>1. Loops \subseteq Goroutines /\ Input \in Goroutines /\ Input \notin Loops /\ Loops' = Loops
  BY TypeInvGo DEF Loops, Input, Alone
<1>2. \A h \in Loops : go'[h].pc = go[h].pc /\ go'[h].frame = go[h].frame
  BY <1>1 DEF Alone
<1>3. loopHand' = loopHand
  BY <1>1, <1>2, LoopHandStays
<1>4. inputHand' = IF go'[Input].pc \in HandPcs /\ ~isSystemFrame(go'[Input].frame)
                     THEN <<go'[Input].frame>> ELSE <<>>
  BY DEF LineOK
<1>5. go'[Input].pc = r.pc /\ go'[Input].frame = r.frame
  BY DEF Alone
<1>6. inputHand' = IF r.pc \in HandPcs /\ ~isSystemFrame(r.frame) THEN <<r.frame>> ELSE <<>>
  BY <1>4, <1>5
<1> QED BY <1>3, <1>6

\* get, by a process goroutine: the head of the queue is now in its hand.
LEMMA PullLoopLine ==
  ASSUME TypeInv, TypeInv', LoopInv, PlaceInv, LineOK, LineOK', NEW g \in Loops, Pull(g)
  PROVE  LineStep
<1> DEFINE f == head(procQueue)
           r == [go[g] EXCEPT !.pc = IF g = Input THEN "gate" ELSE "take", !.frame = head(QueueOf(g))]
<1>1. g \in Goroutines /\ go[g] \in Goroutine /\ g # Input
  BY TypeInvGo DEF Loops, Input
<1>2. /\ go[g].pc = "pull" /\ Update(g, r) /\ QueueOf(g) = procQueue /\ ~isEmpty(procQueue)
      /\ procQueue' = get(procQueue) /\ UNCHANGED <<inputQueue, arrived, begun, baseDone>>
  BY <1>1 DEF Pull, QueueOf, taskVars, histVars
<1>3. r.pc = "take" /\ r.frame = f
  BY <1>1, <1>2 DEF Goroutine
<1> HIDE DEF r, f
<1>4. Alone(g, r) /\ Working(g) /\ go[g].pc \notin HandPcs /\ r.pc \in HandPcs
  BY <1>1, <1>2, <1>3, UpdateAlone DEF Working, HandPcs
<1>5. loopHand = <<>> /\ loopHand' = <<f>> /\ inputHand' = inputHand
  BY <1>3, <1>4, LoopAlone
<1>6. procQueue \in Queue /\ Tiered(procQueue)
  BY QueueSeqs DEF PlaceInv, TierInv
<1>7. ~isSystemFrame(f)
  <2>1. go'[g].frame = f /\ go'[g].pc \in HandPcs /\ g \in Loops'
    BY <1>3, <1>4 DEF Alone, Loops
  <2>2. PlaceInv'
    BY PullPlace DEF Takers
  <2> QED BY <2>1, <2>2 DEF PlaceInv, TierInv
<1>8. procQueue.other # <<>> /\ f = Head(procQueue.other) /\ procQueue'.other = Tail(procQueue.other)
  BY <1>2, <1>6, <1>7, GetTiers DEF f
<1>9. PICK P, H, B : P \in Seq(Frame) /\ P = procQueue.other /\ H = inputHand /\ B = inputQueue.other
  BY QueueSeqs
<1>10. line = Line(<<>>, P, H, B) /\ line' = Line(<<Head(P)>>, Tail(P), H, B) /\ P # <<>>
  BY <1>2, <1>5, <1>8, <1>9, LineIs
<1>11. line' = line
  BY <1>9, <1>10, LinePull
<1> QED BY <1>2, <1>11, LineSame DEF LineStep

\* A process goroutine that was stopped gives its frame back, or drops it.
LEMMA GiveBackLine ==
  ASSUME TypeInv, TypeInv', LoopInv, PlaceInv, LineOK, LineOK', NEW g \in Loops, giveBack(g)
  PROVE  LineStep
<1> DEFINE f == go[g].frame
           r == [pc |-> "exited", frame |-> f]
<1>1. g \in Goroutines /\ go[g] \in Goroutine /\ g # Input
  BY TypeInvGo DEF Loops, Input
<1>2. /\ go[g].pc = "giveBack" /\ Goto(g, "exited")
      /\ procQueue' = IF Interruptible(f) THEN procQueue ELSE requeue(procQueue, f)
      /\ UNCHANGED <<inputQueue, arrived, begun, baseDone>>
  BY DEF giveBack, taskVars, histVars
<1>3. Alone(g, r) /\ Working(g) /\ go[g].pc \in HandPcs /\ r.pc \notin HandPcs
  BY <1>1, <1>2, GotoAlone DEF Working, HandPcs
<1>4. f \in Frame /\ ~isSystemFrame(f)
  BY <1>1, <1>3, TypeInvGo DEF PlaceInv, TierInv
<1> HIDE DEF r
<1>5. loopHand = <<f>> /\ loopHand' = <<>> /\ inputHand' = inputHand
  BY <1>3, LoopAlone
<1> HIDE DEF f
<1>6. CASE Interruptible(f)
  <2>1. procQueue' = procQueue
    BY <1>2, <1>6
  <2> QED BY <1>2, <1>4, <1>5, <1>6, <2>1, DropHead DEF LineStep
<1>7. CASE ~Interruptible(f)
  <2>1. procQueue \in Queue /\ Tiered(procQueue)
    BY QueueSeqs DEF PlaceInv, TierInv
  <2>2. procQueue'.other = <<f>> \o procQueue.other
    BY <1>2, <1>4, <1>7, <2>1, OtherTiers
  <2>3. PICK P, H, B : P \in Seq(Frame) /\ P = procQueue.other /\ H = inputHand /\ B = inputQueue.other
    BY QueueSeqs
  <2>4. line = Line(<<f>>, P, H, B) /\ line' = Line(<<>>, <<f>> \o P, H, B)
    BY <1>2, <1>5, <2>2, <2>3, LineIs
  <2>5. line' = line
    BY <1>4, <2>3, <2>4, LineBack
  <2> QED BY <1>2, <2>5, LineSame DEF LineStep
<1> QED BY <1>6, <1>7

\* A process goroutine calls the handler of the frame it holds.
LEMMA BeginLine ==
  ASSUME TypeInv, TypeInv', LoopInv, PlaceInv, LineOK, LineOK', NEW g \in Loops, Begin(g) \/ BeginPause(g)
  PROVE  LineStep
<1> DEFINE f == go[g].frame
<1>1. g \in Goroutines /\ go[g] \in Goroutine /\ g # Input
  BY TypeInvGo DEF Loops, Input
<1>2. /\ go[g].pc = "handle" /\ begun' = Append(begun, f)
      /\ UNCHANGED <<inputQueue, procQueue, arrived, baseDone>>
  BY DEF Begin, BeginPause, Begins, queueVars
<1>3. PICK r : Alone(g, r) /\ r.pc \notin HandPcs
  <2>1. CASE Begin(g)
    <3>1. PICK pc : Goto(g, pc) /\ pc \notin HandPcs
      BY <2>1, NextPcs DEF Begin
    <3> DEFINE r == [pc |-> pc, frame |-> go[g].frame]
    <3>2. Alone(g, r)
      BY <1>1, <3>1, GotoAlone
    <3>3. r.pc = pc
      OBVIOUS
    <3> HIDE DEF r
    <3> QED BY <3>1, <3>2, <3>3
  <2>2. CASE BeginPause(g)
    <3> DEFINE r == [go[g] EXCEPT !.pc = "pauseClear", !.on = processEvent]
    <3>1. r.pc = "pauseClear"
      BY <1>1 DEF Goroutine
    <3>2. Update(g, r)
      BY <2>2 DEF BeginPause
    <3> HIDE DEF r
    <3>3. Alone(g, r)
      BY <1>1, <3>2, UpdateAlone
    <3> QED BY <3>1, <3>3 DEF HandPcs
  <2> QED BY <2>1, <2>2
<1>4. Working(g) /\ go[g].pc \in HandPcs
  BY <1>2 DEF Working, HandPcs
<1>5. f \in Frame /\ ~isSystemFrame(f)
  BY <1>1, <1>4, TypeInvGo DEF PlaceInv, TierInv
<1>6. loopHand = <<f>> /\ loopHand' = <<>> /\ inputHand' = inputHand
  BY <1>3, <1>4, LoopAlone
<1> HIDE DEF f
<1>7. PICK P \in Seq(Frame), H \in Seq(Frame), B \in Seq(Frame) :
        P = procQueue.other /\ H = inputHand /\ B = inputQueue.other
  BY QueueSeqs DEF LineOK
<1>8. PICK e, l, s : e \in Frame /\ e = f /\ l = Line(<<e>>, P, H, B) /\ s = Line(<<>>, P, H, B)
  BY <1>5
<1>9. StartsWith(l, e, s)
  BY <1>8, LineHead
<1>10. line = l /\ line' = s
  BY <1>2, <1>6, <1>7, <1>8, LineIs
<1>11. line = <<e>> \o s /\ line' = s /\ s \in Seq(Frame)
  BY <1>9, <1>10 DEF StartsWith
<1>12. begun' = Append(begun, e) /\ ~isSystemFrame(e)
  BY <1>2, <1>5, <1>8
<1> QED BY <1>2, <1>8, <1>11, <1>12, ServeStep DEF LineStep

\* A step of a process goroutine.
LEMMA ProcessLine ==
  ASSUME TypeInv, TypeInv', LoopInv, PlaceInv, LineOK, LineOK', ProcessStep
  PROVE  LineStep
<1>1. PICK g \in Loops : Drain(g) \/ Top(g) \/ takeCurFrame(g) \/ giveBack(g)
  BY DEF ProcessStep, LoopStep
<1>2. g \in Goroutines /\ g # Life /\ g # Watch /\ g # Input /\ go[g] \in Goroutine
  BY TypeInvGo DEF Loops, Life, Watch, Input
<1>3. Input \in Goroutines /\ Loops \subseteq Goroutines /\ Input \notin Loops
  BY TypeInvGo DEF Loops, Input
<1> USE DEF queueVars, histVars, taskVars
<1>4. CASE Still /\ \E pc : Walks(g, pc) /\ Path(g, go[g].pc, pc)
  <2>1. PICK pc : Walks(g, pc) /\ Path(g, go[g].pc, pc)
    BY <1>4
  <2>2. pc \in HandPcs <=> go[g].pc \in HandPcs
    BY <1>2, <2>1 DEF Path, HandPcs
  <2>3. /\ Loops' = Loops /\ \A h \in Goroutines : go'[h].pc \in HandPcs <=> go[h].pc \in HandPcs
        /\ \A h \in Goroutines : go'[h].frame = go[h].frame
    BY <2>1, <2>2 DEF Walks, Moves, Loops
  <2>4. loopHand' = loopHand
    BY <1>3, <2>3, LoopHandStays
  <2>5. inputHand' = inputHand
    BY <1>3, <2>3, InputHandStays
  <2> QED BY <1>4, <2>4, <2>5, LineStays DEF LineStep, Still
<1>5. ASSUME NEW r, Alone(g, r), r.pc \notin HandPcs, go[g].pc \notin HandPcs
      PROVE  loopHand' = loopHand /\ inputHand' = inputHand
  <2>1. Loops' = Loops /\ \A h \in Goroutines : go'[h].pc \in HandPcs <=> go[h].pc \in HandPcs
    BY <1>5 DEF Alone, Loops
  <2>2. \A h \in Goroutines : go'[h].pc \in HandPcs => go'[h].frame = go[h].frame
    BY <1>5 DEF Alone
  <2>3. loopHand' = loopHand
    BY <1>3, <2>1, <2>2, LoopHandStays
  <2>4. inputHand' = inputHand
    BY <1>3, <2>1, <2>2, InputHandStays
  <2> QED BY <2>3, <2>4
<1>6. CASE GetCheck(g)
  <2> DEFINE r == [go[g] EXCEPT !.pc = IF Stopped(g) THEN "exited" ELSE "pull",
                                !.frame = NoFrame, !.on = 0, !.woken = FALSE]
  <2>1. r.pc \notin HandPcs
    BY <1>2 DEF Goroutine, HandPcs
  <2>2. /\ Update(g, r) /\ go[g].pc = "get"
        /\ UNCHANGED <<inputQueue, procQueue, arrived, begun, baseDone>>
    BY <1>6 DEF GetCheck
  <2> HIDE DEF r
  <2>3. Alone(g, r) /\ go[g].pc \notin HandPcs
    BY <1>2, <2>2, UpdateAlone DEF HandPcs
  <2> QED BY <1>5, <2>1, <2>2, <2>3, LineStays DEF LineStep
<1>7. CASE BroadcastResetGate(g) \/ Flush(g)
  <2>1. PICK pc \in {"flush", "finish"} : Goto(g, pc)
    BY <1>7 DEF BroadcastResetGate, Flush
  <2> DEFINE r == [pc |-> pc, frame |-> go[g].frame]
  <2>2. Alone(g, r)
    BY <1>2, <2>1, GotoAlone
  <2>3. r.pc \notin HandPcs /\ go[g].pc \notin HandPcs
    BY <1>7 DEF BroadcastResetGate, Flush, HandPcs
  <2> HIDE DEF r
  <2>4. loopHand' = loopHand /\ inputHand' = inputHand
    BY <1>5, <2>2, <2>3
  <2>5. CASE BroadcastResetGate(g)
    BY <2>4, <2>5, LineStays DEF LineStep, BroadcastResetGate
  <2>6. CASE Flush(g)
    BY <2>4, <2>6, ResetStep DEF LineStep, Flush
  <2> QED BY <1>7, <2>5, <2>6
<1>8. CASE Pull(g)
  BY <1>8, PullLoopLine
<1>9. CASE giveBack(g)
  BY <1>9, GiveBackLine
<1>10. CASE Begin(g) \/ BeginPause(g)
  BY <1>10, BeginLine
<1>11. Carries(g) \/ (Still /\ \E pc : Walks(g, pc) /\ Path(g, go[g].pc, pc))
  BY <1>1, <1>2, DrainSteps
<1> QED BY <1>4, <1>6, <1>7, <1>8, <1>9, <1>10, <1>11 DEF Carries

\* get, by the input goroutine.
LEMMA PullInputLine ==
  ASSUME TypeInv, TypeInv', PlaceInv, LineOK, LineOK', Pull(Input)
  PROVE  LineStep
<1> DEFINE f == head(inputQueue)
           r == [go[Input] EXCEPT !.pc = IF Input = Input THEN "gate" ELSE "take",
                                  !.frame = head(QueueOf(Input))]
<1>1. Input \in Goroutines /\ go[Input] \in Goroutine
  BY TypeInvGo
<1>2. /\ go[Input].pc = "pull" /\ Update(Input, r) /\ QueueOf(Input) = inputQueue /\ ~isEmpty(inputQueue)
      /\ inputQueue' = get(inputQueue) /\ UNCHANGED <<procQueue, arrived, begun, baseDone>>
  BY DEF Pull, QueueOf, taskVars, histVars
<1>3. r.pc = "gate" /\ r.frame = f
  BY <1>1, <1>2 DEF Goroutine
<1> HIDE DEF r, f
<1>4. Alone(Input, r) /\ go[Input].pc \notin HandPcs /\ r.pc \in HandPcs
  BY <1>1, <1>2, <1>3, UpdateAlone DEF HandPcs
<1>5. /\ loopHand' = loopHand /\ inputHand = <<>>
      /\ inputHand' = IF ~isSystemFrame(f) THEN <<f>> ELSE <<>>
  <2>1. inputHand = <<>>
    BY <1>4 DEF LineOK
  <2> QED BY <1>3, <1>4, <2>1, InputAlone
<1>6. inputQueue \in Queue /\ Tiered(inputQueue)
  BY QueueSeqs DEF PlaceInv, TierInv
<1>7. CASE isSystemFrame(f)
  <2>1. inputQueue'.other = inputQueue.other
    BY <1>2, <1>6, <1>7, GetTiers DEF f
  <2> QED BY <1>2, <1>5, <1>7, <2>1, LineStays DEF LineStep
<1>8. CASE ~isSystemFrame(f)
  <2>1. inputQueue.other # <<>> /\ f = Head(inputQueue.other) /\ inputQueue'.other = Tail(inputQueue.other)
    BY <1>2, <1>6, <1>8, GetTiers DEF f
  <2>2. PICK A \in Seq(Frame), P \in Seq(Frame), B \in Seq(Frame) :
          A = loopHand /\ P = procQueue.other /\ B = inputQueue.other
    BY QueueSeqs DEF LineOK
  <2>3. line = Line(A, P, <<>>, B) /\ line' = Line(A, P, <<Head(B)>>, Tail(B)) /\ B # <<>>
    BY <1>2, <1>5, <1>8, <2>1, <2>2, LineIs
  <2>4. line' = line
    BY <2>3, LineTake
  <2> QED BY <1>2, <2>4, LineSame DEF LineStep
<1> QED BY <1>7, <1>8

\* The input goroutine hands a data or control frame on.
LEMMA HandOnLine ==
  ASSUME TypeInv, TypeInv', PlaceInv, LineOK, LineOK', HandOn
  PROVE  LineStep
<1> DEFINE f == go[Input].frame
           r == [pc |-> "get", frame |-> f]
<1>1. Input \in Goroutines /\ go[Input] \in Goroutine
  BY TypeInvGo
<1>2. /\ go[Input].pc = "handle" /\ ~isSystemFrame(f) /\ Goto(Input, "get")
      /\ procQueue' = push(procQueue, f) /\ UNCHANGED <<inputQueue, arrived, begun, baseDone>>
  BY DEF HandOn, taskVars, histVars
<1>3. Alone(Input, r) /\ go[Input].pc \in HandPcs /\ r.pc \notin HandPcs
  BY <1>1, <1>2, GotoAlone DEF HandPcs
<1>4. f \in Frame
  BY <1>1, <1>3, TypeInvGo
<1> HIDE DEF r
<1>5. loopHand' = loopHand /\ inputHand = <<f>> /\ inputHand' = <<>>
  <2>1. inputHand = <<f>>
    BY <1>2, <1>3 DEF LineOK
  <2> QED BY <1>3, <2>1, InputAlone
<1> HIDE DEF f
<1>6. procQueue \in Queue /\ Tiered(procQueue)
  BY QueueSeqs DEF PlaceInv, TierInv
<1>7. procQueue'.other = Append(procQueue.other, f)
  BY <1>2, <1>4, <1>6, PushTiers
<1>8. PICK A \in Seq(Frame), P \in Seq(Frame), B \in Seq(Frame), e \in Frame :
        A = loopHand /\ P = procQueue.other /\ B = inputQueue.other /\ e = f
  BY <1>4, QueueSeqs DEF LineOK
<1>9. line = Line(A, P, <<e>>, B) /\ line' = Line(A, Append(P, e), <<>>, B)
  BY <1>2, <1>5, <1>7, <1>8, LineIs
<1>10. line' = line
  BY <1>9, LineHand
<1> QED BY <1>2, <1>10, LineSame DEF LineStep

\* The input goroutine handles a system frame, which was never in the line.
LEMMA SystemLine ==
  ASSUME TypeInv, TypeInv', LineOK, LineOK', Begin(Input) \/ BeginPause(Input)
  PROVE  LineStep
<1> DEFINE f == go[Input].frame
<1>1. Input \in Goroutines /\ go[Input] \in Goroutine
  BY TypeInvGo
<1>2. /\ go[Input].pc = "handle" /\ isSystemFrame(f) /\ begun' = Append(begun, f)
      /\ UNCHANGED <<inputQueue, procQueue, arrived, baseDone>>
  BY DEF Begin, BeginPause, Begins, queueVars
<1>3. PICK r : Alone(Input, r) /\ r.pc \notin HandPcs
  <2>1. CASE Begin(Input)
    <3>1. PICK pc : Goto(Input, pc) /\ pc \notin HandPcs
      BY <2>1, NextPcs DEF Begin
    <3> DEFINE r == [pc |-> pc, frame |-> go[Input].frame]
    <3>2. Alone(Input, r)
      BY <1>1, <3>1, GotoAlone
    <3>3. r.pc = pc
      OBVIOUS
    <3> HIDE DEF r
    <3> QED BY <3>1, <3>2, <3>3
  <2>2. CASE BeginPause(Input)
    <3> DEFINE r == [go[Input] EXCEPT !.pc = "pauseClear", !.on = processEvent]
    <3>1. r.pc = "pauseClear"
      BY <1>1 DEF Goroutine
    <3>2. Update(Input, r)
      BY <2>2 DEF BeginPause
    <3> HIDE DEF r
    <3>3. Alone(Input, r)
      BY <1>1, <3>2, UpdateAlone
    <3> QED BY <3>1, <3>3 DEF HandPcs
  <2> QED BY <2>1, <2>2
<1>4. f \in Frame
  BY <1>1, <1>2, TypeInvGo DEF HandPcs
<1>5. loopHand' = loopHand /\ inputHand = <<>> /\ inputHand' = <<>>
  <2>1. inputHand = <<>>
    BY <1>2 DEF LineOK
  <2> QED BY <1>3, <2>1, InputAlone
<1> HIDE DEF f
<1>6. InOrder(begun)' = InOrder(begun)
  <2>1. InOrder(Append(begun, f)) = InOrder(begun)
    BY <1>2, <1>4, QueueSeqs, InOrderAppend
  <2> QED BY <1>2, <2>1
<1>7. FramesOf(arrived)' = FramesOf(arrived)
  BY <1>2 DEF FramesOf
<1>8. line' = line
  BY <1>2, <1>5 DEF line
<1> QED BY <1>2, <1>6, <1>7, <1>8 DEF LineStep, D!vars

\* A step of the input goroutine at its queue.
LEMMA InputDrainLine ==
  ASSUME TypeInv, TypeInv', LoopInv, PlaceInv, LineOK, LineOK', OnceInv, Drain(Input)
  PROVE  LineStep
<1>1. /\ Input \in Goroutines /\ Input # Life /\ Input # Watch /\ go[Input] \in Goroutine
      /\ Loops \subseteq Goroutines /\ Input \notin Loops
  BY TypeInvGo DEF Life, Watch, Input, Loops
<1> USE DEF queueVars, histVars, taskVars
<1>2. CASE Still /\ \E pc : Walks(Input, pc) /\ Path(Input, go[Input].pc, pc)
  <2>1. PICK pc : Walks(Input, pc) /\ Path(Input, go[Input].pc, pc)
    BY <1>2
  <2>2. UNCHANGED <<inputQueue, procQueue, arrived, begun, baseDone>>
    BY <1>2 DEF Still
  <2>3. /\ Loops' = Loops /\ \A h \in Loops : go'[h].pc = go[h].pc /\ go'[h].frame = go[h].frame
        /\ go'[Input].pc = pc /\ go'[Input].frame = go[Input].frame
    BY <1>1, <2>1 DEF Walks, Moves, Loops
  <2>4. loopHand' = loopHand
    BY <2>3, LoopHandStays
  <2>5. CASE pc \in HandPcs <=> go[Input].pc \in HandPcs
    <3>1. inputHand' = inputHand
      BY <2>3, <2>5, InputHandStays
    <3> QED BY <2>2, <2>4, <3>1, LineStays DEF LineStep
  <2>6. CASE ~(pc \in HandPcs <=> go[Input].pc \in HandPcs)
    <3>1. go[Input].pc = "select" /\ pc = "exited" /\ Stopped(Input)
      BY <2>1, <2>6 DEF Path, HandPcs
    <3>2. baseDone
      BY <3>1 DEF Stopped, OnceInv
    <3>3. go[Input].pc \in HandPcs /\ go'[Input].pc \notin HandPcs
      BY <2>3, <3>1 DEF HandPcs
    <3>4. inputHand' = <<>>
      BY <3>3 DEF LineOK
    <3>5. PICK f \in Frame : f = go[Input].frame
      BY <1>1, <3>3, TypeInvGo
    <3>6. CASE isSystemFrame(f)
      <4>1. inputHand = <<>>
        BY <3>5, <3>6 DEF LineOK
      <4> QED BY <2>2, <2>4, <3>4, <4>1, LineStays DEF LineStep
    <3>7. CASE ~isSystemFrame(f)
      <4>1. inputHand = <<f>>
        BY <3>3, <3>5, <3>7 DEF LineOK
      <4> QED BY <2>2, <2>4, <3>2, <3>4, <4>1, DropMiddle DEF LineStep
    <3> QED BY <3>6, <3>7
  <2> QED BY <2>5, <2>6
<1>3. ASSUME NEW r, Alone(Input, r), r.pc \notin HandPcs, go[Input].pc \notin HandPcs
      PROVE  loopHand' = loopHand /\ inputHand' = inputHand
  <2>1. inputHand = <<>>
    BY <1>3 DEF LineOK
  <2> QED BY <1>3, <2>1, InputAlone
<1>4. CASE GetCheck(Input)
  <2> DEFINE r == [go[Input] EXCEPT !.pc = IF Stopped(Input) THEN "exited" ELSE "pull",
                                    !.frame = NoFrame, !.on = 0, !.woken = FALSE]
  <2>1. r.pc \notin HandPcs
    BY <1>1 DEF Goroutine, HandPcs
  <2>2. /\ Update(Input, r) /\ go[Input].pc = "get"
        /\ UNCHANGED <<inputQueue, procQueue, arrived, begun, baseDone>>
    BY <1>4 DEF GetCheck
  <2> HIDE DEF r
  <2>3. Alone(Input, r) /\ go[Input].pc \notin HandPcs
    BY <1>1, <2>2, UpdateAlone DEF HandPcs
  <2> QED BY <1>3, <2>1, <2>2, <2>3, LineStays DEF LineStep
<1>5. CASE BroadcastResetGate(Input) \/ Flush(Input)
  <2>1. PICK pc \in {"flush", "finish"} : Goto(Input, pc)
    BY <1>5 DEF BroadcastResetGate, Flush
  <2> DEFINE r == [pc |-> pc, frame |-> go[Input].frame]
  <2>2. Alone(Input, r)
    BY <1>1, <2>1, GotoAlone
  <2>3. r.pc \notin HandPcs /\ go[Input].pc \notin HandPcs
    BY <1>5 DEF BroadcastResetGate, Flush, HandPcs
  <2> HIDE DEF r
  <2>4. loopHand' = loopHand /\ inputHand' = inputHand
    BY <1>3, <2>2, <2>3
  <2>5. CASE BroadcastResetGate(Input)
    BY <2>4, <2>5, LineStays DEF LineStep, BroadcastResetGate
  <2>6. CASE Flush(Input)
    BY <2>4, <2>6, ResetStep DEF LineStep, Flush
  <2> QED BY <1>5, <2>5, <2>6
<1>6. CASE Pull(Input)
  BY <1>6, PullInputLine
<1>7. CASE Begin(Input) \/ BeginPause(Input)
  BY <1>7, SystemLine
<1>8. ~giveBack(Input)
  BY DEF Drain, giveBack, GetCheck, Pull, GoIdle, Wake, Gate, WaitEvent,
     Select, ClearEvent, Unblock, Begin, BeginPause, Begins, PauseClear, BroadcastResetGate,
     Flush, Finish, applyPendingResume, ResumeGet, ResumeSet
<1>9. Carries(Input) \/ (Still /\ \E pc : Walks(Input, pc) /\ Path(Input, go[Input].pc, pc))
  BY <1>1, DrainSteps
<1> QED BY <1>2, <1>4, <1>5, <1>6, <1>7, <1>8, <1>9 DEF Carries

\* What only the input goroutine does: it holds no frame by then.
LEMMA InputLine ==
  ASSUME TypeInv, TypeInv', LoopInv, PlaceInv, LineOK, LineOK', OnceInv, InputStep
  PROVE  LineStep
<1>1. CASE Drain(Input)
  BY <1>1, InputDrainLine
<1>2. CASE HandOn
  BY <1>2, HandOnLine
<1>3. CASE ~Drain(Input) /\ ~HandOn
  <2>1. /\ UNCHANGED <<inputQueue, begun, baseDone>> /\ procQueue' \in {procQueue, reset(procQueue)}
        /\ \A h \in Goroutines : go'[h].frame = go[h].frame
        /\ \A h \in Loops : go'[h].pc = go[h].pc
        /\ go'[Input].pc \notin HandPcs
        /\ \/ Len(go') = Len(go)
           \/ Len(go') = Len(go) + 1 /\ go'[Len(go) + 1] = goroutine("top")
    BY <1>3, InputKeeps
  <2>2. arrived' = arrived
    BY RunSteps
  <2>3. go[Input].pc \notin HandPcs
    BY <1>3 DEF InputStep, StartGate, StartInterruption, Create, CreateFlush, CancelProcessTask,
       CancelFrameInProgress, Respawn, Join, HoldSystem, HoldFrames, StartWatcher, HandPcs
  <2>4. inputHand' = inputHand
    BY <2>1, <2>3, InputHandStays
  <2>5. Loops \subseteq Goroutines /\ Len(go) \in Nat
    BY TypeInvGo
  <2>6. \A h \in Loops' : h \notin Loops => go'[h].pc \notin HandPcs
    <3>1. goroutine("top").pc \notin HandPcs
      BY DEF goroutine, HandPcs
    <3>2. \A h \in Loops' : h \in Loops \/ (h = Len(go) + 1 /\ Len(go') = Len(go) + 1 /\ Len(go') # Len(go))
      BY <2>1, <2>5 DEF Loops
    <3> QED BY <2>1, <3>1, <3>2
  <2>7. \A h \in Loops : h \in Loops'
    BY <2>1, <2>5 DEF Loops
  <2>8. loopHand' = loopHand
    BY <2>1, <2>5, <2>6, <2>7, LoopHandStays
  <2>9. CASE procQueue' = procQueue
    BY <2>1, <2>2, <2>4, <2>8, <2>9, LineStays DEF LineStep
  <2>10. CASE procQueue' = reset(procQueue)
    BY <2>1, <2>2, <2>4, <2>8, <2>10, ResetStep DEF LineStep
  <2> QED BY <2>1, <2>9, <2>10
<1> QED BY <1>1, <1>2, <1>3

\* Every step of the processor.
LEMMA LineNext ==
  ASSUME TypeInv, TypeInv', LoopInv, PlaceInv, LineOK, LineOK', OnceInv, [Next]_vars
  PROVE  LineStep
<1>1. ASSUME NEW f \in Frame, Send(f) PROVE LineStep
  BY <1>1, SendLine
<1>2. CASE Setup
  BY <1>2, SetupLine
<1>3. CASE WatchStep \/ SetupFinished \/ Cleanup \/ LifeStep
  <2>1. Aside
    BY <1>3, AsideSteps
  <2> QED BY <2>1, AsideLine
<1>4. CASE InputStep
  BY <1>4, InputLine
<1>5. CASE ProcessStep
  BY <1>5, ProcessLine
<1>6. CASE UNCHANGED vars
  <2>1. UNCHANGED <<go, inputQueue, procQueue, arrived, begun, baseDone>>
    BY <1>6 DEF vars, queueVars, taskVars, histVars
  <2> QED BY <2>1, HandsStay, LineStays DEF LineStep
<1> QED BY <1>1, <1>2, <1>3, <1>4, <1>5, <1>6 DEF Next

\* A new processor is an empty line.
LEMMA LineInit == Init => D!Init
<1> SUFFICES ASSUME Init PROVE D!Init
  OBVIOUS
<1>1. LineOK
  BY TypeInit, LoopInit, PlaceInit, HandsAre
<1>2. loopHand = <<>> /\ inputHand = <<>>
  <2>1. Loops = {} /\ go[Input].pc = "none"
    BY DEF Init, Loops, Input, goroutine
  <2> QED BY <1>1, <2>1 DEF LineOK, HandPcs
<1>3. procQueue.other = <<>> /\ inputQueue.other = <<>> /\ arrived = <<>> /\ begun = <<>> /\ ~baseDone
  BY DEF Init, newQueue
<1>4. line = <<>>
  <2>1. <<>> \o <<>> = <<>>
    BY EmptySeq, ConcatEmptySeq
  <2> QED BY <1>2, <1>3, <2>1 DEF line
<1>5. FramesOf(arrived) = {}
  BY <1>3 DEF FramesOf
<1>6. InOrder(begun) = <<>>
  <2>1. begun \in Seq(Frame) /\ Len(begun) = 0
    BY <1>3, EmptySeq
  <2> DEFINE K == {i \in 1..Len(begun) : ~isSystemFrame(begun[i])}
  <2>2. K \in SUBSET (1..Len(begun))
    OBVIOUS
  <2> HIDE DEF K
  <2>3. Pick(begun, K) \in Seq(Frame) /\ Len(Pick(begun, K)) <= Len(begun)
    BY <2>1, <2>2, PickFrom
  <2>4. Pick(begun, K) = <<>>
    <3>1. Len(Pick(begun, K)) = 0
      BY <2>1, <2>3
    <3> QED BY <2>3, <3>1, EmptySeq
  <2> QED BY <2>4 DEF InOrder, K
<1> QED BY <1>3, <1>4, <1>5, <1>6 DEF D!Init

\* A processor implements OrderedDelivery: whatever interruptions, pauses,
\* withdrawals, cancels and teardown do, its queues and its goroutines are one line.
\* Each data or control frame joins it at most once, frames are handled in the order
\* they were queued, one that left the line is never handled, and none that is
\* uninterruptible leaves it unhandled before the processor is torn down.
THEOREM DeliversHolds == Spec => Delivers
<1>1. Init => TypeInv /\ LoopInv /\ PlaceInv /\ OnceInv
  BY TypeInit, LoopInit, PlaceInit, JoinInit
<1>2. TypeInv /\ LoopInv /\ PlaceInv /\ OnceInv /\ [Next]_vars
        => (TypeInv /\ LoopInv /\ PlaceInv /\ OnceInv)'
  BY TypeNext, LoopNext, PlaceNext, JoinNext
<1>3. TypeInv /\ LoopInv /\ PlaceInv => LineOK
  BY HandsAre
<1>4. TypeInv /\ TypeInv' /\ LoopInv /\ PlaceInv /\ LineOK /\ LineOK' /\ OnceInv /\ [Next]_vars
        => [D!Next]_(D!vars)
  BY LineNext DEF LineStep
<1>5. Init => D!Init
  BY LineInit
<1> QED BY <1>1, <1>2, <1>3, <1>4, <1>5, PTL DEF Spec, Delivers, D!Spec
=============================================================================
