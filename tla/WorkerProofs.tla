---------------------------- MODULE WorkerProofs ----------------------------
(***************************************************************************)
(* Proofs about Worker, for any number of processors, of flushes and of    *)
(* inputs: its type invariant, that Setup and Cleanup of a processor stay  *)
(* apart, that teardown starts no monitor, that a processor is told of     *)
(* the end before it is cleaned up, and that a flush waits for the work    *)
(* ahead of it.                                                            *)
(***************************************************************************)
EXTENDS Worker, SequenceTheorems, TLAPS

QP == INSTANCE FrameQueueProofs
        WITH Frame <- WorkerFrame, Kind <- QueueKind, NoFrame <- Fr("none")

(***************************************************************************)
(* Frames and queues.                                                      *)
(***************************************************************************)
\* What a frame of the worker's can be.
LEMMA FrameTypes ==
  /\ \A k \in Plain : Fr(k) \in WorkerFrame /\ Fr(k).kind = k
  /\ \A k \in Legs, i \in Flush : Probe(k, i) \in WorkerFrame /\ Probe(k, i).kind = k
  /\ \A f \in WorkerFrame : f.kind \in Legs \cup Plain /\ (f.kind \in Legs => f.flush \in Flush)
  /\ Fr("none") \notin WorkerFrame
<1>1. ASSUME NEW f \in WorkerFrame
      PROVE  f.kind \in Legs \cup Plain /\ (f.kind \in Legs => f.flush \in Flush)
  <2>1. CASE f \in {Fr(k) : k \in Plain}
    BY <2>1 DEF Fr, Plain, Legs
  <2>2. CASE f \in {Probe(k, i) : k \in Legs, i \in Flush}
    BY <2>2 DEF Probe
  <2> QED BY <2>1, <2>2 DEF WorkerFrame
<1>2. Fr("none").kind \notin Legs \cup Plain
  BY DEF Fr, Legs, Plain
<1>3. \A k \in Plain : Fr(k) \in WorkerFrame /\ Fr(k).kind = k
  BY DEF WorkerFrame, Fr
<1>4. \A k \in Legs, i \in Flush : Probe(k, i) \in WorkerFrame /\ Probe(k, i).kind = k
  BY DEF WorkerFrame, Probe
<1> QED BY <1>1, <1>2, <1>3, <1>4

LEMMA PlainFrames ==
  /\ {Fr("start"), Fr("d"), Fr("u"), Fr("r"), Fr("heartbeat"), Fr("interrupt"), Fr("end"),
      Fr("stop"), Fr("endWorker"), Fr("echo"), Fr("cancel")} \subseteq WorkerFrame
  /\ \A k : Fr(k).kind = k
<1>1. \A k : Fr(k).kind = k
  BY DEF Fr
<1> QED BY <1>1, FrameTypes DEF Plain

\* The frames have the kinds the queue knows.
LEMMA QueueKinds ==
  /\ QueueKind \in [WorkerFrame -> QP!SystemKinds \cup QP!InOrderKinds]
  /\ Fr("none") \notin WorkerFrame
  BY FrameTypes DEF QueueKind, QP!SystemKinds, QP!InOrderKinds

\* The queue the proofs of FrameQueue are about is the worker's.
LEMMA SameQueue ==
  /\ Q!Queue = QP!Queue
  /\ \A s : Q!FramesOf(s) = QP!FramesOf(s)
  /\ \A s : Q!keep(s) = QP!keep(s)
<1>1. \A s : Q!keep(s) = QP!keep(s)
  BY Zenon DEF Q!keep, QP!keep, Q!Pick, QP!Pick, Q!Place, QP!Place, Q!Survivors, QP!Survivors,
     Q!Interruptible, QP!Interruptible, Q!Cardinality, QP!Cardinality
<1> QED BY <1>1 DEF Q!Queue, QP!Queue, Q!FramesOf, QP!FramesOf

LEMMA AppendFrame ==
  ASSUME NEW s \in Seq(WorkerFrame), NEW f \in WorkerFrame
  PROVE  /\ Append(s, f) \in Seq(WorkerFrame)
         /\ Q!FramesOf(Append(s, f)) = Q!FramesOf(s) \cup {f}
  BY QP!AppendTo, QueueKinds, SameQueue

LEMMA TailFrames ==
  ASSUME NEW s \in Seq(WorkerFrame), s # <<>>
  PROVE  /\ Head(s) \in WorkerFrame /\ Head(s) \in Q!FramesOf(s)
         /\ Tail(s) \in Seq(WorkerFrame)
         /\ Q!FramesOf(Tail(s)) \subseteq Q!FramesOf(s)
<1>1. /\ Head(s) \in WorkerFrame /\ Head(s) = s[1]
      /\ Tail(s) \in Seq(WorkerFrame) /\ Len(Tail(s)) = Len(s) - 1
      /\ \A i \in 1..Len(Tail(s)) : Tail(s)[i] = s[i+1]
  BY QP!HeadAndTail, QueueKinds
<1>2. Len(s) \in Nat /\ Len(s) >= 1
  OBVIOUS
<1> QED BY <1>1, <1>2 DEF Q!FramesOf

\* push adds the frame it is given.
LEMMA PushFrame ==
  ASSUME NEW q \in Q!Queue, NEW f \in WorkerFrame
  PROVE  /\ Q!push(q, f) \in Q!Queue
         /\ Queued(Q!push(q, f)) = Queued(q) \cup {f}
<1>1. /\ q.start \in Seq(WorkerFrame) /\ q.system \in Seq(WorkerFrame)
      /\ q.other \in Seq(WorkerFrame)
      /\ q = [start |-> q.start, system |-> q.system, other |-> q.other]
  BY DEF Q!Queue
<1>2. CASE Q!isStartFrame(f)
  BY <1>1, <1>2, AppendFrame DEF Q!push, Q!Queue, Queued
<1>3. CASE ~Q!isStartFrame(f) /\ Q!isSystemFrame(f)
  BY <1>1, <1>3, AppendFrame DEF Q!push, Q!Queue, Queued
<1>4. CASE ~Q!isStartFrame(f) /\ ~Q!isSystemFrame(f)
  BY <1>1, <1>4, AppendFrame DEF Q!push, Q!Queue, Queued
<1> QED BY <1>2, <1>3, <1>4

\* get takes a frame of the queue and adds none.
LEMMA GetFrame ==
  ASSUME NEW q \in Q!Queue, ~Q!isEmpty(q)
  PROVE  /\ Q!head(q) \in WorkerFrame /\ Q!head(q) \in Queued(q)
         /\ Q!get(q) \in Q!Queue /\ Queued(Q!get(q)) \subseteq Queued(q)
<1>1. /\ q.start \in Seq(WorkerFrame) /\ q.system \in Seq(WorkerFrame)
      /\ q.other \in Seq(WorkerFrame)
      /\ q = [start |-> q.start, system |-> q.system, other |-> q.other]
  BY DEF Q!Queue
<1>2. CASE Q!startsNext(q)
  BY <1>1, <1>2, TailFrames DEF Q!head, Q!get, Q!Queue, Queued, Q!startsNext
<1>3. CASE ~Q!startsNext(q) /\ Q!systemNext(q)
  BY <1>1, <1>3, TailFrames DEF Q!head, Q!get, Q!Queue, Queued, Q!systemNext
<1>4. CASE ~Q!startsNext(q) /\ ~Q!systemNext(q)
  BY <1>1, <1>4, TailFrames DEF Q!head, Q!get, Q!Queue, Queued, Q!systemNext,
     Q!startsNext, Q!isEmpty
<1> QED BY <1>2, <1>3, <1>4

\* Dropping what may be dropped of the first n frames of a sequence adds none.
LEMMA CutFrames ==
  ASSUME NEW s \in Seq(WorkerFrame), NEW n \in 0..Len(s)
  PROVE  LET c == Q!keep(SubSeq(s, 1, n)) \o SubSeq(s, n + 1, Len(s))
         IN  c \in Seq(WorkerFrame) /\ Q!FramesOf(c) \subseteq Q!FramesOf(s)
<1> DEFINE a == SubSeq(s, 1, n)
           b == SubSeq(s, n + 1, Len(s))
           k == Q!keep(a)
<1>1. /\ a \in Seq(WorkerFrame) /\ Q!FramesOf(a) \subseteq Q!FramesOf(s)
      /\ b \in Seq(WorkerFrame) /\ Q!FramesOf(b) \subseteq Q!FramesOf(s)
  BY DEF Q!FramesOf
<1>2. k \in Seq(WorkerFrame) /\ Q!FramesOf(k) \subseteq Q!FramesOf(a)
  <2>1. QP!keep(a) \in Seq(WorkerFrame)
        /\ QP!FramesOf(QP!keep(a)) = {f \in QP!FramesOf(a) : ~QP!Interruptible(f)}
    BY <1>1, QP!KeepProperties, QueueKinds
  <2> QED BY <2>1, SameQueue
<1> HIDE DEF a, b, k
<1>3. k \o b \in Seq(WorkerFrame) /\ Q!FramesOf(k \o b) \subseteq Q!FramesOf(k) \cup Q!FramesOf(b)
  <2>1. /\ k \o b \in Seq(WorkerFrame)
        /\ Len(k \o b) = Len(k) + Len(b)
        /\ \A i \in 1..Len(k) + Len(b) :
              (k \o b)[i] = IF i <= Len(k) THEN k[i] ELSE b[i - Len(k)]
    BY <1>1, <1>2, ConcatProperties
  <2>2. Len(k) \in Nat /\ Len(b) \in Nat
    BY <1>1, <1>2
  <2> QED BY <2>1, <2>2 DEF Q!FramesOf
<1> QED BY <1>1, <1>2, <1>3 DEF a, b, k

Inboxes == [Proc -> Q!Queue]

\* Putting a frame in a processor's queue changes no other queue, and adds at
\* most that frame.
LEMMA PutFrame ==
  ASSUME NEW q \in Inboxes, NEW p, NEW f \in WorkerFrame
  PROVE  /\ Put(q, p, f) \in Inboxes
         /\ \A r \in Proc : Queued(Put(q, p, f)[r]) \subseteq Queued(q[r]) \cup {f}
         /\ \A r \in Proc : r # p => Put(q, p, f)[r] = q[r]
<1>1. CASE p \in Proc /\ p \notin canceled
  <2>1. Put(q, p, f) = [q EXCEPT ![p] = Q!push(q[p], f)]
    BY <1>1 DEF Put
  <2>2. q[p] \in Q!Queue
    BY <1>1 DEF Inboxes
  <2>3. Q!push(q[p], f) \in Q!Queue /\ Queued(Q!push(q[p], f)) = Queued(q[p]) \cup {f}
    BY <2>2, PushFrame
  <2> QED BY <2>1, <2>3, <1>1 DEF Inboxes
<1>2. CASE ~(p \in Proc /\ p \notin canceled)
  BY <1>2 DEF Put
<1> QED BY <1>1, <1>2

LEMMA EnterFrame ==
  ASSUME NEW q \in Inboxes, NEW f \in WorkerFrame
  PROVE  /\ Enter(q, f) \in Inboxes
         /\ \A r \in Proc : Queued(Enter(q, f)[r]) \subseteq Queued(q[r]) \cup {f}
         /\ \A r \in Proc : r # 1 => Enter(q, f)[r] = q[r]
  BY PutFrame DEF Enter

\* What a processor makes of its own queue holds nothing that was not in it.
LEMMA OwnQueue ==
  ASSUME NEW p \in Proc, inbox \in Inboxes, ~Q!isEmpty(inbox[p]), NEW f \in WorkerFrame,
         NEW q \in OwnQueues(p, f)
  PROVE  q \in Q!Queue /\ Queued(q) \subseteq Queued(inbox[p])
<1> DEFINE rest == Q!get(inbox[p])
           cut(n) == [rest EXCEPT !.other = Q!keep(SubSeq(@, 1, n))
                                             \o SubSeq(@, n + 1, Len(@))]
<1>1. rest \in Q!Queue /\ Queued(rest) \subseteq Queued(inbox[p])
  BY GetFrame DEF Inboxes
<1>2. CASE f.kind = "interrupt"
  <2>1. PICK n \in 0..Len(rest.other) : q = cut(n)
    BY <1>2 DEF OwnQueues
  <2>2. rest.other \in Seq(WorkerFrame) /\ rest.start \in Seq(WorkerFrame)
        /\ rest.system \in Seq(WorkerFrame)
        /\ rest = [start |-> rest.start, system |-> rest.system, other |-> rest.other]
    BY <1>1 DEF Q!Queue
  <2> DEFINE c == Q!keep(SubSeq(rest.other, 1, n)) \o SubSeq(rest.other, n + 1, Len(rest.other))
  <2>3. c \in Seq(WorkerFrame) /\ Q!FramesOf(c) \subseteq Q!FramesOf(rest.other)
    BY <2>1, <2>2, CutFrames
  <2>4. q = [rest EXCEPT !.other = c]
    BY <2>1
  <2> HIDE DEF c, rest
  <2>5. q \in Q!Queue /\ Queued(q) \subseteq Queued(rest)
    BY <2>2, <2>3, <2>4 DEF Q!Queue, Queued
  <2> QED BY <2>5, <1>1
<1>3. CASE f.kind = "cancel"
  <2>1. q = Q!newQueue
    BY <1>3 DEF OwnQueues
  <2> QED BY <2>1 DEF Q!newQueue, Q!Queue, Queued, Q!FramesOf
<1>4. CASE f.kind # "interrupt" /\ f.kind # "cancel"
  BY <1>1, <1>4 DEF OwnQueues
<1> QED BY <1>2, <1>3, <1>4

LEMMA ProcFacts == N \in Nat /\ N >= 2 /\ 1 \in Proc /\ 2 \in Proc /\ N \in Proc
  BY NAssumption DEF Proc

(***************************************************************************)
(* The type invariant.                                                     *)
(***************************************************************************)
LEMMA TypeInit == Init => TypeOK
<1> SUFFICES ASSUME Init PROVE TypeOK
  OBVIOUS
<1>1. Q!newQueue \in Q!Queue
  BY DEF Q!newQueue, Q!Queue
<1>2. inbox \in [Proc -> Q!Queue]
  BY <1>1 DEF Init
<1>3. pushQueue \in Seq(WorkerFrame)
  BY DEF Init
<1> QED BY <1>2, <1>3 DEF Init, TypeOK, RunState

\* What the steps of Run, of the monitors and of the callers do to the queues.
LEMMA TypeEnvironment == TypeOK /\ Environment => TypeOK'
<1> SUFFICES ASSUME TypeOK, Environment PROVE TypeOK'
  OBVIOUS
<1> USE PlainFrames DEF TypeOK, Plain, runVars, histVars, setupVars, pipeVars, flushVars, Input
<1>1. CASE Cancel
  <2>1. Append(pushQueue, Fr("cancel")) \in Seq(WorkerFrame)
    BY AppendFrame
  <2> QED BY <1>1, <2>1 DEF Cancel, cancelWithReason
<1>2. CASE QueueFrame
  BY <1>2, AppendFrame DEF QueueFrame
<1>3. CASE ProcessorPushes
  <2>1. inbox' \in Inboxes
    BY <1>3, EnterFrame DEF ProcessorPushes, Inboxes
  <2> QED BY <1>3, <2>1 DEF ProcessorPushes, Inboxes
<1>4. CASE ContextEnd
  BY <1>4 DEF ContextEnd
<1>5. CASE Wedge
  BY <1>5 DEF Wedge
<1> QED BY <1>1, <1>2, <1>3, <1>4, <1>5 DEF Environment

LEMMA TypeMonitor == TypeOK /\ (MonitorStep \/ SinkStarted) => TypeOK'
<1> SUFFICES ASSUME TypeOK, MonitorStep \/ SinkStarted PROVE TypeOK'
  OBVIOUS
<1> USE PlainFrames DEF TypeOK, Plain, runVars, histVars, setupVars, pipeVars, flushVars
<1>1. CASE IdleTimeout
  <2>1. Append(pushQueue, Fr("cancel")) \in Seq(WorkerFrame)
    BY AppendFrame
  <2> QED BY <1>1, <2>1 DEF IdleTimeout, cancelWithReason
<1>2. CASE heartbeatPushLoop
  BY <1>2, EnterFrame DEF heartbeatPushLoop, Inboxes
<1>3. ASSUME NEW m \in mon, MonitorExits(m) PROVE TypeOK'
  BY <1>3 DEF MonitorExits
<1>4. CASE SinkStarted
  BY <1>4 DEF SinkStarted, spawn
<1> QED BY <1>1, <1>2, <1>3, <1>4 DEF MonitorStep

LEMMA TypeRun == TypeOK /\ RunStep => TypeOK'
<1> SUFFICES ASSUME TypeOK, RunStep PROVE TypeOK'
  OBVIOUS
<1>0. Enter(inbox, Fr("cancel")) \in Inboxes /\ canceled \cup {0} \subseteq 0..N
  <2>1. inbox \in Inboxes /\ Fr("cancel") \in WorkerFrame
    BY PlainFrames DEF TypeOK, Inboxes
  <2> QED BY <2>1, EnterFrame, ProcFacts DEF TypeOK
<1> USE PlainFrames, ProcFacts
    DEF TypeOK, RunState, Plain, runVars, histVars, setupVars, pipeVars, flushVars, stopStart,
        EnterLoop, spawn, WaitingCancel
<1>1. CASE RunBegin
  BY <1>1 DEF RunBegin
<1>2. CASE setupProcessors
  BY <1>2 DEF setupProcessors
<1>3. CASE PushStart
  BY <1>3, EnterFrame DEF PushStart, Inboxes
<1>4. CASE SetupEnds
  BY <1>4 DEF SetupEnds
<1>5. CASE SetupTimeout
  BY <1>5 DEF SetupTimeout
<1>6. CASE WindDown
  BY <1>6 DEF WindDown
<1>7. CASE waitForStart
  BY <1>7 DEF waitForStart
<1>8. CASE StartTimeout
  BY <1>8 DEF StartTimeout
<1>9. CASE runLoop
  <2> DEFINE f == Head(pushQueue)
  <2>1. f \in WorkerFrame /\ Tail(pushQueue) \in Seq(WorkerFrame)
    BY <1>9, TailFrames DEF runLoop
  <2>2. inbox' \in Inboxes
    BY <1>9, <2>1, EnterFrame DEF runLoop, Inboxes
  <2>3. canceled' \subseteq 0..N
    BY <1>9 DEF runLoop, EnterCancels
  <2>4. /\ run' \in RunState /\ endFrame' \in {"none", "end", "stop", "cancel"}
        /\ cancelFrame' \in BOOLEAN
    BY <1>9, <2>1 DEF runLoop, isPipelineEnd
  <2> QED BY <1>9, <2>1, <2>2, <2>3, <2>4 DEF runLoop, Inboxes
<1>10. CASE waitPipelineEnd
  BY <1>10 DEF waitPipelineEnd
<1>11. CASE CancelArrived
  BY <1>11 DEF CancelArrived
<1>12. CASE CancelTimeout
  BY <1>12 DEF CancelTimeout
<1>13. CASE cancelOnContextEnd
  <2>1. canceled' = canceled \/ canceled' = canceled \cup {0}
    BY <1>13 DEF cancelOnContextEnd, EnterCancels
  <2> QED BY <1>0, <1>13, <2>1 DEF cancelOnContextEnd, Inboxes
<1>14. CASE monitorsStop
  BY <1>14 DEF monitorsStop
<1>15. CASE Teardown \/ MonitorStopTimeout
  BY <1>15 DEF Teardown, MonitorStopTimeout, tearDown
<1>16. CASE Finish
  BY <1>16 DEF Finish
<1>17. ASSUME NEW p \in Proc, cleanupProcessor(p) PROVE TypeOK'
  BY <1>17 DEF cleanupProcessor
<1> QED BY <1>1, <1>2, <1>3, <1>4, <1>5, <1>6, <1>7, <1>8, <1>9, <1>10, <1>11, <1>12,
           <1>13, <1>14, <1>15, <1>16, <1>17 DEF RunStep

\* What HandleDown leaves in the queues: the processor's own is cut down to what
\* was in it, its neighbour below may get the frame taken, and whatever else is
\* added goes up.
LEMMA DownQueues ==
  ASSUME TypeOK, NEW p \in Proc, HandleDown(p)
  PROVE  LET f == Q!head(inbox[p]) IN
         /\ f \in WorkerFrame /\ f \in Queued(inbox[p])
         /\ inbox' \in Inboxes
         /\ \A r \in Proc : \A g \in Queued(inbox'[r]) :
               \/ g \in Queued(inbox[r])
               \/ goesUp(g)
               \/ r = p + 1 /\ g = f
<1> DEFINE f == Q!head(inbox[p])
<1>1. inbox \in Inboxes /\ ~Q!isEmpty(inbox[p]) /\ inbox[p] \in Q!Queue
  BY DEF TypeOK, Inboxes, HandleDown, CanTake
<1>2. f \in WorkerFrame /\ f \in Queued(inbox[p])
  BY <1>1, GetFrame
<1>3. PICK q \in OwnQueues(p, f) :
        LET own == PutAll([inbox EXCEPT ![p] = q], p - 1, PushedUp(p, f))
        IN  IF p < N THEN inbox' = Put(own, p + 1, f)
            ELSE inbox' = PutAll(own, p, SentBack(f))
  BY DEF HandleDown
<1>4. q \in Q!Queue /\ Queued(q) \subseteq Queued(inbox[p])
  BY <1>1, <1>2, OwnQueue
<1> DEFINE cut == [inbox EXCEPT ![p] = q]
           own == PutAll(cut, p - 1, PushedUp(p, f))
<1>5. cut \in Inboxes /\ \A r \in Proc : Queued(cut[r]) \subseteq Queued(inbox[r])
  BY <1>1, <1>4 DEF Inboxes
<1> HIDE DEF cut
<1>6. /\ own \in Inboxes
      /\ \A r \in Proc : \A g \in Queued(own[r]) : g \in Queued(inbox[r]) \/ goesUp(g)
  <2>1. CASE PushedUp(p, f) = <<>>
    BY <2>1, <1>5 DEF PutAll
  <2>2. CASE PushedUp(p, f) = <<Fr("u")>>
    <3>1. own = Put(cut, p - 1, Fr("u"))
      BY <2>2 DEF PutAll
    <3>2. Fr("u") \in WorkerFrame /\ goesUp(Fr("u"))
      BY PlainFrames DEF goesUp
    <3> QED BY <3>1, <3>2, <1>5, PutFrame
  <2> QED BY <2>1, <2>2 DEF PushedUp
<1> HIDE DEF own
<1>7. CASE p < N
  <2>1. inbox' = Put(own, p + 1, f)
    BY <1>7, <1>3 DEF own, cut
  <2>2. /\ inbox' \in Inboxes
        /\ \A r \in Proc : Queued(inbox'[r]) \subseteq Queued(own[r]) \cup {f}
        /\ \A r \in Proc : r # p + 1 => inbox'[r] = own[r]
    BY <2>1, <1>2, <1>6, PutFrame
  <2> QED BY <2>2, <1>2, <1>6
<1>8. CASE ~(p < N)
  <2>1. inbox' = PutAll(own, p, SentBack(f))
    BY <1>8, <1>3 DEF own, cut
  <2>2. CASE SentBack(f) = <<>>
    BY <1>2, <1>6, <2>1, <2>2 DEF PutAll
  <2>3. CASE f.kind = "probe"
    <3>1. inbox' = Put(own, p, Probe("bounce", f.flush))
      BY <2>1, <2>3 DEF PutAll, SentBack
    <3>2. Probe("bounce", f.flush) \in WorkerFrame
      BY <2>3, <1>2, FrameTypes DEF Legs
    <3>3. goesUp(Probe("bounce", f.flush))
      BY DEF goesUp, Probe
    <3> QED BY <3>1, <3>2, <3>3, <1>2, <1>6, PutFrame
  <2>4. CASE f.kind = "endWorker"
    <3>1. inbox' = Put(own, p, Fr("echo"))
      BY <2>1, <2>4 DEF PutAll, SentBack
    <3>2. Fr("echo") \in WorkerFrame /\ goesUp(Fr("echo"))
      BY PlainFrames DEF goesUp
    <3> QED BY <3>1, <3>2, <1>2, <1>6, PutFrame
  <2> QED BY <2>2, <2>3, <2>4 DEF SentBack
<1> QED BY <1>2, <1>7, <1>8

\* What HandleUp leaves in the queues: nothing that ends the pipeline is added.
LEMMA UpQueues ==
  ASSUME TypeOK, NEW p \in Proc, HandleUp(p)
  PROVE  /\ inbox' \in Inboxes /\ pushQueue' \in Seq(WorkerFrame)
         /\ \A r \in Proc : \A g \in Queued(inbox'[r]) :
               g \in Queued(inbox[r]) \/ ~isPipelineEnd(g)
<1> DEFINE f == Q!head(inbox[p])
           own == [inbox EXCEPT ![p] = Q!get(inbox[p])]
<1>1. inbox \in Inboxes /\ ~Q!isEmpty(inbox[p]) /\ inbox[p] \in Q!Queue
  BY DEF TypeOK, Inboxes, HandleUp, CanTake
<1>2. /\ f \in WorkerFrame /\ Q!get(inbox[p]) \in Q!Queue
      /\ Queued(Q!get(inbox[p])) \subseteq Queued(inbox[p])
  BY <1>1, GetFrame
<1>3. own \in Inboxes /\ \A r \in Proc : Queued(own[r]) \subseteq Queued(inbox[r])
  BY <1>1, <1>2 DEF Inboxes
<1>4. goesUp(f) /\ ~isPipelineEnd(f)
  BY DEF HandleUp, goesUp, isPipelineEnd
<1>5. IF p > 1 THEN inbox' = Put(own, p - 1, f) /\ UNCHANGED pushQueue
      ELSE sourcePush(f, own)
  BY DEF HandleUp
<1>6. pushQueue \in Seq(WorkerFrame)
  BY DEF TypeOK
<1> HIDE DEF own
<1>7. CASE inbox' = own /\ UNCHANGED pushQueue
  BY <1>3, <1>6, <1>7
<1>8. CASE inbox' = own /\ pushQueue' = Append(pushQueue, Fr("end"))
  BY <1>3, <1>6, <1>8, AppendFrame, PlainFrames
<1>9. ASSUME NEW r, NEW g \in WorkerFrame, ~isPipelineEnd(g),
             inbox' = Put(own, r, g), UNCHANGED pushQueue
      PROVE  /\ inbox' \in Inboxes /\ pushQueue' \in Seq(WorkerFrame)
             /\ \A x \in Proc : \A h \in Queued(inbox'[x]) :
                   h \in Queued(inbox[x]) \/ ~isPipelineEnd(h)
  BY <1>3, <1>6, <1>9, PutFrame
<1>10. CASE p > 1
  BY <1>2, <1>4, <1>5, <1>9, <1>10
<1>11. CASE ~(p > 1) /\ f.kind = "u"
  <2>1. inbox' = Put(own, 2, Fr("r")) /\ UNCHANGED pushQueue
    BY <1>5, <1>11 DEF sourcePush
  <2>2. Fr("r") \in WorkerFrame /\ ~isPipelineEnd(Fr("r"))
    BY PlainFrames DEF isPipelineEnd
  <2> QED BY <2>1, <2>2, <1>9
<1>12. CASE ~(p > 1) /\ f.kind = "bounce" /\ 0 \notin canceled
  <2>1. inbox' = Put(own, 1, Probe("returning", f.flush)) /\ UNCHANGED pushQueue
    BY <1>5, <1>12 DEF sourcePush
  <2>2. Probe("returning", f.flush) \in WorkerFrame
    BY <1>2, <1>12, FrameTypes DEF Legs
  <2>3. ~isPipelineEnd(Probe("returning", f.flush))
    BY DEF isPipelineEnd, Probe
  <2> QED BY <2>1, <2>2, <2>3, <1>9
<1>13. CASE ~(p > 1) /\ f.kind = "echo" /\ 0 \notin canceled
  BY <1>5, <1>8, <1>13 DEF sourcePush
<1>14. CASE ~(p > 1) /\ f.kind # "u" /\ (f.kind = "bounce" \/ f.kind = "echo" => 0 \in canceled)
  BY <1>5, <1>7, <1>14 DEF sourcePush
<1> QED BY <1>10, <1>11, <1>12, <1>13, <1>14

LEMMA TypeProcessor ==
  ASSUME TypeOK, NEW p \in Proc, SetupReturns(p) \/ ProcessorStep(p)
  PROVE  TypeOK'
<1>1. CASE SetupReturns(p)
  BY <1>1 DEF SetupReturns, TypeOK, runVars, histVars, setupVars, pipeVars, flushVars
<1>2. CASE HandleDown(p)
  <2> DEFINE f == Q!head(inbox[p])
  <2>1. f \in WorkerFrame /\ inbox' \in Inboxes
    BY <1>2, DownQueues
  <2>2. opened' \subseteq Proc /\ told' \subseteq Proc /\ canceled' \subseteq 0..N
    <3>1. Took(p, f)
      BY <1>2 DEF HandleDown
    <3>2. opened \subseteq Proc /\ told \subseteq Proc /\ canceled \subseteq 0..N /\ p \in 0..N
      BY NAssumption DEF TypeOK, Proc
    <3> QED BY <3>1, <3>2 DEF Took
  <2>3. (UNCHANGED <<sig, pushQueue, starting, flushVars>>) \/ sinkPush(f)
    BY <1>2 DEF HandleDown
  <2>4. /\ UNCHANGED <<runVars, setupVars, cleaned, wedged, mon, monStopped, left>>
    BY <1>2 DEF HandleDown
  <2>5. /\ sig' \subseteq {"started", "start", "end", "cancel", "canceling", "finished",
                           "context", "event"}
        /\ starting' \in BOOLEAN /\ pushQueue' \in Seq(WorkerFrame)
        /\ moved' \in [Flush -> BOOLEAN] /\ owed' \in [Flush -> BOOLEAN]
    <3>1. CASE UNCHANGED <<sig, pushQueue, starting, flushVars>>
      BY <3>1 DEF TypeOK, flushVars
    <3>2. CASE sinkPush(f)
      BY <3>2 DEF TypeOK, sinkPush
    <3> QED BY <2>3, <3>1, <3>2
  <2>6. flush' \in [Flush -> {"no", "startWait", "waiting", "nil", "gaveUp"}]
    <3>1. CASE UNCHANGED <<sig, pushQueue, starting, flushVars>>
      BY <3>1 DEF TypeOK, flushVars
    <3>2. CASE sinkPush(f)
      BY <3>2 DEF TypeOK, sinkPush, CloseDone
    <3> QED BY <2>3, <3>1, <3>2
  <2> QED BY <2>1, <2>2, <2>4, <2>5, <2>6 DEF TypeOK, Inboxes, runVars, histVars, setupVars
<1>3. CASE HandleUp(p)
  <2>1. inbox' \in Inboxes /\ pushQueue' \in Seq(WorkerFrame)
    BY <1>3, UpQueues
  <2> QED BY <1>3, <2>1 DEF HandleUp, TypeOK, Inboxes, runVars, histVars, setupVars, flushVars
<1> QED BY <1>1, <1>2, <1>3 DEF ProcessorStep

LEMMA TypeFlush ==
  ASSUME TypeOK, NEW i \in Flush, FlushCall(i) \/ FlushProbe(i) \/ FlushTimer(i)
  PROVE  TypeOK'
<1> USE DEF TypeOK, runVars, histVars, setupVars, pipeVars, flushVars
<1>1. CASE FlushCall(i)
  BY <1>1 DEF FlushCall
<1>2. CASE FlushProbe(i)
  <2>1. Probe("probe", i) \in WorkerFrame
    BY FrameTypes DEF Legs
  <2>2. Append(pushQueue, Probe("probe", i)) \in Seq(WorkerFrame)
    BY <2>1, AppendFrame
  <2> QED BY <1>2, <2>2 DEF FlushProbe
<1>3. CASE FlushTimer(i)
  BY <1>3 DEF FlushTimer
<1> QED BY <1>1, <1>2, <1>3

LEMMA TypeNext == TypeOK /\ [Next]_vars => TypeOK'
<1> SUFFICES ASSUME TypeOK, [Next]_vars PROVE TypeOK'
  OBVIOUS
<1>1. CASE UNCHANGED vars
  BY <1>1 DEF vars, TypeOK
<1>2. CASE Next
  BY <1>2, TypeEnvironment, TypeRun, TypeMonitor, TypeProcessor, TypeFlush DEF Next
<1> QED BY <1>1, <1>2

\* Every variable keeps its type, whatever the callers, the processors, the
\* monitors and the goroutine of Run do, and in whatever order.
THEOREM TypeCorrect == Spec => []TypeOK
<1> QED BY TypeInit, TypeNext, PTL DEF Spec

(***************************************************************************)
(* The run.  Only the goroutine of Run moves it; the others leave it, the  *)
(* setup and the cleanup alone.                                            *)
(***************************************************************************)
Others ==
    \/ Environment \/ MonitorStep \/ SinkStarted
    \/ \E p \in Proc : ProcessorStep(p)
    \/ \E i \in Flush : FlushCall(i) \/ FlushProbe(i) \/ FlushTimer(i)

LEMMA StepKinds ==
  Next => RunStep \/ (\E p \in Proc : SetupReturns(p)) \/ Others
  BY DEF Next, Others

\* What the others leave alone.  A monitor is started only by spawn.
LEMMA OthersLeave ==
  Others => /\ UNCHANGED <<run, looped, late, hasty, strays, setup, cleaned, monStopped>>
            /\ mon' \subseteq mon \/ mon' = spawn("heartbeat")
<1> SUFFICES ASSUME Others
             PROVE  /\ UNCHANGED <<run, looped, late, hasty, strays, setup, cleaned, monStopped>>
                    /\ mon' \subseteq mon \/ mon' = spawn("heartbeat")
  OBVIOUS
<1> USE DEF runVars, histVars, setupVars, flushVars
<1>1. CASE Environment
  BY <1>1 DEF Environment, Cancel, QueueFrame, ProcessorPushes, ContextEnd, Wedge
<1>2. CASE MonitorStep
  BY <1>2 DEF MonitorStep, IdleTimeout, heartbeatPushLoop, MonitorExits
<1>3. CASE SinkStarted
  BY <1>3 DEF SinkStarted
<1>4. CASE \E p \in Proc : ProcessorStep(p)
  BY <1>4 DEF ProcessorStep, HandleDown, HandleUp
<1>5. CASE \E i \in Flush : FlushCall(i) \/ FlushProbe(i) \/ FlushTimer(i)
  BY <1>5 DEF FlushCall, FlushProbe, FlushTimer
<1> QED BY <1>1, <1>2, <1>3, <1>4, <1>5 DEF Others

NotBegun == {"new", "setup", "windDown"}
Over == {"stopMonitors", "cleanup", "afterCleanup", "done"}
AllBegan == \A p \in Proc : setup[p] # "no"

(***************************************************************************)
(* Setup and Cleanup.  A cleaned processor can only be caught inside its   *)
(* Setup if that began after its cleanup: setupProcessors begins all of    *)
(* them in one go, and unless the second of giveUp was too short for that, *)
(* the run does not get past setting up before.                            *)
(***************************************************************************)
SetupInv ==
    /\ setupBegan => AllBegan
    /\ run \notin NotBegun /\ ~hasty => AllBegan
    /\ \A p \in Proc : cleaned[p] # "no" => run \in {"cleanup", "done"}
    /\ SetupCleanupApart

\* Setting up begins for all processors or for none.
LEMMA BegunForAll ==
  ASSUME TypeOK, SetupInv
  PROVE  AllBegan \/ setup = [p \in Proc |-> "no"]
  BY DEF SetupInv, setupBegan

LEMMA SetupNext == TypeOK /\ SetupInv /\ [Next]_vars => SetupInv'
<1> SUFFICES ASSUME TypeOK, SetupInv, [Next]_vars PROVE SetupInv'
  OBVIOUS
<1>0. AllBegan \/ setup = [p \in Proc |-> "no"]
  BY BegunForAll
<1> USE DEF SetupInv, SetupCleanupApart, AllBegan, setupBegan, NotBegun
<1>1. ASSUME UNCHANGED <<run, hasty, setup, cleaned>> PROVE SetupInv'
  BY <1>1
<1>2. CASE RunStep
  <2>1. CASE setupProcessors
    <3>1. 1 \in Proc /\ setup[1] = "no"
      BY <2>1, ProcFacts DEF setupProcessors
    <3>2. hasty \/ (run \in NotBegun /\ \A p \in Proc : cleaned[p] = "no")
      BY <3>1
    <3> QED BY <2>1, <3>2 DEF setupProcessors, runVars, histVars
  <2>2. ASSUME NEW p \in Proc, cleanupProcessor(p) PROVE SetupInv'
    BY <2>2 DEF cleanupProcessor, settled, runVars, histVars, setupVars, TypeOK
  <2>3. ASSUME UNCHANGED <<setup, cleaned>>,
               run \in {"cleanup", "done"} => run' \in {"cleanup", "done"},
               hasty => hasty',
               run' \notin NotBegun /\ ~hasty' => run \notin NotBegun \/ AllBegan
        PROVE  SetupInv'
    BY <2>3
  <2>4. CASE RunBegin \/ SetupTimeout
    BY <2>4, <2>3 DEF RunBegin, SetupTimeout, histVars
  <2>5. CASE PushStart \/ monitorsStop
    BY <2>5, <1>1 DEF PushStart, monitorsStop, runVars, histVars, setupVars
  <2>6. CASE SetupEnds
    BY <2>6, <2>3 DEF SetupEnds, setupDone, EnterLoop, histVars
  <2>7. CASE WindDown
    BY <2>7 DEF WindDown
  <2>8. CASE waitForStart \/ StartTimeout
    BY <2>8, <2>3 DEF waitForStart, StartTimeout, EnterLoop, histVars
  <2>9. CASE runLoop
    BY <2>9, <2>3 DEF runLoop, setupVars, histVars
  <2>10. CASE waitPipelineEnd \/ CancelArrived \/ CancelTimeout
    BY <2>10, <2>3 DEF waitPipelineEnd, CancelArrived, CancelTimeout, WaitingCancel,
       setupVars, histVars
  <2>11. CASE cancelOnContextEnd
    BY <2>11, <2>3 DEF cancelOnContextEnd, setupVars, histVars
  <2>12. CASE Teardown \/ MonitorStopTimeout \/ Finish
    BY <2>12, <2>3 DEF Teardown, MonitorStopTimeout, tearDown, Finish, setupVars, histVars
  <2> QED BY <1>2, <2>1, <2>2, <2>4, <2>5, <2>6, <2>7, <2>8, <2>9, <2>10, <2>11, <2>12
             DEF RunStep
<1>3. ASSUME NEW p \in Proc, SetupReturns(p) PROVE SetupInv'
  BY <1>0, <1>3 DEF SetupReturns, runVars, histVars, TypeOK
<1>4. CASE Others
  BY <1>1, <1>4, OthersLeave
<1>5. CASE UNCHANGED vars
  BY <1>1, <1>5 DEF vars
<1> QED BY <1>2, <1>3, <1>4, <1>5, StepKinds

\* A processor is never cleaned up while its own Setup is still running: not when
\* setting up times out, is canceled or is overtaken by the caller's context, and
\* whichever processors have finished by then (setupTracker, cleanup), as long as
\* setting up began before giveUp's second was over.
THEOREM SetupCleanupApartHolds == Spec => []SetupCleanupApart
<1>1. Init => SetupInv
  BY DEF Init, SetupInv, SetupCleanupApart, setupBegan, NotBegun
<1>2. SetupInv => SetupCleanupApart
  BY DEF SetupInv
<1> QED BY <1>1, <1>2, TypeInit, TypeNext, SetupNext, PTL DEF Spec

(***************************************************************************)
(* The monitors.  Their scope is closed before the wait for them, and      *)
(* spawn starts nothing in a closed scope.                                 *)
(***************************************************************************)
MonInv ==
    /\ MonitorsGone
    /\ run \in {"cleanup", "afterCleanup", "done"} => monStopped

LEMMA MonNext == TypeOK /\ MonInv /\ [Next]_vars => MonInv'
<1> SUFFICES ASSUME TypeOK, MonInv, [Next]_vars PROVE MonInv'
  OBVIOUS
<1> USE DEF MonInv, MonitorsGone
<1>1. ASSUME UNCHANGED <<run, strays, monStopped>>, mon' \subseteq mon \/ mon' = spawn("heartbeat")
      PROVE  MonInv'
  BY <1>1 DEF spawn
<1>2. CASE RunStep
  <2>1. CASE Teardown \/ MonitorStopTimeout
    BY <2>1 DEF Teardown, MonitorStopTimeout, tearDown
  <2>2. CASE Finish
    BY <2>2 DEF Finish, histVars
  <2>3. CASE setupProcessors \/ PushStart \/ monitorsStop \/ \E p \in Proc : cleanupProcessor(p)
    BY <2>3 DEF setupProcessors, PushStart, monitorsStop, cleanupProcessor, runVars, histVars
  <2>4. CASE RunBegin \/ SetupEnds \/ SetupTimeout \/ WindDown \/ waitForStart \/ StartTimeout
    BY <2>4 DEF RunBegin, SetupEnds, SetupTimeout, WindDown, waitForStart, StartTimeout,
       EnterLoop
  <2>5. CASE runLoop \/ waitPipelineEnd \/ CancelArrived \/ CancelTimeout \/ cancelOnContextEnd
    BY <2>5 DEF runLoop, waitPipelineEnd, CancelArrived, CancelTimeout, cancelOnContextEnd,
       WaitingCancel
  <2> QED BY <1>2, <2>1, <2>2, <2>3, <2>4, <2>5 DEF RunStep
<1>3. CASE \E p \in Proc : SetupReturns(p)
  BY <1>1, <1>3 DEF SetupReturns, runVars, histVars
<1>4. CASE Others
  BY <1>1, <1>4, OthersLeave
<1>5. CASE UNCHANGED vars
  BY <1>1, <1>5 DEF vars
<1> QED BY <1>2, <1>3, <1>4, <1>5, StepKinds

\* While the pipeline is being torn down and afterwards no monitor runs but those the
\* bounded wait was given up on, and none is started, even when the StartFrame that
\* starts the heartbeats reaches the sink only then (monitors.spawn and stop).
THEOREM MonitorsGoneHolds == Spec => []MonitorsGone
<1>1. Init => MonInv
  BY DEF Init, MonInv, MonitorsGone
<1>2. MonInv => MonitorsGone
  BY DEF MonInv
<1> QED BY <1>1, <1>2, TypeInit, TypeNext, MonNext, PTL DEF Spec

(***************************************************************************)
(* Told before cleaned up.  A frame that ends the pipeline reaches a       *)
(* processor only from the one above it, so all above one that has it were *)
(* told; endSig is raised only by the sink, and a run that entered its     *)
(* loop gets to the teardown only past endSig or a timeout.                *)
(***************************************************************************)
Ends(q) == \E f \in Queued(q) : isPipelineEnd(f)

ToldAbove ==
    \A p \in Proc : p \in told \/ Ends(inbox[p]) => \A r \in Proc : r < p => r \in told

ToldInv ==
    /\ ToldAbove
    /\ Raised("end") => Proc \subseteq told
    /\ run \in NotBegun \cup {"start"} => ~looped
    /\ looped /\ run \in Over /\ ~late => Raised("end")

\* The frames that end the pipeline enter it at the first processor, so a step
\* that adds one nowhere else and marks nobody told keeps ToldAbove.
AddsNoEnd ==
    \A r \in Proc : \A g \in Queued(inbox'[r]) :
        r = 1 \/ g \in Queued(inbox[r]) \/ ~isPipelineEnd(g)

LEMMA AboveKept ==
  ASSUME ToldAbove, told' = told, AddsNoEnd
  PROVE  ToldAbove'
<1> SUFFICES ASSUME NEW p \in Proc, p \in told \/ Ends(inbox'[p]), NEW r \in Proc, r < p
             PROVE  r \in told
  BY DEF ToldAbove
<1>1. p # 1
  BY DEF Proc
<1>2. p \in told \/ Ends(inbox[p])
  BY <1>1 DEF Ends, AddsNoEnd
<1> QED BY <1>2 DEF ToldAbove

LEMMA EnteredAtFirst ==
  ASSUME TypeOK, NEW f \in WorkerFrame, inbox' = inbox \/ inbox' = Enter(inbox, f)
  PROVE  AddsNoEnd
<1>1. inbox \in Inboxes
  BY DEF TypeOK, Inboxes
<1> QED BY <1>1, EnterFrame DEF AddsNoEnd

LEMMA ToldRun == TypeOK /\ ToldInv /\ RunStep => ToldInv'
<1> SUFFICES ASSUME TypeOK, ToldInv, RunStep PROVE ToldInv'
  OBVIOUS
<1>1. ASSUME UNCHANGED <<told, inbox>>, "end" \in sig' <=> Raised("end"),
             run' \in NotBegun \cup {"start"} => ~looped',
             looped' /\ run' \in Over /\ ~late' => Raised("end")
      PROVE  ToldInv'
  BY <1>1 DEF ToldInv, ToldAbove, Ends, Raised
<1>2. ASSUME UNCHANGED <<told, sig, looped, late>>,
             NEW f \in WorkerFrame, inbox' = inbox \/ inbox' = Enter(inbox, f),
             run' = run \/ run' \notin NotBegun \cup {"start"} \cup Over
      PROVE  ToldInv'
  <2>1. ToldAbove'
    BY <1>2, EnteredAtFirst, AboveKept DEF ToldInv
  <2> QED BY <1>2, <2>1 DEF ToldInv, Raised
<1> USE DEF ToldInv, NotBegun, Over, runVars, histVars, pipeVars, setupVars
<1>3. CASE RunBegin \/ setupProcessors \/ SetupTimeout \/ WindDown \/ StartTimeout
  BY <1>1, <1>3 DEF RunBegin, setupProcessors, SetupTimeout, WindDown, StartTimeout, Raised
<1>4. CASE PushStart
  BY <1>2, <1>4, PlainFrames DEF PushStart
<1>5. CASE SetupEnds
  BY <1>1, <1>5 DEF SetupEnds, EnterLoop, Raised
<1>6. CASE waitForStart
  BY <1>1, <1>6 DEF waitForStart, EnterLoop, Raised
<1>7. CASE runLoop
  <2>1. Head(pushQueue) \in WorkerFrame
    BY <1>7, TailFrames DEF runLoop, TypeOK
  <2>2. run' = run \/ run' \notin NotBegun \cup {"start"} \cup Over
    BY <1>7 DEF runLoop
  <2> QED BY <1>2, <1>7, <2>1, <2>2 DEF runLoop
<1>8. CASE waitPipelineEnd \/ CancelArrived \/ CancelTimeout
  BY <1>1, <1>8 DEF waitPipelineEnd, CancelArrived, CancelTimeout, WaitingCancel, Raised
<1>9. CASE cancelOnContextEnd
  <2>1. Fr("cancel") \in WorkerFrame
    BY PlainFrames
  <2>2. /\ UNCHANGED <<told, looped, late>> /\ run' = "waitCancelAgain"
        /\ inbox' = inbox \/ inbox' = Enter(inbox, Fr("cancel"))
        /\ "end" \in sig' <=> "end" \in sig
    BY <1>9 DEF cancelOnContextEnd
  <2>3. ToldAbove'
    BY <2>1, <2>2, EnteredAtFirst, AboveKept
  <2> QED BY <2>2, <2>3 DEF Raised
<1>10. CASE \/ monitorsStop \/ Teardown \/ MonitorStopTimeout \/ Finish
            \/ \E p \in Proc : cleanupProcessor(p)
  BY <1>1, <1>10 DEF monitorsStop, Teardown, MonitorStopTimeout, tearDown, Finish,
     cleanupProcessor, Raised
<1> QED BY <1>3, <1>4, <1>5, <1>6, <1>7, <1>8, <1>9, <1>10 DEF RunStep

LEMMA ToldDown ==
  ASSUME TypeOK, ToldInv, NEW p \in Proc, HandleDown(p)
  PROVE  ToldInv'
<1> DEFINE f == Q!head(inbox[p])
<1>1. /\ f \in WorkerFrame /\ f \in Queued(inbox[p])
      /\ \A r \in Proc : \A g \in Queued(inbox'[r]) :
            g \in Queued(inbox[r]) \/ goesUp(g) \/ (r = p + 1 /\ g = f)
  BY DownQueues
<1>2. told' = IF isPipelineEnd(f) THEN told \cup {p} ELSE told
  BY DEF HandleDown, Took
<1>3. UNCHANGED <<run, looped, late>>
  BY DEF HandleDown, runVars, histVars
<1>4. "end" \in sig' => Raised("end") \/ (p = N /\ isPipelineEnd(f))
  <2>1. p < N \/ p = N
    BY NAssumption DEF Proc
  <2>2. sig' = sig \/ (p = N /\ sinkPush(f))
    BY <2>1 DEF HandleDown
  <2> QED BY <2>2 DEF sinkPush, Raised, isPipelineEnd
<1>5. "end" \in sig => "end" \in sig'
  BY DEF HandleDown, sinkPush
<1>6. isPipelineEnd(f) => \A r \in Proc : r < p => r \in told
  BY <1>1 DEF ToldInv, ToldAbove, Ends
<1>7. ToldAbove'
  <2> SUFFICES ASSUME NEW x \in Proc, x \in told' \/ Ends(inbox'[x]),
                      NEW r \in Proc, r < x
               PROVE  r \in told'
    BY DEF ToldAbove
  <2>1. ASSUME x \in told \/ Ends(inbox[x]) PROVE r \in told'
    BY <1>2, <2>1 DEF ToldInv, ToldAbove
  <2>2. ASSUME x = p, isPipelineEnd(f) PROVE r \in told'
    BY <1>2, <1>6, <2>2
  <2>3. ASSUME x = p + 1, isPipelineEnd(f) PROVE r \in told'
    <3>1. r = p \/ r < p
      BY <2>3 DEF Proc
    <3> QED BY <1>2, <1>6, <2>3, <3>1
  <2>4. CASE x \in told'
    BY <1>2, <2>1, <2>2, <2>4
  <2>5. CASE Ends(inbox'[x])
    <3>1. PICK g \in Queued(inbox'[x]) : isPipelineEnd(g)
      BY <2>5 DEF Ends
    <3>2. ~goesUp(g)
      BY <3>1 DEF goesUp, isPipelineEnd
    <3>3. g \in Queued(inbox[x]) \/ (x = p + 1 /\ g = f)
      BY <1>1, <3>1, <3>2
    <3> QED BY <2>1, <2>3, <3>1, <3>3 DEF Ends
  <2> QED BY <2>4, <2>5
<1>8. "end" \in sig' => Proc \subseteq told'
  <2>1. CASE Raised("end")
    BY <1>2, <2>1 DEF ToldInv
  <2>2. CASE p = N /\ isPipelineEnd(f)
    BY <1>2, <1>6, <2>2, NAssumption DEF Proc
  <2> QED BY <1>4, <2>1, <2>2
<1> QED BY <1>3, <1>5, <1>7, <1>8 DEF ToldInv, Raised

LEMMA ToldOthers == TypeOK /\ ToldInv /\ Others => ToldInv'
<1> SUFFICES ASSUME TypeOK, ToldInv, Others PROVE ToldInv'
  OBVIOUS
<1>1. UNCHANGED <<run, looped, late>>
  BY OthersLeave
<1>2. ASSUME told' = told, "end" \in sig' <=> Raised("end"), AddsNoEnd PROVE ToldInv'
  BY <1>1, <1>2, AboveKept DEF ToldInv, Raised
<1>3. ASSUME inbox' = inbox PROVE AddsNoEnd
  BY <1>3 DEF AddsNoEnd
<1> USE DEF pipeVars
<1>4. CASE Environment
  <2>1. CASE ProcessorPushes
    BY <1>2, <2>1, EnteredAtFirst, PlainFrames DEF ProcessorPushes, Raised
  <2>2. CASE Cancel \/ QueueFrame \/ ContextEnd \/ Wedge
    BY <1>2, <1>3, <2>2 DEF Cancel, cancelWithReason, QueueFrame, ContextEnd, Wedge, Raised
  <2> QED BY <1>4, <2>1, <2>2 DEF Environment
<1>5. CASE MonitorStep \/ SinkStarted
  <2>1. CASE heartbeatPushLoop
    BY <1>2, <2>1, EnteredAtFirst, PlainFrames DEF heartbeatPushLoop, Raised
  <2>2. CASE IdleTimeout \/ SinkStarted \/ \E m \in mon : MonitorExits(m)
    BY <1>2, <1>3, <2>2 DEF IdleTimeout, cancelWithReason, SinkStarted, MonitorExits, Raised
  <2> QED BY <1>5, <2>1, <2>2 DEF MonitorStep
<1>6. ASSUME NEW p \in Proc, HandleUp(p) PROVE ToldInv'
  <2>1. AddsNoEnd
    BY <1>6, UpQueues DEF AddsNoEnd
  <2> QED BY <1>2, <1>6, <2>1 DEF HandleUp, Raised
<1>7. CASE \E i \in Flush : FlushCall(i) \/ FlushProbe(i) \/ FlushTimer(i)
  BY <1>2, <1>3, <1>7 DEF FlushCall, FlushProbe, FlushTimer, Raised
<1> QED BY <1>4, <1>5, <1>6, <1>7, ToldDown DEF Others, ProcessorStep

LEMMA ToldNext == TypeOK /\ ToldInv /\ [Next]_vars => ToldInv'
<1> SUFFICES ASSUME TypeOK, ToldInv, [Next]_vars PROVE ToldInv'
  OBVIOUS
<1>1. CASE (\E p \in Proc : SetupReturns(p)) \/ UNCHANGED vars
  <2>1. UNCHANGED <<run, looped, late, told, inbox, sig>>
    BY <1>1 DEF SetupReturns, vars, runVars, histVars, pipeVars
  <2> QED BY <2>1 DEF ToldInv, ToldAbove, Ends, Raised
<1> QED BY <1>1, ToldRun, ToldOthers, StepKinds

\* Unless the wait for the CancelFrame timed out, no processor of a pipeline that
\* ran is cleaned up before it handled the frame that ends the pipeline, however a
\* cancel, the caller's context and an EndFrame on its way cross
\* (waitForPipelineEnd, cancelOnContextEnd).
THEOREM ToldBeforeCleanupHolds == Spec => []ToldBeforeCleanup
<1>1. Init => ToldInv /\ SetupInv
  <2> SUFFICES ASSUME Init PROVE ToldInv /\ SetupInv
    OBVIOUS
  <2>1. \A p \in Proc : ~Ends(inbox[p])
    BY DEF Init, Ends, Queued, Q!FramesOf, Q!newQueue
  <2> QED BY <2>1 DEF Init, ToldInv, ToldAbove, Raised, NotBegun, SetupInv, Over,
             SetupCleanupApart, setupBegan
<1>2. ToldInv /\ SetupInv => ToldBeforeCleanup
  BY DEF ToldInv, SetupInv, ToldBeforeCleanup, Over
<1> QED BY <1>1, <1>2, TypeInit, TypeNext, SetupNext, ToldNext, PTL DEF Spec

(***************************************************************************)
(* A flush covers the work ahead of it.  The work and the probe go the     *)
(* same way: down as "d" and "probe", up as "u" and "bounce", down again   *)
(* as "r" and "returning".  Behind(i) says that wherever both are, the     *)
(* work is ahead of the probe of flush i: on a later leg, further on, or   *)
(* before it in the same queue.  So none is left when the probe gets to    *)
(* the sink.  Line(p) is the queue the frames are in at processor p,       *)
(* Line(0) the one of the worker.                                          *)
(***************************************************************************)
Line(p) == IF p = 0 THEN pushQueue ELSE inbox[p].other
At(f, p) == f \in Q!FramesOf(Line(p))
Gone(f) == \A p \in 0..N : ~At(f, p)

\* In s every w comes before every x.
Ahead(s, w, x) == \A i, j \in 1..Len(s) : s[i] = w /\ s[j] = x => i < j

\* Frames that are not taken in their order are where they cannot be work.
Sorted(q) == \A f \in Q!FramesOf(q.start) \cup Q!FramesOf(q.system) : Q!isSystemFrame(f)

Behind(i) ==
    /\ \A p \in 0..N : /\ Ahead(Line(p), Fr("d"), Probe("probe", i))
                       /\ Ahead(Line(p), Fr("u"), Probe("bounce", i))
                       /\ Ahead(Line(p), Fr("r"), Probe("returning", i))
    /\ \A p \in 0..N : At(Probe("probe", i), p) =>
           \A q \in 0..N : q < p => ~At(Fr("d"), q)
    /\ \A p \in 0..N : At(Probe("bounce", i), p) =>
           Gone(Fr("d")) /\ \A q \in 0..N : q > p => ~At(Fr("u"), q)
    /\ \A p \in 0..N : At(Probe("returning", i), p) =>
           Gone(Fr("d")) /\ Gone(Fr("u")) /\ \A q \in 0..N : q < p => ~At(Fr("r"), q)
    /\ flush[i] = "nil" => \A w \in Work : Gone(w)

AllSorted == \A p \in Proc : Sorted(inbox[p])
PushKinds == \A f \in Q!FramesOf(pushQueue) : f.kind \in {"d", "end", "stop", "cancel", "probe"}
Uncalled(i) == flush[i] \in {"no", "startWait"}

FlushInv ==
    /\ AllSorted /\ PushKinds
    /\ "d" \in left => \A w \in Work : Gone(w)
    /\ \A i \in Flush : Uncalled(i) => ~owed[i] /\ \A k \in Legs : Gone(Probe(k, i))
    /\ \A i \in Flush : owed[i] => "d" \notin left /\ Behind(i)

\* t is what is left of s when some frames are taken out ...
Keeps(s, t) ==
    /\ Q!FramesOf(t) \subseteq Q!FramesOf(s)
    /\ \A w, x \in WorkerFrame : Ahead(s, w, x) => Ahead(t, w, x)

\* ... and f put in behind it.
After(s, t, f) ==
    /\ Q!FramesOf(t) \subseteq Q!FramesOf(s) \cup {f}
    /\ \A w, x \in WorkerFrame :
          w # x /\ Ahead(s, w, x) /\ (f = w => x \notin Q!FramesOf(s)) => Ahead(t, w, x)

\* The frames a flush is about are all different and none is a system frame.
LEMMA Names ==
  /\ \A f \in WorkerFrame : Q!isSystemFrame(f) <=> f.kind \in {"start", "interrupt", "cancel"}
  /\ \A f \in WorkerFrame : Q!isStartFrame(f) => Q!isSystemFrame(f)
  /\ Work \subseteq WorkerFrame /\ \A w \in Work : w.kind \in {"d", "u", "r"}
  /\ Fr("d") \in Work /\ Fr("u") \in Work /\ Fr("r") \in Work
  /\ \A i \in Flush, k \in Legs : /\ Probe(k, i) \in WorkerFrame
                                  /\ Probe(k, i).kind = k /\ Probe(k, i).flush = i
  /\ \A f \in WorkerFrame : f.kind \in Legs => f = Probe(f.kind, f.flush) /\ f.flush \in Flush
  /\ \A f \in WorkerFrame : f.kind \notin Legs => f = Fr(f.kind)
<1>1. ASSUME NEW f \in WorkerFrame
      PROVE  /\ Q!isSystemFrame(f) <=> f.kind \in {"start", "interrupt", "cancel"}
             /\ Q!isStartFrame(f) => Q!isSystemFrame(f)
  <2>1. QueueKind[f] = CASE f.kind = "start" -> "start"
                         [] f.kind = "interrupt" -> "interruption"
                         [] f.kind = "cancel" -> "cancel"
                         [] f.kind = "end" -> "end"
                         [] f.kind \in {"d", "u", "r", "heartbeat"} -> "data"
                         [] OTHER -> "kept"
    BY DEF QueueKind
  <2>2. /\ Q!isSystemFrame(f) <=> QueueKind[f] \in Q!SystemKinds
        /\ Q!isStartFrame(f) <=> QueueKind[f] = "start"
    BY DEF Q!isSystemFrame, Q!isStartFrame
  <2>3. Q!SystemKinds = {"start", "interruption", "cancel", "pauseUrgent",
                         "resume", "withdraw", "broadcastUrgent", "system"}
    BY DEF Q!SystemKinds
  <2> QED BY <2>1, <2>2, <2>3
<1>2. /\ Work \subseteq WorkerFrame /\ \A w \in Work : w.kind \in {"d", "u", "r"}
      /\ Fr("d") \in Work /\ Fr("u") \in Work /\ Fr("r") \in Work
  BY PlainFrames DEF Work
<1>3. \A i \in Flush, k \in Legs : /\ Probe(k, i) \in WorkerFrame
                                   /\ Probe(k, i).kind = k /\ Probe(k, i).flush = i
  BY FrameTypes DEF Probe
<1>4. ASSUME NEW f \in WorkerFrame
      PROVE  /\ f.kind \in Legs => f = Probe(f.kind, f.flush) /\ f.flush \in Flush
             /\ f.kind \notin Legs => f = Fr(f.kind)
  <2>1. CASE f \in {Fr(k) : k \in Plain}
    <3>1. PICK k \in Plain : f = Fr(k)
      BY <2>1
    <3>2. f.kind = k /\ k \notin Legs
      BY <3>1, PlainFrames DEF Plain, Legs
    <3> QED BY <3>1, <3>2
  <2>2. CASE f \in {Probe(k, i) : k \in Legs, i \in Flush}
    <3>1. PICK k \in Legs, i \in Flush : f = Probe(k, i)
      BY <2>2
    <3> QED BY <1>3, <3>1
  <2> QED BY <2>1, <2>2 DEF WorkerFrame
<1> QED BY <1>1, <1>2, <1>3, <1>4

\* Taking the first frame; what is ahead of it is not there.
LEMMA TailKeeps ==
  ASSUME NEW s \in Seq(WorkerFrame), s # <<>>
  PROVE  /\ Keeps(s, Tail(s)) /\ Head(s) \in Q!FramesOf(s)
         /\ \A w \in WorkerFrame : Ahead(s, w, Head(s)) => w \notin Q!FramesOf(s)
<1>1. /\ Head(s) = s[1] /\ Len(Tail(s)) = Len(s) - 1
      /\ \A i \in 1..Len(Tail(s)) : Tail(s)[i] = s[i+1]
  BY QP!HeadAndTail, QueueKinds
<1>2. Len(s) \in Nat /\ Len(s) >= 1 /\ 1 \in 1..Len(s)
  OBVIOUS
<1>3. Q!FramesOf(Tail(s)) \subseteq Q!FramesOf(s) /\ Head(s) \in Q!FramesOf(s)
  BY TailFrames
<1>4. ASSUME NEW w \in WorkerFrame, NEW x \in WorkerFrame, Ahead(s, w, x)
      PROVE  Ahead(Tail(s), w, x)
  <2> SUFFICES ASSUME NEW i \in 1..Len(Tail(s)), NEW j \in 1..Len(Tail(s)),
                      Tail(s)[i] = w, Tail(s)[j] = x
               PROVE  i < j
    BY DEF Ahead
  <2>1. i + 1 \in 1..Len(s) /\ j + 1 \in 1..Len(s) /\ s[i+1] = w /\ s[j+1] = x
    BY <1>1, <1>2
  <2>2. i + 1 < j + 1
    BY <1>4, <2>1 DEF Ahead
  <2> QED BY <2>2
<1>5. ASSUME NEW w \in WorkerFrame, Ahead(s, w, Head(s)) PROVE w \notin Q!FramesOf(s)
  <2> SUFFICES ASSUME NEW i \in 1..Len(s), s[i] = w PROVE FALSE
    BY DEF Q!FramesOf
  <2>1. i < 1
    BY <1>1, <1>2, <1>5 DEF Ahead
  <2> QED BY <2>1
<1> QED BY <1>3, <1>4, <1>5 DEF Keeps

\* Putting a frame at the end.
LEMMA AppendAfter ==
  ASSUME NEW s \in Seq(WorkerFrame), NEW f \in WorkerFrame
  PROVE  After(s, Append(s, f), f)
<1> DEFINE t == Append(s, f)
<1>1. /\ Len(t) = Len(s) + 1 /\ t[Len(s) + 1] = f /\ \A i \in 1..Len(s) : t[i] = s[i]
      /\ Len(s) \in Nat
  BY QP!AppendTo, QueueKinds
<1>2. Q!FramesOf(t) = Q!FramesOf(s) \cup {f}
  BY AppendFrame
<1> HIDE DEF t
<1>3. ASSUME NEW w \in WorkerFrame, NEW x \in WorkerFrame, w # x, Ahead(s, w, x),
             f = w => x \notin Q!FramesOf(s)
      PROVE  Ahead(t, w, x)
  <2> SUFFICES ASSUME NEW i \in 1..Len(t), NEW j \in 1..Len(t), t[i] = w, t[j] = x
               PROVE  i < j
    BY DEF Ahead
  <2>1. (i \in 1..Len(s) \/ i = Len(s) + 1) /\ (j \in 1..Len(s) \/ j = Len(s) + 1)
    BY <1>1
  <2>2. CASE i \in 1..Len(s) /\ j \in 1..Len(s)
    BY <1>1, <1>3, <2>2 DEF Ahead
  <2>3. CASE i \in 1..Len(s) /\ j = Len(s) + 1
    BY <1>1, <2>3
  <2>4. CASE i = Len(s) + 1
    <3>1. f = w
      BY <1>1, <2>4
    <3>2. j \in 1..Len(s)
      BY <1>1, <1>3, <2>1, <3>1
    <3>3. x \in Q!FramesOf(s)
      BY <1>1, <3>2 DEF Q!FramesOf
    <3> QED BY <1>3, <3>1, <3>3
  <2> QED BY <2>1, <2>2, <2>3, <2>4
<1> QED BY <1>2, <1>3 DEF After, t

\* Keeping everything, and nothing.
LEMMA KeepsSame ==
  /\ \A s : Keeps(s, s) /\ Keeps(s, <<>>)
  /\ \A s, t, u : Keeps(s, t) /\ Keeps(t, u) => Keeps(s, u)
  /\ \A s, t, f : Keeps(s, t) => After(s, t, f)
<1>1. \A s : Q!FramesOf(<<>>) \subseteq Q!FramesOf(s) /\ \A w, x : Ahead(<<>>, w, x)
  BY DEF Q!FramesOf, Ahead
<1>2. \A s : Keeps(s, s) /\ Keeps(s, <<>>)
  BY <1>1 DEF Keeps
<1>3. \A s, t, u : Keeps(s, t) /\ Keeps(t, u) => Keeps(s, u)
  BY DEF Keeps
<1>4. \A s, t, f : Keeps(s, t) => After(s, t, f)
  BY DEF Keeps, After
<1> QED BY <1>2, <1>3, <1>4

\* Dropping what may be dropped of the first n frames keeps the order.
LEMMA CutKeeps ==
  ASSUME NEW s \in Seq(WorkerFrame), NEW n \in 0..Len(s)
  PROVE  Keeps(s, Q!keep(SubSeq(s, 1, n)) \o SubSeq(s, n + 1, Len(s)))
<1> DEFINE a == SubSeq(s, 1, n)
           b == SubSeq(s, n + 1, Len(s))
           k == Q!keep(a)
           c == k \o b
<1>1. Len(s) \in Nat /\ n \in Nat /\ n <= Len(s)
  OBVIOUS
<1>2. /\ a \in Seq(WorkerFrame) /\ Len(a) = n /\ \A i \in 1..n : a[i] = s[i]
      /\ b \in Seq(WorkerFrame) /\ Len(b) = Len(s) - n /\ \A i \in 1..Len(b) : b[i] = s[n + i]
  BY <1>1
<1>3. Q!FramesOf(c) \subseteq Q!FramesOf(s)
  BY CutFrames
<1>4. k \in Seq(WorkerFrame) /\ k = QP!keep(a)
  BY <1>2, SameQueue, QP!KeepProperties, QueueKinds
<1>10. \E from \in [1..Len(k) -> 1..n] :
        /\ \A i \in 1..Len(k) : k[i] = s[from[i]]
        /\ \A i, j \in 1..Len(k) : i < j => from[i] < from[j]
  <2>1. \E from \in [1..Len(QP!keep(a)) -> 1..Len(a)] :
             /\ \A i \in 1..Len(QP!keep(a)) : QP!keep(a)[i] = a[from[i]]
             /\ \A i, j \in 1..Len(QP!keep(a)) : i < j => from[i] < from[j]
    BY <1>2, QP!KeepOrder, QueueKinds
  <2> HIDE DEF k, a
  <2>2. PICK from \in [1..Len(k) -> 1..n] :
             /\ \A i \in 1..Len(k) : k[i] = a[from[i]]
             /\ \A i, j \in 1..Len(k) : i < j => from[i] < from[j]
    BY <1>2, <1>4, <2>1
  <2>3. \A i \in 1..Len(k) : k[i] = s[from[i]]
    BY <1>2, <2>2
  <2> QED BY <2>2, <2>3
<1> HIDE DEF a, b, k
<1>5. /\ Len(c) = Len(k) + Len(b) /\ Len(k) \in Nat /\ Len(b) \in Nat
      /\ \A i \in 1..Len(k) + Len(b) : c[i] = IF i <= Len(k) THEN k[i] ELSE b[i - Len(k)]
  <2>1. k \in Seq(WorkerFrame) /\ b \in Seq(WorkerFrame)
    BY <1>2, <1>4
  <2>2. /\ Len(k \o b) = Len(k) + Len(b)
        /\ \A i \in 1..Len(k) + Len(b) :
              (k \o b)[i] = IF i <= Len(k) THEN k[i] ELSE b[i - Len(k)]
    BY <2>1, ConcatProperties
  <2>3. Len(k) \in Nat /\ Len(b) \in Nat
    BY <2>1
  <2> QED BY <2>2, <2>3
<1> HIDE DEF c
<1>6. PICK from \in [1..Len(k) -> 1..n] :
        /\ \A i \in 1..Len(k) : k[i] = s[from[i]]
        /\ \A i, j \in 1..Len(k) : i < j => from[i] < from[j]
  BY <1>10
<1> DEFINE at(i) == IF i <= Len(k) THEN from[i] ELSE n + (i - Len(k))
<1>7. ASSUME NEW i \in 1..Len(c) PROVE at(i) \in 1..Len(s) /\ c[i] = s[at(i)]
  <2>1. CASE i <= Len(k)
    <3>1. i \in 1..Len(k) /\ from[i] \in 1..n
      BY <1>5, <1>6, <2>1
    <3> QED BY <1>1, <1>5, <1>6, <2>1, <3>1
  <2>2. CASE ~(i <= Len(k))
    <3>1. i - Len(k) \in 1..Len(b) /\ c[i] = b[i - Len(k)]
      BY <1>5, <2>2
    <3> QED BY <1>1, <1>2, <2>2, <3>1
  <2> QED BY <2>1, <2>2
<1>8. ASSUME NEW i \in 1..Len(c), NEW j \in 1..Len(c), at(i) < at(j) PROVE i < j
  <2>1. i \in Nat /\ j \in Nat
    BY <1>5
  <2>2. CASE i <= Len(k) /\ j <= Len(k)
    <3>0. at(i) = from[i] /\ at(j) = from[j]
      BY <2>2
    <3>4. i \in 1..Len(k) /\ j \in 1..Len(k)
      BY <1>5, <2>2
    <3>1. i \in 1..Len(k) /\ j \in 1..Len(k) /\ from[i] \in 1..n /\ from[j] \in 1..n /\ from[i] < from[j]
      BY <1>6, <1>8, <3>0, <3>4
    <3>2. from[j] < from[i] \/ i = j => FALSE
      BY <1>1, <3>1
    <3>3. j < i => from[j] < from[i]
      BY <1>6, <3>1
    <3> QED BY <2>1, <3>2, <3>3
  <2>3. CASE i <= Len(k) /\ ~(j <= Len(k))
    BY <1>5, <2>1, <2>3
  <2>4. CASE ~(i <= Len(k)) /\ j <= Len(k)
    <3>1. from[j] \in 1..n
      BY <1>5, <1>6, <2>4
    <3> QED BY <1>1, <1>5, <1>8, <2>1, <2>4, <3>1
  <2>5. CASE ~(i <= Len(k)) /\ ~(j <= Len(k))
    BY <1>1, <1>5, <1>8, <2>1, <2>5
  <2> QED BY <2>2, <2>3, <2>4, <2>5
<1> HIDE DEF at
<1>9. ASSUME NEW w \in WorkerFrame, NEW x \in WorkerFrame, Ahead(s, w, x)
      PROVE  Ahead(c, w, x)
  BY <1>7, <1>8, <1>9 DEF Ahead
<1> QED BY <1>3, <1>9 DEF Keeps, a, b, k, c

\* push puts a system frame aside and any other at the end.
LEMMA PushLine ==
  ASSUME NEW q \in Q!Queue, Sorted(q), NEW f \in WorkerFrame
  PROVE  /\ Sorted(Q!push(q, f)) /\ After(q.other, Q!push(q, f).other, f)
         /\ Q!isSystemFrame(f) => Q!push(q, f).other = q.other
<1>1. /\ q.start \in Seq(WorkerFrame) /\ q.system \in Seq(WorkerFrame)
      /\ q.other \in Seq(WorkerFrame)
      /\ q = [start |-> q.start, system |-> q.system, other |-> q.other]
  BY DEF Q!Queue
<1>2. CASE Q!isStartFrame(f)
  <2>1. /\ Q!push(q, f).start = Append(q.start, f) /\ Q!push(q, f).system = q.system
        /\ Q!push(q, f).other = q.other
    BY <1>1, <1>2 DEF Q!push
  <2>2. Q!isSystemFrame(f)
    BY <1>2, Names
  <2> QED BY <1>1, <2>1, <2>2, AppendFrame, KeepsSame DEF Sorted
<1>3. CASE ~Q!isStartFrame(f) /\ Q!isSystemFrame(f)
  <2>1. /\ Q!push(q, f).system = Append(q.system, f) /\ Q!push(q, f).start = q.start
        /\ Q!push(q, f).other = q.other
    BY <1>1, <1>3 DEF Q!push
  <2> QED BY <1>1, <1>3, <2>1, AppendFrame, KeepsSame DEF Sorted
<1>4. CASE ~Q!isStartFrame(f) /\ ~Q!isSystemFrame(f)
  <2>1. /\ Q!push(q, f).system = q.system /\ Q!push(q, f).start = q.start
        /\ Q!push(q, f).other = Append(q.other, f)
    BY <1>1, <1>4 DEF Q!push
  <2> QED BY <1>1, <1>4, <2>1, AppendAfter DEF Sorted
<1> QED BY <1>2, <1>3, <1>4

\* get takes a system frame, or the first of the others.
LEMMA GetLine ==
  ASSUME NEW q \in Q!Queue, Sorted(q), ~Q!isEmpty(q)
  PROVE  /\ Sorted(Q!get(q)) /\ Keeps(q.other, Q!get(q).other)
         /\ Q!isSystemFrame(Q!head(q)) \/ (q.other # <<>> /\ Q!head(q) = Head(q.other))
<1>1. /\ q.start \in Seq(WorkerFrame) /\ q.system \in Seq(WorkerFrame)
      /\ q.other \in Seq(WorkerFrame)
      /\ q = [start |-> q.start, system |-> q.system, other |-> q.other]
  BY DEF Q!Queue
<1>2. CASE Q!startsNext(q)
  <2>1. /\ Q!get(q).start = Tail(q.start) /\ Q!get(q).system = q.system /\ Q!get(q).other = q.other
        /\ q.start # <<>> /\ Q!head(q) = Head(q.start)
    BY <1>1, <1>2 DEF Q!get, Q!head, Q!startsNext
  <2> QED BY <1>1, <2>1, TailFrames, KeepsSame DEF Sorted
<1>3. CASE ~Q!startsNext(q) /\ Q!systemNext(q)
  <2>1. /\ Q!get(q).system = Tail(q.system) /\ Q!get(q).start = q.start /\ Q!get(q).other = q.other
        /\ q.system # <<>> /\ Q!head(q) = Head(q.system)
    BY <1>1, <1>3 DEF Q!get, Q!head, Q!systemNext
  <2> QED BY <1>1, <2>1, TailFrames, KeepsSame DEF Sorted
<1>4. CASE ~Q!startsNext(q) /\ ~Q!systemNext(q)
  <2>1. /\ Q!get(q).system = q.system /\ Q!get(q).start = q.start /\ Q!get(q).other = Tail(q.other)
        /\ q.other # <<>> /\ Q!head(q) = Head(q.other)
    BY <1>1, <1>4 DEF Q!get, Q!head, Q!systemNext, Q!startsNext, Q!isEmpty
  <2> QED BY <1>1, <2>1, TailKeeps DEF Sorted
<1> QED BY <1>2, <1>3, <1>4

\* What a processor makes of its own queue.
LEMMA OwnLine ==
  ASSUME NEW p \in Proc, inbox \in Inboxes, ~Q!isEmpty(inbox[p]), Sorted(inbox[p]),
         NEW f \in WorkerFrame, NEW q \in OwnQueues(p, f)
  PROVE  Sorted(q) /\ Keeps(inbox[p].other, q.other)
<1> DEFINE rest == Q!get(inbox[p])
           cut(n) == [rest EXCEPT !.other = Q!keep(SubSeq(@, 1, n))
                                             \o SubSeq(@, n + 1, Len(@))]
<1>1. rest \in Q!Queue /\ Sorted(rest) /\ Keeps(inbox[p].other, rest.other)
  BY GetFrame, GetLine DEF Inboxes
<1>2. CASE f.kind = "interrupt"
  <2>1. PICK n \in 0..Len(rest.other) : q = cut(n)
    BY <1>2 DEF OwnQueues
  <2>2. rest.other \in Seq(WorkerFrame)
        /\ rest = [start |-> rest.start, system |-> rest.system, other |-> rest.other]
    BY <1>1 DEF Q!Queue
  <2> DEFINE c == Q!keep(SubSeq(rest.other, 1, n)) \o SubSeq(rest.other, n + 1, Len(rest.other))
  <2>3. Keeps(rest.other, c)
    BY <2>1, <2>2, CutKeeps
  <2>4. q = [rest EXCEPT !.other = c]
    BY <2>1
  <2> HIDE DEF c, rest
  <2>5. q.start = rest.start /\ q.system = rest.system /\ q.other = c
    BY <2>2, <2>4
  <2> QED BY <1>1, <2>3, <2>5, KeepsSame DEF Sorted
<1>3. CASE f.kind = "cancel"
  <2>1. q = Q!newQueue
    BY <1>3 DEF OwnQueues
  <2>2. q.start = <<>> /\ q.system = <<>> /\ q.other = <<>>
    BY <2>1 DEF Q!newQueue
  <2> QED BY <2>2, KeepsSame DEF Sorted, Q!FramesOf
<1>4. CASE f.kind # "interrupt" /\ f.kind # "cancel"
  BY <1>1, <1>4 DEF OwnQueues
<1> QED BY <1>2, <1>3, <1>4

\* Putting a frame in a processor's queue.
LEMMA PutLine ==
  ASSUME NEW q \in Inboxes, \A p \in Proc : Sorted(q[p]), NEW x, NEW f \in WorkerFrame
  PROVE  /\ \A p \in Proc : Sorted(Put(q, x, f)[p])
         /\ \A p \in Proc : p # x => Put(q, x, f)[p] = q[p]
         /\ x \in Proc => After(q[x].other, Put(q, x, f)[x].other, f)
         /\ Q!isSystemFrame(f) => \A p \in Proc : Put(q, x, f)[p].other = q[p].other
<1>1. CASE x \in Proc /\ x \notin canceled
  <2>1. Put(q, x, f) = [q EXCEPT ![x] = Q!push(q[x], f)]
    BY <1>1 DEF Put
  <2>2. q[x] \in Q!Queue
    BY <1>1 DEF Inboxes
  <2>3. /\ Put(q, x, f)[x] = Q!push(q[x], f) /\ \A p \in Proc : p # x => Put(q, x, f)[p] = q[p]
    BY <1>1, <2>1 DEF Inboxes
  <2>4. /\ Sorted(Q!push(q[x], f)) /\ After(q[x].other, Q!push(q[x], f).other, f)
        /\ Q!isSystemFrame(f) => Q!push(q[x], f).other = q[x].other
    BY <1>1, <2>2, PushLine
  <2> QED BY <2>3, <2>4
<1>2. CASE ~(x \in Proc /\ x \notin canceled)
  <2>1. Put(q, x, f) = q
    BY <1>2 DEF Put
  <2> QED BY <2>1, KeepsSame
<1> QED BY <1>1, <1>2

\* Where a frame may be put without getting in front of a probe, or a probe
\* without getting in front of work.
Fits(i, f, p) ==
    /\ f = Fr("d") => /\ \A q \in 0..N : q >= p => ~At(Probe("probe", i), q)
                      /\ Gone(Probe("bounce", i)) /\ Gone(Probe("returning", i))
    /\ f = Fr("u") => /\ \A q \in 0..N : q <= p => ~At(Probe("bounce", i), q)
                      /\ Gone(Probe("returning", i))
    /\ f = Fr("r") => \A q \in 0..N : q >= p => ~At(Probe("returning", i), q)
    /\ f \in Work => flush'[i] # "nil"
    /\ f = Probe("probe", i) => \A q \in 0..N : q < p => ~At(Fr("d"), q)
    /\ f = Probe("bounce", i) => Gone(Fr("d")) /\ \A q \in 0..N : q > p => ~At(Fr("u"), q)
    /\ f = Probe("returning", i) =>
          Gone(Fr("d")) /\ Gone(Fr("u")) /\ \A q \in 0..N : q < p => ~At(Fr("r"), q)

\* The lines only lose frames, except that f may be put at the end of line x.
Moves(f, x) == \A p \in 0..N : \/ Keeps(Line(p), Line(p)')
                               \/ p = x /\ After(Line(p), Line(p)', f)

LEMMA MovesAt ==
  ASSUME NEW f, NEW x, Moves(f, x), NEW w, NEW p \in 0..N, At(w, p)'
  PROVE  At(w, p) \/ (p = x /\ w = f)
  BY DEF Moves, Keeps, After, At

LEMMA MovesAhead ==
  ASSUME NEW f, NEW x, Moves(f, x), NEW w \in WorkerFrame, NEW y \in WorkerFrame, w # y,
         NEW p \in 0..N, Ahead(Line(p), w, y), p = x /\ f = w => ~At(y, p)
  PROVE  Ahead(Line(p), w, y)'
<1>1. CASE Keeps(Line(p), Line(p)')
  BY <1>1 DEF Keeps, Ahead
<1>2. CASE p = x /\ After(Line(p), Line(p)', f)
  BY <1>2 DEF After, At, Ahead
<1> QED BY <1>1, <1>2 DEF Moves

\* The probe stays behind the work.
LEMMA StaysBehind ==
  ASSUME NEW i \in Flush, Behind(i), NEW f \in WorkerFrame, NEW x \in 0..N,
         Moves(f, x), Fits(i, f, x),
         flush'[i] = "nil" => \A w \in Work : Gone(w)
  PROVE  Behind(i)'
<1> DEFINE d == Fr("d")
           u == Fr("u")
           r == Fr("r")
           P == Probe("probe", i)
           B == Probe("bounce", i)
           R == Probe("returning", i)
<1>1. /\ d \in WorkerFrame /\ u \in WorkerFrame /\ r \in WorkerFrame
      /\ P \in WorkerFrame /\ B \in WorkerFrame /\ R \in WorkerFrame
      /\ d.kind = "d" /\ u.kind = "u" /\ r.kind = "r"
      /\ P.kind = "probe" /\ B.kind = "bounce" /\ R.kind = "returning"
      /\ Work = {d, u, r}
  BY PlainFrames, Names DEF Legs, Work
<1>2. /\ \A p \in 0..N : Ahead(Line(p), d, P) /\ Ahead(Line(p), u, B) /\ Ahead(Line(p), r, R)
      /\ \A p \in 0..N : At(P, p) => \A q \in 0..N : q < p => ~At(d, q)
      /\ \A p \in 0..N : At(B, p) => Gone(d) /\ \A q \in 0..N : q > p => ~At(u, q)
      /\ \A p \in 0..N : At(R, p) => Gone(d) /\ Gone(u) /\ \A q \in 0..N : q < p => ~At(r, q)
  BY DEF Behind
<1>3. /\ f = d => (\A q \in 0..N : q >= x => ~At(P, q)) /\ Gone(B) /\ Gone(R)
      /\ f = u => (\A q \in 0..N : q <= x => ~At(B, q)) /\ Gone(R)
      /\ f = r => \A q \in 0..N : q >= x => ~At(R, q)
      /\ f \in Work => flush'[i] # "nil"
      /\ f = P => \A q \in 0..N : q < x => ~At(d, q)
      /\ f = B => Gone(d) /\ \A q \in 0..N : q > x => ~At(u, q)
      /\ f = R => Gone(d) /\ Gone(u) /\ \A q \in 0..N : q < x => ~At(r, q)
  BY DEF Fits
<1>4. x \in Int /\ \A p \in 0..N : p \in Int
  OBVIOUS
<1>5. \A w, p : p \in 0..N /\ At(w, p)' => At(w, p) \/ (p = x /\ w = f)
  BY MovesAt
<1> HIDE DEF d, u, r, P, B, R
<1>6. \A p \in 0..N : Ahead(Line(p), d, P)' /\ Ahead(Line(p), u, B)' /\ Ahead(Line(p), r, R)'
  <2> SUFFICES ASSUME NEW p \in 0..N
               PROVE  Ahead(Line(p), d, P)' /\ Ahead(Line(p), u, B)' /\ Ahead(Line(p), r, R)'
    OBVIOUS
  <2>1. d # P /\ u # B /\ r # R
    BY <1>1
  <2>2. /\ p = x /\ f = d => ~At(P, p)
        /\ p = x /\ f = u => ~At(B, p)
        /\ p = x /\ f = r => ~At(R, p)
    BY <1>3, <1>4
  <2>3. Ahead(Line(p), d, P)'
    BY <1>1, <1>2, <2>1, <2>2, MovesAhead
  <2>4. Ahead(Line(p), u, B)'
    BY <1>1, <1>2, <2>1, <2>2, MovesAhead
  <2>5. Ahead(Line(p), r, R)'
    BY <1>1, <1>2, <2>1, <2>2, MovesAhead
  <2> QED BY <2>3, <2>4, <2>5
<1>7. ASSUME NEW w, w \in {d, u, r}, Gone(w), f # w PROVE Gone(w)'
  BY <1>5, <1>7 DEF Gone
<1>8. ASSUME NEW p \in 0..N, At(P, p)', NEW q \in 0..N, q < p PROVE ~At(d, q)'
  <2>1. CASE At(P, p)
    BY <1>2, <1>3, <1>4, <1>5, <1>8, <2>1
  <2>2. CASE p = x /\ P = f
    BY <1>1, <1>3, <1>4, <1>5, <1>8, <2>2
  <2> QED BY <1>5, <1>8, <2>1, <2>2
<1>9. ASSUME NEW p \in 0..N, At(B, p)' PROVE Gone(d)' /\ \A q \in 0..N : q > p => ~At(u, q)'
  <2>1. CASE At(B, p)
    <3>1. f # d /\ Gone(d) /\ (f = u => p > x)
      BY <1>2, <1>3, <1>4, <2>1 DEF Gone
    <3>2. \A q \in 0..N : q > p => ~At(u, q)'
      BY <1>2, <1>4, <1>5, <2>1, <3>1
    <3> QED BY <1>7, <3>1, <3>2
  <2>2. CASE p = x /\ B = f
    <3>1. f # d /\ f # u /\ Gone(d) /\ \A q \in 0..N : q > p => ~At(u, q)
      BY <1>1, <1>3, <2>2
    <3> QED BY <1>5, <1>7, <3>1
  <2> QED BY <1>5, <1>9, <2>1, <2>2
<1>10. ASSUME NEW p \in 0..N, At(R, p)'
       PROVE  Gone(d)' /\ Gone(u)' /\ \A q \in 0..N : q < p => ~At(r, q)'
  <2>1. CASE At(R, p)
    <3>1. f # d /\ f # u /\ Gone(d) /\ Gone(u) /\ (f = r => p < x)
      BY <1>2, <1>3, <1>4, <2>1 DEF Gone
    <3>2. \A q \in 0..N : q < p => ~At(r, q)'
      BY <1>2, <1>4, <1>5, <2>1, <3>1
    <3> QED BY <1>7, <3>1, <3>2
  <2>2. CASE p = x /\ R = f
    <3>1. /\ f # d /\ f # u /\ f # r /\ Gone(d) /\ Gone(u) /\ \A q \in 0..N : q < p => ~At(r, q)
      BY <1>1, <1>3, <2>2
    <3> QED BY <1>5, <1>7, <3>1
  <2> QED BY <1>5, <1>10, <2>1, <2>2
<1>11. ASSUME flush'[i] = "nil" PROVE \A w \in Work : Gone(w)'
  <2>1. f \notin Work /\ \A w \in Work : Gone(w)
    BY <1>3, <1>11
  <2> QED BY <1>1, <1>7, <2>1
<1> QED BY <1>6, <1>8, <1>9, <1>10, <1>11 DEF Behind, d, u, r, P, B, R

\* A step that moves or adds one frame keeps the invariant, if the frame is in
\* its place.
LEMMA FlushMoved ==
  ASSUME FlushInv, NEW f \in WorkerFrame, NEW x \in 0..N, Moves(f, x),
         AllSorted', PushKinds', left' \subseteq left, owed' = owed,
         f \in Work => "d" \notin left',
         \A i \in Flush : Uncalled(i)' => Uncalled(i) /\ ~(f.kind \in Legs /\ f.flush = i),
         \A i \in Flush : owed[i] => /\ Fits(i, f, x)
                                     /\ flush'[i] = "nil" => \A w \in Work : Gone(w)
  PROVE  FlushInv'
<1>1. \A w, p : p \in 0..N /\ At(w, p)' => At(w, p) \/ (p = x /\ w = f)
  BY MovesAt
<1>2. ASSUME "d" \in left' PROVE \A w \in Work : Gone(w)'
  <2>1. f \notin Work /\ \A w \in Work : Gone(w)
    BY <1>2 DEF FlushInv
  <2> QED BY <1>1, <2>1 DEF Gone
<1>3. ASSUME NEW i \in Flush, Uncalled(i)' PROVE ~owed'[i] /\ \A k \in Legs : Gone(Probe(k, i))'
  <2>1. Uncalled(i) /\ ~(f.kind \in Legs /\ f.flush = i)
    BY <1>3
  <2>2. ~owed[i] /\ \A k \in Legs : Gone(Probe(k, i)) /\ f # Probe(k, i)
    BY <2>1, Names DEF FlushInv
  <2> QED BY <1>1, <2>2 DEF Gone
<1>4. ASSUME NEW i \in Flush, owed'[i] PROVE "d" \notin left' /\ Behind(i)'
  <2>1. owed[i] /\ "d" \notin left /\ Behind(i)
    BY <1>4 DEF FlushInv
  <2> QED BY <2>1, StaysBehind
<1> QED BY <1>2, <1>3, <1>4 DEF FlushInv

\* What is known of the first frame of a line: what is ahead of it is not there.
LEMMA FirstOfLine ==
  ASSUME TypeOK, NEW p \in 0..N, Line(p) # <<>>
  PROVE  /\ Line(p) \in Seq(WorkerFrame) /\ Head(Line(p)) \in WorkerFrame /\ At(Head(Line(p)), p)
         /\ Keeps(Line(p), Tail(Line(p)))
         /\ \A w \in WorkerFrame : Ahead(Line(p), w, Head(Line(p))) => ~At(w, p)
<1>1. Line(p) \in Seq(WorkerFrame)
  <2>1. CASE p = 0
    BY <2>1 DEF Line, TypeOK
  <2>2. CASE p # 0
    <3>1. p \in Proc
      BY <2>2, ProcFacts DEF Proc
    <3> QED BY <2>2, <3>1 DEF Line, TypeOK, Q!Queue
  <2> QED BY <2>1, <2>2
<1> QED BY <1>1, TailKeeps, TailFrames DEF At

\* The first frame of a line fits at the end of the next one down ...
LEMMA FitsDown ==
  ASSUME TypeOK, NEW i \in Flush, Behind(i), NEW p \in 0..N, Line(p) # <<>>,
         NEW f, f = Head(Line(p)), ~goesUp(f), flush'[i] = "nil" => flush[i] = "nil"
  PROVE  Fits(i, f, p + 1)
<1>1. /\ f \in WorkerFrame /\ At(f, p)
      /\ \A w \in WorkerFrame : Ahead(Line(p), w, f) => ~At(w, p)
  BY FirstOfLine
<1>2. /\ Fr("d") \in WorkerFrame /\ Fr("r") \in WorkerFrame /\ Fr("u") \in WorkerFrame
      /\ goesUp(Fr("u")) /\ goesUp(Probe("bounce", i))
  BY PlainFrames DEF goesUp, Probe
<1>3. p \in Int /\ N \in Nat /\ \A q \in 0..N : q \in Int /\ (q < p + 1 => q < p \/ q = p)
                                               /\ (q >= p + 1 => p < q)
  BY ProcFacts
<1>4. f = Fr("d") => /\ \A q \in 0..N : q >= p + 1 => ~At(Probe("probe", i), q)
                     /\ Gone(Probe("bounce", i)) /\ Gone(Probe("returning", i))
  BY <1>1, <1>3 DEF Behind, Gone
<1>5. f = Fr("r") => \A q \in 0..N : q >= p + 1 => ~At(Probe("returning", i), q)
  BY <1>1, <1>3 DEF Behind
<1>6. f \in Work => flush'[i] # "nil"
  BY <1>1 DEF Behind, Gone
<1>7. f = Probe("probe", i) => \A q \in 0..N : q < p + 1 => ~At(Fr("d"), q)
  BY <1>1, <1>2, <1>3 DEF Behind
<1>8. f = Probe("returning", i) =>
          Gone(Fr("d")) /\ Gone(Fr("u")) /\ \A q \in 0..N : q < p + 1 => ~At(Fr("r"), q)
  BY <1>1, <1>2, <1>3 DEF Behind
<1> QED BY <1>2, <1>4, <1>5, <1>6, <1>7, <1>8 DEF Fits

\* ... or, going up, of the next one up.
LEMMA FitsUp ==
  ASSUME TypeOK, NEW i \in Flush, Behind(i), NEW p \in 0..N, Line(p) # <<>>,
         NEW f, f = Head(Line(p)), goesUp(f), flush'[i] = "nil" => flush[i] = "nil"
  PROVE  Fits(i, f, p - 1)
<1>1. /\ f \in WorkerFrame /\ At(f, p)
      /\ \A w \in WorkerFrame : Ahead(Line(p), w, f) => ~At(w, p)
  BY FirstOfLine
<1>2. /\ Fr("u") \in WorkerFrame /\ ~goesUp(Fr("d")) /\ ~goesUp(Fr("r"))
      /\ ~goesUp(Probe("probe", i)) /\ ~goesUp(Probe("returning", i))
  BY PlainFrames DEF goesUp, Probe
<1>3. p \in Int /\ N \in Nat /\ \A q \in 0..N : q \in Int /\ (q > p - 1 => q > p \/ q = p)
                                               /\ (q <= p - 1 => p > q)
  BY ProcFacts
<1>4. f = Fr("u") => /\ \A q \in 0..N : q <= p - 1 => ~At(Probe("bounce", i), q)
                     /\ Gone(Probe("returning", i))
  BY <1>1, <1>3 DEF Behind, Gone
<1>5. f \in Work => flush'[i] # "nil"
  BY <1>1 DEF Behind, Gone
<1>6. f = Probe("bounce", i) => Gone(Fr("d")) /\ \A q \in 0..N : q > p - 1 => ~At(Fr("u"), q)
  BY <1>1, <1>2, <1>3 DEF Behind
<1> QED BY <1>2, <1>4, <1>5, <1>6 DEF Fits

\* A frame that is neither work nor a probe fits anywhere.
LEMMA FitsOther ==
  ASSUME NEW i \in Flush, NEW f, f.kind \notin Legs, f \notin Work, NEW p
  PROVE  Fits(i, f, p)
  BY Names DEF Fits, Legs

\* What the pipeline holds was queued, and what a probe is of was called.
LEMMA Origin ==
  ASSUME TypeOK, FlushInv, NEW p \in 0..N, NEW f \in WorkerFrame, At(f, p)
  PROVE  /\ f \in Work => "d" \notin left
         /\ f.kind \in Legs => f.flush \in Flush /\ ~Uncalled(f.flush)
<1>1. f \in Work => "d" \notin left
  BY DEF FlushInv, Gone
<1>2. f.kind \in Legs => f.flush \in Flush /\ f = Probe(f.kind, f.flush)
  BY Names
<1>3. f.kind \in Legs => ~Uncalled(f.flush)
  BY <1>2 DEF FlushInv, Gone
<1> QED BY <1>1, <1>2, <1>3

LEMMA LineAt ==
  ASSUME NEW p \in 0..N
  PROVE  \/ p = 0 /\ Line(p) = pushQueue /\ Line(p)' = pushQueue'
         \/ p # 0 /\ p \in Proc /\ Line(p) = inbox[p].other /\ Line(p)' = inbox'[p].other
  BY ProcFacts DEF Line, Proc

LEMMA MovesBy ==
  ASSUME NEW f, NEW x,
         Keeps(pushQueue, pushQueue') \/ (x = 0 /\ After(pushQueue, pushQueue', f)),
         \A p \in Proc : \/ Keeps(inbox[p].other, inbox'[p].other)
                         \/ p = x /\ After(inbox[p].other, inbox'[p].other, f)
  PROVE  Moves(f, x)
<1> SUFFICES ASSUME NEW p \in 0..N
             PROVE  Keeps(Line(p), Line(p)') \/ (p = x /\ After(Line(p), Line(p)', f))
  BY DEF Moves
<1>1. CASE p = 0 /\ Line(p) = pushQueue /\ Line(p)' = pushQueue'
  BY <1>1
<1>2. CASE p # 0 /\ p \in Proc /\ Line(p) = inbox[p].other /\ Line(p)' = inbox'[p].other
  BY <1>2
<1> QED BY <1>1, <1>2, LineAt

LEMMA KeepsAfter ==
  ASSUME NEW s, NEW t, NEW u, NEW f, Keeps(s, t), After(t, u, f)
  PROVE  After(s, u, f)
  BY DEF Keeps, After

\* The calls of Flush are where they were, or further.
FlushOn ==
    /\ left' \subseteq left /\ owed' = owed
    /\ \A i \in Flush : (Uncalled(i)' => Uncalled(i)) /\ (flush'[i] = "nil" => flush[i] = "nil")

\* A frame that is neither work nor a probe is put somewhere, or none is.
LEMMA OtherMoved ==
  ASSUME FlushInv, NEW f \in WorkerFrame, f.kind \notin Legs, f \notin Work, NEW x \in 0..N,
         Moves(f, x), AllSorted', PushKinds', FlushOn
  PROVE  FlushInv'
<1>1. \A i \in Flush : Uncalled(i)' => Uncalled(i) /\ ~(f.kind \in Legs /\ f.flush = i)
  BY DEF FlushOn
<1>2. \A i \in Flush : owed[i] => /\ Fits(i, f, x)
                                  /\ flush'[i] = "nil" => \A w \in Work : Gone(w)
  BY FitsOther DEF FlushOn, FlushInv, Behind
<1> QED BY <1>1, <1>2, FlushMoved DEF FlushOn

LEMMA EnterFlush ==
  ASSUME TypeOK, FlushInv, NEW f \in WorkerFrame, f.kind \notin Legs, f \notin Work,
         inbox' = inbox \/ inbox' = Enter(inbox, f), pushQueue' = pushQueue, FlushOn
  PROVE  FlushInv'
<1>1. inbox \in Inboxes /\ \A p \in Proc : Sorted(inbox[p])
  BY DEF TypeOK, Inboxes, FlushInv, AllSorted
<1>2. inbox' = inbox \/ inbox' = Put(inbox, 1, f)
  BY DEF Enter
<1>3. \A p \in Proc : /\ Sorted(inbox'[p]) /\ (p # 1 => inbox'[p] = inbox[p])
                      /\ p = 1 => After(inbox[p].other, inbox'[p].other, f)
  <2>1. CASE inbox' = inbox
    BY <1>1, <2>1, KeepsSame
  <2>2. CASE inbox' = Put(inbox, 1, f)
    BY <1>1, <2>2, PutLine
  <2> QED BY <1>2, <2>1, <2>2
<1>4. Moves(f, 1)
  BY <1>3, MovesBy, KeepsSame
<1>5. AllSorted' /\ PushKinds' /\ 1 \in 0..N
  BY <1>3, ProcFacts DEF AllSorted, PushKinds, FlushInv
<1> QED BY <1>4, <1>5, OtherMoved

LEMMA QueueFlush ==
  ASSUME TypeOK, FlushInv, NEW f \in WorkerFrame, f.kind \in {"end", "stop", "cancel", "d"},
         f.kind = "d" => "d" \in left /\ "d" \notin left',
         inbox' = inbox, pushQueue' = Append(pushQueue, f), FlushOn
  PROVE  FlushInv'
<1>1. /\ After(pushQueue, pushQueue', f)
      /\ Q!FramesOf(pushQueue') = Q!FramesOf(pushQueue) \cup {f}
  BY AppendAfter, AppendFrame DEF TypeOK
<1>2. Moves(f, 0)
  BY <1>1, MovesBy, KeepsSame
<1>3. AllSorted' /\ PushKinds' /\ 0 \in 0..N
  BY <1>1, ProcFacts DEF AllSorted, PushKinds, FlushInv
<1>4. CASE f.kind # "d"
  <2>1. f.kind \notin Legs /\ f \notin Work
    BY <1>4, Names DEF Legs
  <2> QED BY <1>2, <1>3, <2>1, OtherMoved
<1>5. CASE f.kind = "d"
  <2>1. \A i \in Flush : ~owed[i]
    BY <1>5 DEF FlushInv
  <2>2. \A i \in Flush : Uncalled(i)' => Uncalled(i) /\ ~(f.kind \in Legs /\ f.flush = i)
    BY <1>5 DEF FlushOn, Legs
  <2> QED BY <1>2, <1>3, <1>5, <2>1, <2>2, FlushMoved DEF FlushOn
<1> QED BY <1>4, <1>5

\* The run loop takes a frame of the worker's queue and puts it into the pipeline.
LEMMA LoopFlush ==
  ASSUME TypeOK, FlushInv, runLoop
  PROVE  FlushInv'
<1>1. PICK f : f = Head(pushQueue)
  OBVIOUS
<1>2. /\ pushQueue # <<>> /\ pushQueue' = Tail(pushQueue) /\ inbox' = Enter(inbox, f)
      /\ UNCHANGED <<left, flush, owed>>
  BY <1>1 DEF runLoop, flushVars
<1>3. Line(0) = pushQueue /\ Line(0)' = pushQueue' /\ 0 \in 0..N /\ 1 \in 0..N /\ 0 + 1 = 1
  BY ProcFacts DEF Line
<1>4. f \in WorkerFrame /\ At(f, 0) /\ Keeps(pushQueue, Tail(pushQueue))
  BY <1>1, <1>2, <1>3, FirstOfLine
<1>5. inbox \in Inboxes /\ \A p \in Proc : Sorted(inbox[p])
  BY DEF TypeOK, Inboxes, FlushInv, AllSorted
<1>6. \A p \in Proc : /\ Sorted(inbox'[p]) /\ (p # 1 => inbox'[p] = inbox[p])
                      /\ p = 1 => After(inbox[p].other, inbox'[p].other, f)
  <2>1. CASE inbox' = inbox
    BY <1>5, <2>1, KeepsSame
  <2>2. CASE inbox' = Put(inbox, 1, f)
    BY <1>4, <1>5, <2>2, PutLine
  <2> QED BY <1>2, <2>1, <2>2 DEF Enter
<1>7. Moves(f, 1)
  BY <1>2, <1>4, <1>6, MovesBy, KeepsSame
<1>8. AllSorted' /\ PushKinds'
  BY <1>2, <1>4, <1>6 DEF AllSorted, PushKinds, FlushInv, Keeps
<1>9. f.kind \in {"d", "end", "stop", "cancel", "probe"}
  BY <1>3, <1>4 DEF FlushInv, PushKinds, At
<1>10. ASSUME NEW i \in Flush, owed[i]
       PROVE  Fits(i, f, 1) /\ (flush'[i] = "nil" => \A w \in Work : Gone(w))
  <2>1. Behind(i) /\ ~goesUp(f)
    BY <1>9, <1>10 DEF FlushInv, goesUp
  <2>2. Fits(i, f, 1)
    BY <1>1, <1>2, <1>3, <2>1, FitsDown
  <2> QED BY <1>2, <2>1, <2>2 DEF Behind
<1>11. /\ f \in Work => "d" \notin left'
       /\ \A i \in Flush : Uncalled(i)' => Uncalled(i) /\ ~(f.kind \in Legs /\ f.flush = i)
  BY <1>2, <1>3, <1>4, Origin DEF Uncalled
<1> QED BY <1>2, <1>3, <1>4, <1>7, <1>8, <1>10, <1>11, FlushMoved

\* A call of Flush puts its probe behind everything there is.
LEMMA ProbeFlush ==
  ASSUME TypeOK, FlushInv, NEW i \in Flush, FlushProbe(i)
  PROVE  FlushInv'
<1>1. PICK f : f = Probe("probe", i)
  OBVIOUS
<1>2. /\ Uncalled(i) /\ pushQueue' = Append(pushQueue, f) /\ UNCHANGED <<inbox, left>>
      /\ flush' = [flush EXCEPT ![i] = "waiting"]
      /\ owed' = [owed EXCEPT ![i] = Work \cap InFlight # {}]
  BY <1>1 DEF FlushProbe, Uncalled, pipeVars
<1>3. f \in WorkerFrame /\ f.kind = "probe" /\ f.flush = i /\ f \notin Work
  BY <1>1, Names DEF Legs
<1>4. /\ After(pushQueue, pushQueue', f)
      /\ Q!FramesOf(pushQueue') = Q!FramesOf(pushQueue) \cup {f}
  BY <1>2, <1>3, AppendAfter, AppendFrame DEF TypeOK
<1>5. Moves(f, 0)
  BY <1>2, <1>4, MovesBy, KeepsSame
<1>6. AllSorted' /\ PushKinds' /\ 0 \in 0..N
  BY <1>2, <1>3, <1>4, ProcFacts DEF AllSorted, PushKinds, FlushInv
<1>7. \A w, p : p \in 0..N /\ At(w, p)' => At(w, p) \/ (p = 0 /\ w = f)
  BY <1>5, MovesAt
<1>8. /\ flush'[i] = "waiting" /\ \A j \in Flush : j # i => flush'[j] = flush[j] /\ owed'[j] = owed[j]
      /\ owed'[i] => Work \cap InFlight # {}
  BY <1>2 DEF TypeOK
<1>9. ASSUME "d" \in left' PROVE \A w \in Work : Gone(w)'
  BY <1>2, <1>3, <1>7, <1>9 DEF FlushInv, Gone
<1>10. ASSUME NEW j \in Flush, Uncalled(j)' PROVE ~owed'[j] /\ \A k \in Legs : Gone(Probe(k, j))'
  <2>1. j # i /\ Uncalled(j)
    BY <1>8, <1>10 DEF Uncalled
  <2>2. ~owed[j] /\ \A k \in Legs : Gone(Probe(k, j)) /\ f # Probe(k, j)
    BY <1>3, <2>1, Names DEF FlushInv
  <2> QED BY <1>7, <1>8, <2>1, <2>2 DEF Gone
<1>11. ASSUME NEW j \in Flush, j # i, owed'[j] PROVE "d" \notin left' /\ Behind(j)'
  <2>1. owed[j] /\ "d" \notin left /\ Behind(j) /\ (flush'[j] = "nil" => \A w \in Work : Gone(w))
    BY <1>8, <1>11 DEF FlushInv, Behind
  <2>2. Fits(j, f, 0)
    <3>1. \A k \in Legs : f # Probe(k, j)
      BY <1>3, <1>11, Names
    <3> QED BY <1>3, <3>1, Names DEF Fits, Legs
  <2> QED BY <1>2, <1>3, <1>5, <1>6, <2>1, <2>2, StaysBehind
<1>12. ASSUME owed'[i] PROVE "d" \notin left' /\ Behind(i)'
  <2>1. PICK w \in Work : w \in InFlight
    BY <1>8, <1>12
  <2>2. \E p \in 0..N : At(w, p)
    <3>1. CASE w \in Q!FramesOf(pushQueue)
      BY <1>6, <3>1 DEF At, Line
    <3>2. CASE w \notin Q!FramesOf(pushQueue)
      <4>1. PICK p \in Proc : w \in Queued(inbox[p])
        BY <2>1, <3>2 DEF InFlight
      <4>2. ~Q!isSystemFrame(w)
        BY Names
      <4>3. w \in Q!FramesOf(inbox[p].other)
        BY <4>1, <4>2 DEF Queued, FlushInv, AllSorted, Sorted
      <4>4. p \in 0..N /\ Line(p) = inbox[p].other
        BY ProcFacts DEF Proc, Line
      <4> QED BY <4>3, <4>4 DEF At
    <3> QED BY <3>1, <3>2
  <2>3. "d" \notin left'
    BY <1>2, <2>2 DEF FlushInv, Gone
  <2>4. Gone(Probe("probe", i)) /\ Gone(Probe("bounce", i)) /\ Gone(Probe("returning", i))
    BY <1>2 DEF FlushInv, Legs
  <2>5. \A p \in 0..N : /\ ~At(Probe("bounce", i), p)' /\ ~At(Probe("returning", i), p)'
                        /\ At(Probe("probe", i), p)' => p = 0
    <3>1. f # Probe("bounce", i) /\ f # Probe("returning", i)
      BY <1>3, Names DEF Legs
    <3> QED BY <1>7, <2>4, <3>1 DEF Gone
  <2>6. \A p \in 0..N : Ahead(Line(p), Fr("u"), Probe("bounce", i))'
                        /\ Ahead(Line(p), Fr("r"), Probe("returning", i))'
    BY <2>5 DEF Ahead, At, Q!FramesOf
  <2>7. \A p \in 0..N : Ahead(Line(p), Fr("d"), Probe("probe", i))'
    <3> SUFFICES ASSUME NEW p \in 0..N PROVE Ahead(Line(p), Fr("d"), Probe("probe", i))'
      OBVIOUS
    <3>1. Ahead(Line(p), Fr("d"), Probe("probe", i))
      BY <2>4 DEF Ahead, Gone, At, Q!FramesOf
    <3>2. /\ Fr("d") \in WorkerFrame /\ Probe("probe", i) \in WorkerFrame /\ Fr("d") # f
          /\ Fr("d") # Probe("probe", i)
      BY <1>1, <1>3, Names
    <3> QED BY <1>5, <3>1, <3>2, MovesAhead
  <2>8. \A p \in 0..N : At(Probe("probe", i), p)' => \A q \in 0..N : q < p => ~At(Fr("d"), q)'
    <3>1. \A q \in 0..N : ~(q < 0)
      OBVIOUS
    <3> QED BY <2>5, <3>1
  <2> QED BY <1>8, <2>3, <2>5, <2>6, <2>7, <2>8 DEF Behind
<1> QED BY <1>6, <1>9, <1>10, <1>11, <1>12 DEF FlushInv

\* A processor handles a frame on its way down.
LEMMA DownFlush ==
  ASSUME TypeOK, FlushInv, NEW p \in Proc, HandleDown(p)
  PROVE  FlushInv'
<1>1. PICK f : f = Q!head(inbox[p])
  OBVIOUS
<1>2. /\ inbox \in Inboxes /\ ~Q!isEmpty(inbox[p]) /\ inbox[p] \in Q!Queue
      /\ \A r \in Proc : Sorted(inbox[r])
  BY DEF TypeOK, Inboxes, HandleDown, CanTake, FlushInv, AllSorted
<1>3. PICK q \in OwnQueues(p, f) :
        LET own == PutAll([inbox EXCEPT ![p] = q], p - 1, PushedUp(p, f))
        IN  IF p < N THEN inbox' = Put(own, p + 1, f) /\ UNCHANGED <<pushQueue, flushVars>>
            ELSE inbox' = PutAll(own, p, SentBack(f)) /\ sinkPush(f)
  BY <1>1 DEF HandleDown
<1>4. ~goesUp(f) /\ left' = left /\ f \in WorkerFrame
  BY <1>1, <1>2, GetFrame DEF HandleDown
<1>5. q \in Q!Queue /\ Sorted(q) /\ Keeps(inbox[p].other, q.other)
  BY <1>2, <1>4, OwnQueue, OwnLine
<1>6. PICK cut : cut = [inbox EXCEPT ![p] = q]
  OBVIOUS
<1>7. /\ cut \in Inboxes /\ cut[p] = q /\ \A r \in Proc : r # p => cut[r] = inbox[r]
  BY <1>2, <1>5, <1>6 DEF Inboxes
<1>8. \A r \in Proc : Sorted(cut[r]) /\ Keeps(inbox[r].other, cut[r].other)
  BY <1>2, <1>5, <1>7, KeepsSame
<1>9. /\ p \in 0..N /\ N \in Nat /\ N >= 2 /\ p \in Int /\ Line(p) = inbox[p].other
      /\ (~(p < N) => p = N)
  BY ProcFacts DEF Proc, Line
<1>10. \/ f.kind \notin Legs /\ f \notin Work
       \/ Line(p) # <<>> /\ f = Head(Line(p)) /\ At(f, p)
  <2>1. Q!isSystemFrame(f) \/ (inbox[p].other # <<>> /\ f = Head(inbox[p].other))
    BY <1>1, <1>2, GetLine
  <2>2. Q!isSystemFrame(f) => f.kind \notin Legs /\ f \notin Work
    BY <1>4, Names DEF Legs
  <2> QED BY <1>9, <2>1, <2>2, FirstOfLine
<1>11. ASSUME NEW g \in WorkerFrame, NEW x \in Proc, inbox' = Put(cut, x, g)
       PROVE  AllSorted' /\ \A r \in Proc : \/ Keeps(inbox[r].other, inbox'[r].other)
                                            \/ r = x /\ After(inbox[r].other, inbox'[r].other, g)
  <2>1. /\ \A r \in Proc : Sorted(inbox'[r]) /\ (r # x => inbox'[r] = cut[r])
        /\ After(cut[x].other, inbox'[x].other, g)
    BY <1>7, <1>8, <1>11, PutLine
  <2>2. After(inbox[x].other, inbox'[x].other, g)
    BY <1>8, <2>1, KeepsAfter
  <2> QED BY <1>8, <2>1, <2>2 DEF AllSorted
<1>12. PushKinds /\ Keeps(pushQueue, pushQueue)
  BY KeepsSame DEF FlushInv
<1>13. CASE p < N
  <2>1. /\ UNCHANGED <<pushQueue, flush, owed, left>> /\ inbox' = Put(cut, p + 1, f)
    <3>1. PushedUp(p, f) = <<>>
      BY <1>9, <1>13 DEF PushedUp
    <3> QED BY <1>3, <1>4, <1>6, <1>13, <3>1 DEF PutAll, flushVars
  <2>2. p + 1 \in Proc /\ p + 1 \in 0..N
    BY <1>9, <1>13 DEF Proc
  <2>3. AllSorted' /\ PushKinds' /\ Moves(f, p + 1)
    BY <1>4, <1>11, <1>12, <2>1, <2>2, MovesBy DEF PushKinds
  <2>4. CASE f.kind \notin Legs /\ f \notin Work
    <3>1. FlushOn
      BY <2>1 DEF FlushOn, Uncalled
    <3> QED BY <1>4, <2>2, <2>3, <2>4, <3>1, OtherMoved
  <2>5. CASE Line(p) # <<>> /\ f = Head(Line(p)) /\ At(f, p)
    <3>1. ASSUME NEW i \in Flush, owed[i]
          PROVE  Fits(i, f, p + 1) /\ (flush'[i] = "nil" => \A w \in Work : Gone(w))
      <4>1. Behind(i)
        BY <3>1 DEF FlushInv
      <4>2. Fits(i, f, p + 1)
        BY <1>4, <1>9, <2>1, <2>5, <4>1, FitsDown
      <4> QED BY <2>1, <4>1, <4>2 DEF Behind
    <3>2. /\ f \in Work => "d" \notin left'
          /\ \A i \in Flush : Uncalled(i)' => Uncalled(i) /\ ~(f.kind \in Legs /\ f.flush = i)
      BY <1>4, <1>9, <2>1, <2>5, Origin DEF Uncalled
    <3> QED BY <1>4, <2>1, <2>2, <2>3, <3>1, <3>2, FlushMoved
  <2> QED BY <1>10, <2>4, <2>5
<1>14. CASE ~(p < N)
  <2>1. /\ p = N /\ sinkPush(f) /\ UNCHANGED <<pushQueue, owed, left>>
        /\ inbox' = PutAll(PutAll(cut, p - 1, PushedUp(p, f)), p, SentBack(f))
    BY <1>3, <1>4, <1>6, <1>9, <1>14 DEF sinkPush
  <2>2. PushKinds' /\ Keeps(pushQueue, pushQueue')
    BY <1>12, <2>1 DEF PushKinds
  <2>3. f.kind # "returning" => UNCHANGED flush
    BY <2>1 DEF sinkPush
  <2>4. (UNCHANGED flush) => FlushOn
    BY <2>1 DEF FlushOn, Uncalled
  <2>5. CASE f.kind = "d"
    <3>1. PICK u : u = Fr("u")
      OBVIOUS
    <3>2. /\ f = Fr("d") /\ u \in WorkerFrame /\ u \in Work /\ u.kind = "u" /\ u.kind \notin Legs
          /\ f \in Work
      <4>1. f.kind \notin Legs
        BY <2>5 DEF Legs
      <4>2. f = Fr("d")
        BY <1>4, <2>5, <4>1, Names
      <4>3. u.kind = "u" /\ u.kind \notin Legs
        BY <3>1, PlainFrames DEF Legs
      <4> QED BY <3>1, <4>2, <4>3, Names
    <3>3. inbox' = Put(cut, N - 1, u) /\ N - 1 \in Proc /\ N - 1 \in 0..N
      <4>1. PushedUp(p, f) = <<u>> /\ SentBack(f) = <<>>
        BY <2>1, <2>5, <3>1 DEF PushedUp, SentBack
      <4> QED BY <1>9, <2>1, <4>1 DEF PutAll, Proc
    <3>4. At(Fr("d"), N)
      BY <1>10, <2>1, <3>2
    <3>5. AllSorted' /\ Moves(u, N - 1)
      BY <1>11, <2>2, <3>2, <3>3, MovesBy
    <3>6. UNCHANGED flush
      BY <2>3, <2>5
    <3>7. ASSUME NEW i \in Flush, owed[i]
          PROVE  Fits(i, u, N - 1) /\ (flush'[i] = "nil" => \A w \in Work : Gone(w))
      <4>1. Behind(i) /\ N \in 0..N
        BY <1>9, <3>7 DEF FlushInv
      <4>2. /\ Gone(Probe("bounce", i)) /\ Gone(Probe("returning", i)) /\ flush[i] # "nil"
        BY <3>2, <3>4, <4>1 DEF Behind, Gone
      <4>3. u # Fr("d") /\ u # Fr("r") /\ \A k \in Legs : u # Probe(k, i)
        BY <3>2, Names, PlainFrames
      <4>4. Fits(i, u, N - 1)
        BY <3>6, <4>2, <4>3 DEF Fits, Gone, Legs
      <4> QED BY <3>6, <4>2, <4>4
    <3>8. "d" \notin left'
      <4>1. N \in 0..N /\ Fr("d") \in WorkerFrame
        BY <1>4, <1>9, <2>1, <3>2
      <4>2. "d" \notin left
        BY <3>2, <3>4, <4>1, Origin
      <4> QED BY <1>4, <4>2
    <3>9. \A i \in Flush : Uncalled(i)' => Uncalled(i) /\ ~(u.kind \in Legs /\ u.flush = i)
      BY <3>2, <3>6 DEF Uncalled
    <3> QED BY <2>1, <2>2, <3>2, <3>3, <3>5, <3>7, <3>8, <3>9, FlushMoved
  <2>6. CASE f.kind = "probe"
    <3>1. PICK b : b = Probe("bounce", f.flush)
      OBVIOUS
    <3>2. /\ f.flush \in Flush /\ f = Probe("probe", f.flush) /\ b \in WorkerFrame /\ b.kind = "bounce"
          /\ b.flush = f.flush /\ b \notin Work
      BY <1>4, <2>6, <3>1, Names DEF Legs
    <3>3. inbox' = Put(cut, N, b) /\ N \in Proc /\ N \in 0..N
      <4>1. PushedUp(p, f) = <<>> /\ SentBack(f) = <<b>>
        BY <2>1, <2>6, <3>1 DEF PushedUp, SentBack
      <4> QED BY <1>9, <2>1, <4>1 DEF PutAll, Proc
    <3>4. Line(N) # <<>> /\ f = Head(Line(N)) /\ At(f, N)
      BY <1>10, <2>1, <2>6 DEF Legs
    <3>5. AllSorted' /\ Moves(b, N)
      BY <1>11, <2>2, <3>2, <3>3, MovesBy
    <3>6. UNCHANGED flush
      BY <2>3, <2>6
    <3>7. ASSUME NEW i \in Flush, owed[i]
          PROVE  Fits(i, b, N) /\ (flush'[i] = "nil" => \A w \in Work : Gone(w))
      <4>1. Behind(i)
        BY <3>7 DEF FlushInv
      <4>2. CASE i = f.flush
        <5>1. Gone(Fr("d"))
          <6>1. \A r \in 0..N : r < N => ~At(Fr("d"), r)
            BY <3>2, <3>3, <3>4, <4>1, <4>2 DEF Behind
          <6>2. ~At(Fr("d"), N)
            BY <3>2, <3>3, <3>4, <4>1, <4>2, FirstOfLine, PlainFrames DEF Behind
          <6>3. \A r \in 0..N : r < N \/ r = N
            BY <1>9
          <6> QED BY <6>1, <6>2, <6>3 DEF Gone
        <5>2. \A r \in 0..N : ~(r > N)
          BY <1>9
        <5>3. /\ b # Fr("d") /\ b # Fr("u") /\ b # Fr("r")
              /\ b # Probe("probe", i) /\ b # Probe("returning", i)
          BY <3>2, Names, PlainFrames DEF Legs
        <5> QED BY <3>2, <3>6, <4>1, <5>1, <5>2, <5>3 DEF Fits, Behind
      <4>3. CASE i # f.flush
        <5>1. \A k \in Legs : b # Probe(k, i)
          BY <3>2, <4>3, Names
        <5>2. b # Fr("d") /\ b # Fr("u") /\ b # Fr("r")
          BY <3>2, PlainFrames
        <5> QED BY <3>2, <3>6, <4>1, <5>1, <5>2 DEF Fits, Behind, Legs
      <4> QED BY <4>2, <4>3
    <3>8. \A i \in Flush : Uncalled(i)' => Uncalled(i) /\ ~(b.kind \in Legs /\ b.flush = i)
      BY <1>4, <2>6, <3>2, <3>3, <3>4, <3>6, Origin DEF Uncalled, Legs
    <3> QED BY <2>1, <2>2, <3>2, <3>3, <3>5, <3>7, <3>8, FlushMoved
  <2>7. CASE f.kind \notin {"d", "probe", "endWorker", "returning"}
    <3>1. inbox' = cut
      BY <2>1, <2>7 DEF PutAll, PushedUp, SentBack
    <3>2. Fr("end") \in WorkerFrame /\ Fr("end").kind \notin Legs /\ Fr("end") \notin Work /\ 0 \in 0..N
      BY PlainFrames, Names, <1>9 DEF Legs
    <3>3. AllSorted' /\ Moves(Fr("end"), 0)
      BY <1>8, <2>2, <3>1, MovesBy DEF AllSorted
    <3> QED BY <2>2, <2>3, <2>4, <2>7, <3>2, <3>3, OtherMoved
  <2>8. CASE f.kind = "endWorker"
    <3>1. inbox' = Put(cut, N, Fr("echo")) /\ N \in Proc /\ N \in 0..N
      BY <1>9, <2>1, <2>8 DEF PutAll, PushedUp, SentBack, Proc
    <3>2. Fr("echo") \in WorkerFrame /\ Fr("echo").kind \notin Legs /\ Fr("echo") \notin Work
      BY PlainFrames, Names DEF Legs
    <3>3. AllSorted' /\ Moves(Fr("echo"), N)
      BY <1>11, <2>2, <3>1, <3>2, MovesBy
    <3> QED BY <2>2, <2>3, <2>4, <2>8, <3>1, <3>2, <3>3, OtherMoved
  <2>9. CASE f.kind = "returning"
    <3>1. inbox' = cut
      BY <2>1, <2>9 DEF PutAll, PushedUp, SentBack
    <3>2. Fr("end") \in WorkerFrame /\ Fr("end").kind \notin Legs /\ Fr("end") \notin Work /\ 0 \in 0..N
      BY PlainFrames, Names, <1>9 DEF Legs
    <3>3. AllSorted' /\ Moves(Fr("end"), 0)
      BY <1>8, <2>2, <3>1, MovesBy DEF AllSorted
    <3>4. f.flush \in Flush /\ f = Probe("returning", f.flush)
      BY <1>4, <2>9, Names DEF Legs
    <3>5. Line(N) # <<>> /\ f = Head(Line(N)) /\ At(f, N) /\ N \in 0..N
      BY <1>9, <1>10, <2>1, <2>9 DEF Legs
    <3>6. \A i \in Flush : flush'[i] = IF i = f.flush /\ flush[i] = "waiting" THEN "nil" ELSE flush[i]
      BY <2>1, <2>9, <3>4 DEF sinkPush, CloseDone, TypeOK
    <3>7. \A i \in Flush : Uncalled(i)' => Uncalled(i)
      BY <3>6 DEF Uncalled
    <3>8. ASSUME NEW i \in Flush, owed[i]
          PROVE  Fits(i, Fr("end"), 0) /\ (flush'[i] = "nil" => \A w \in Work : Gone(w))
      <4>1. Behind(i)
        BY <3>8 DEF FlushInv
      <4>2. CASE i = f.flush
        <5>1. Gone(Fr("d")) /\ Gone(Fr("u")) /\ \A r \in 0..N : r < N => ~At(Fr("r"), r)
          BY <3>4, <3>5, <4>1, <4>2 DEF Behind
        <5>2. ~At(Fr("r"), N)
          BY <3>4, <3>5, <4>1, <4>2, FirstOfLine, PlainFrames DEF Behind
        <5>3. \A r \in 0..N : r < N \/ r = N
          BY <1>9
        <5>4. \A w \in Work : Gone(w)
          BY <5>1, <5>2, <5>3 DEF Gone, Work
        <5> QED BY <3>2, <5>4, FitsOther
      <4>3. CASE i # f.flush
        BY <3>2, <3>6, <4>1, <4>3, FitsOther DEF Behind
      <4> QED BY <4>2, <4>3
    <3> QED BY <2>1, <2>2, <3>2, <3>3, <3>7, <3>8, FlushMoved
  <2> QED BY <2>5, <2>6, <2>7, <2>8, <2>9
<1> QED BY <1>13, <1>14

\* A processor handles a frame on its way up.
LEMMA UpFlush ==
  ASSUME TypeOK, FlushInv, NEW p \in Proc, HandleUp(p)
  PROVE  FlushInv'
<1>1. PICK f : f = Q!head(inbox[p])
  OBVIOUS
<1>2. PICK cut : cut = [inbox EXCEPT ![p] = Q!get(@)]
  OBVIOUS
<1>3. /\ inbox \in Inboxes /\ ~Q!isEmpty(inbox[p]) /\ inbox[p] \in Q!Queue
      /\ \A r \in Proc : Sorted(inbox[r])
  BY DEF TypeOK, Inboxes, HandleUp, CanTake, FlushInv, AllSorted
<1>4. /\ goesUp(f) /\ f \in WorkerFrame /\ left' = left /\ flush' = flush /\ owed' = owed
      /\ p > 1 => inbox' = Put(cut, p - 1, f) /\ pushQueue' = pushQueue
      /\ ~(p > 1) => sourcePush(f, cut)
  BY <1>1, <1>2, <1>3, GetFrame DEF HandleUp, flushVars
<1>5. cut \in Inboxes /\ \A r \in Proc : Sorted(cut[r]) /\ Keeps(inbox[r].other, cut[r].other)
  <2>1. /\ Q!get(inbox[p]) \in Q!Queue /\ Sorted(Q!get(inbox[p]))
        /\ Keeps(inbox[p].other, Q!get(inbox[p]).other)
    BY <1>3, GetFrame, GetLine
  <2>2. /\ cut \in Inboxes /\ cut[p] = Q!get(inbox[p])
        /\ \A r \in Proc : r # p => cut[r] = inbox[r]
    BY <1>2, <1>3, <2>1 DEF Inboxes
  <2> QED BY <1>3, <2>1, <2>2, KeepsSame
<1>6. /\ p \in 0..N /\ N \in Nat /\ N >= 2 /\ p \in Int /\ Line(p) = inbox[p].other
      /\ (~(p > 1) => p = 1)
  BY ProcFacts DEF Proc, Line
<1>7. Line(p) # <<>> /\ f = Head(Line(p)) /\ At(f, p)
  <2>1. Q!isSystemFrame(f) \/ (inbox[p].other # <<>> /\ f = Head(inbox[p].other))
    BY <1>1, <1>3, GetLine
  <2>2. ~Q!isSystemFrame(f)
    BY <1>4, Names DEF goesUp
  <2> QED BY <1>6, <2>1, <2>2, FirstOfLine
<1>8. ASSUME NEW g \in WorkerFrame, NEW x \in Proc, inbox' = Put(cut, x, g)
      PROVE  AllSorted' /\ \A r \in Proc : \/ Keeps(inbox[r].other, inbox'[r].other)
                                           \/ r = x /\ After(inbox[r].other, inbox'[r].other, g)
  <2>1. /\ \A r \in Proc : Sorted(inbox'[r]) /\ (r # x => inbox'[r] = cut[r])
        /\ After(cut[x].other, inbox'[x].other, g)
    BY <1>5, <1>8, PutLine
  <2>2. After(inbox[x].other, inbox'[x].other, g)
    BY <1>5, <2>1, KeepsAfter
  <2> QED BY <1>5, <2>1, <2>2 DEF AllSorted
<1>9. PushKinds /\ Keeps(pushQueue, pushQueue) /\ \A i \in Flush : Uncalled(i)' => Uncalled(i)
  BY <1>4, KeepsSame DEF FlushInv, Uncalled
<1>10. FlushOn
  BY <1>4 DEF FlushOn, Uncalled
<1>11. /\ f \in Work => "d" \notin left'
       /\ \A i \in Flush : Uncalled(i) => ~(f.kind \in Legs /\ f.flush = i)
  BY <1>4, <1>6, <1>7, Origin
<1>12. CASE p > 1
  <2>1. p - 1 \in Proc /\ p - 1 \in 0..N
    BY <1>6, <1>12 DEF Proc
  <2>2. PushKinds' /\ Keeps(pushQueue, pushQueue')
    BY <1>4, <1>9, <1>12 DEF PushKinds
  <2>3. AllSorted' /\ Moves(f, p - 1)
    BY <1>4, <1>8, <1>12, <2>1, <2>2, MovesBy
  <2>4. ASSUME NEW i \in Flush, owed[i]
        PROVE  Fits(i, f, p - 1) /\ (flush'[i] = "nil" => \A w \in Work : Gone(w))
    <3>1. Behind(i)
      BY <2>4 DEF FlushInv
    <3>2. Fits(i, f, p - 1)
      BY <1>4, <1>6, <1>7, <3>1, FitsUp
    <3> QED BY <1>4, <3>1, <3>2 DEF Behind
  <2> QED BY <1>4, <1>9, <1>11, <2>1, <2>2, <2>3, <2>4, FlushMoved
<1>13. CASE ~(p > 1)
  <2>1. p = 1 /\ sourcePush(f, cut) /\ 1 \in Proc /\ 2 \in Proc /\ 1 \in 0..N /\ 2 \in 0..N /\ 0 \in 0..N
    BY <1>4, <1>6, <1>13, ProcFacts DEF Proc
  <2>2. CASE f.kind = "u"
    <3>1. PICK r : r = Fr("r")
      OBVIOUS
    <3>2. inbox' = Put(cut, 2, r) /\ pushQueue' = pushQueue
      BY <2>1, <2>2, <3>1 DEF sourcePush
    <3>3. /\ r \in WorkerFrame /\ r \in Work /\ r.kind \notin Legs
      BY <3>1, Names, PlainFrames DEF Legs
    <3>4. f = Fr("u") /\ f \in Work
      <4>1. f.kind \notin Legs
        BY <2>2 DEF Legs
      <4> QED BY <1>4, <2>2, <4>1, Names
    <3>5. PushKinds' /\ Keeps(pushQueue, pushQueue')
      BY <1>9, <3>2 DEF PushKinds
    <3>6. AllSorted' /\ Moves(r, 2)
      BY <1>8, <2>1, <3>2, <3>3, <3>5, MovesBy
    <3>7. ASSUME NEW i \in Flush, owed[i]
          PROVE  Fits(i, r, 2) /\ (flush'[i] = "nil" => \A w \in Work : Gone(w))
      <4>1. Behind(i) /\ At(Fr("u"), 1)
        BY <1>7, <2>1, <3>4, <3>7 DEF FlushInv
      <4>2. Gone(Probe("returning", i)) /\ flush[i] # "nil"
        BY <2>1, <3>4, <4>1 DEF Behind, Gone
      <4>3. r # Fr("d") /\ r # Fr("u") /\ \A k \in Legs : r # Probe(k, i)
        BY <3>1, <3>3, Names, PlainFrames
      <4>4. Fits(i, r, 2)
        BY <1>4, <4>2, <4>3 DEF Fits, Gone, Legs
      <4> QED BY <1>4, <4>2, <4>4
    <3>8. \A i \in Flush : Uncalled(i)' => Uncalled(i) /\ ~(r.kind \in Legs /\ r.flush = i)
      BY <1>9, <3>3
    <3> QED BY <1>4, <1>11, <2>1, <3>3, <3>4, <3>5, <3>6, <3>7, <3>8, FlushMoved
  <2>3. CASE f.kind = "bounce" /\ 0 \notin canceled
    <3>1. PICK r : r = Probe("returning", f.flush)
      OBVIOUS
    <3>2. inbox' = Put(cut, 1, r) /\ pushQueue' = pushQueue
      BY <2>1, <2>3, <3>1 DEF sourcePush
    <3>3. /\ f.flush \in Flush /\ f = Probe("bounce", f.flush) /\ r \in WorkerFrame
          /\ r.kind = "returning" /\ r.flush = f.flush /\ r \notin Work
      BY <1>4, <2>3, <3>1, Names DEF Legs
    <3>4. PushKinds' /\ Keeps(pushQueue, pushQueue')
      BY <1>9, <3>2 DEF PushKinds
    <3>5. AllSorted' /\ Moves(r, 1)
      BY <1>8, <2>1, <3>2, <3>3, <3>4, MovesBy
    <3>6. ~At(Fr("u"), 0) /\ ~At(Fr("r"), 0)
      BY <1>9, PlainFrames DEF PushKinds, At, Line
    <3>7. ASSUME NEW i \in Flush, owed[i]
          PROVE  Fits(i, r, 1) /\ (flush'[i] = "nil" => \A w \in Work : Gone(w))
      <4>1. Behind(i)
        BY <3>7 DEF FlushInv
      <4>2. CASE i = f.flush
        <5>1. /\ Gone(Fr("d")) /\ \A q \in 0..N : q > 1 => ~At(Fr("u"), q)
              /\ Ahead(Line(1), Fr("u"), f)
          BY <1>7, <2>1, <3>3, <4>1, <4>2 DEF Behind
        <5>2. ~At(Fr("u"), 1)
          BY <1>7, <2>1, <5>1, FirstOfLine, PlainFrames
        <5>3. \A q \in 0..N : (q > 1 \/ q = 1 \/ q = 0) /\ (q < 1 => q = 0)
          BY <1>6
        <5>4. Gone(Fr("u")) /\ \A q \in 0..N : q < 1 => ~At(Fr("r"), q)
          BY <3>6, <5>1, <5>2, <5>3 DEF Gone
        <5>5. /\ r # Fr("d") /\ r # Fr("u") /\ r # Fr("r")
              /\ r # Probe("probe", i) /\ r # Probe("bounce", i)
          BY <3>3, <3>7, Names, PlainFrames DEF Legs
        <5> QED BY <1>4, <3>3, <4>1, <5>1, <5>4, <5>5 DEF Fits, Behind
      <4>3. CASE i # f.flush
        <5>1. \A k \in Legs : r # Probe(k, i)
          BY <3>3, <4>3, Names
        <5>2. r # Fr("d") /\ r # Fr("u") /\ r # Fr("r")
          BY <3>3, PlainFrames
        <5> QED BY <1>4, <3>3, <4>1, <5>1, <5>2 DEF Fits, Behind, Legs
      <4> QED BY <4>2, <4>3
    <3>8. \A i \in Flush : Uncalled(i)' => Uncalled(i) /\ ~(r.kind \in Legs /\ r.flush = i)
      BY <1>9, <1>11, <2>3, <3>3 DEF Legs
    <3> QED BY <1>4, <2>1, <3>3, <3>4, <3>5, <3>7, <3>8, FlushMoved
  <2>4. CASE f.kind \notin {"u", "bounce"} \/ (f.kind = "bounce" /\ 0 \in canceled)
    <3>1. PICK e : e = Fr("end")
      OBVIOUS
    <3>2. e \in WorkerFrame /\ e.kind = "end" /\ e.kind \notin Legs /\ e \notin Work
      BY <3>1, PlainFrames, Names DEF Legs
    <3>3. inbox' = cut /\ (pushQueue' = pushQueue \/ pushQueue' = Append(pushQueue, e))
      BY <2>1, <2>4, <3>1 DEF sourcePush
    <3>4. AllSorted' /\ \A r \in Proc : Keeps(inbox[r].other, inbox'[r].other)
      BY <1>5, <3>3 DEF AllSorted
    <3>5. CASE pushQueue' = pushQueue
      <4>1. PushKinds' /\ Keeps(pushQueue, pushQueue')
        BY <1>9, <3>5 DEF PushKinds
      <4>2. Moves(e, 0)
        BY <3>4, <4>1, MovesBy
      <4> QED BY <1>10, <2>1, <3>2, <3>4, <4>1, <4>2, OtherMoved
    <3>6. CASE pushQueue' = Append(pushQueue, e)
      <4>1. /\ After(pushQueue, pushQueue', e)
            /\ Q!FramesOf(pushQueue') = Q!FramesOf(pushQueue) \cup {e}
        BY <3>2, <3>6, AppendAfter, AppendFrame DEF TypeOK
      <4>2. PushKinds'
        BY <1>9, <3>2, <4>1 DEF PushKinds
      <4>3. Moves(e, 0)
        BY <3>4, <4>1, MovesBy
      <4> QED BY <1>10, <2>1, <3>2, <3>4, <4>2, <4>3, OtherMoved
    <3> QED BY <3>3, <3>5, <3>6
  <2> QED BY <2>2, <2>3, <2>4
<1> QED BY <1>12, <1>13

LEMMA FlushInit == Init => FlushInv
<1> SUFFICES ASSUME Init PROVE FlushInv
  OBVIOUS
<1>1. /\ pushQueue = <<>> /\ \A p \in Proc : inbox[p] = Q!newQueue
      /\ \A i \in Flush : ~owed[i]
  BY DEF Init
<1>2. Q!FramesOf(<<>>) = {}
  BY DEF Q!FramesOf
<1>3. \A p \in Proc : /\ inbox[p].start = <<>> /\ inbox[p].system = <<>> /\ inbox[p].other = <<>>
  BY <1>1 DEF Q!newQueue
<1>4. AllSorted /\ PushKinds
  BY <1>1, <1>2, <1>3 DEF AllSorted, Sorted, PushKinds
<1>5. \A f : Gone(f)
  <2>1. \A f, p : p \in 0..N => ~At(f, p)
    BY <1>1, <1>2, <1>3, LineAt DEF At
  <2> QED BY <2>1 DEF Gone
<1> QED BY <1>1, <1>4, <1>5 DEF FlushInv

\* No frame is moved.
LEMMA FlushSame ==
  ASSUME TypeOK, FlushInv, UNCHANGED <<inbox, pushQueue>>, FlushOn
  PROVE  FlushInv'
<1>1. PICK f : f = Fr("end")
  OBVIOUS
<1>2. f \in WorkerFrame /\ f.kind \notin Legs /\ f \notin Work
  BY <1>1, PlainFrames, Names DEF Legs
<1> QED BY <1>2, EnterFlush

LEMMA FlushRun == TypeOK /\ FlushInv /\ RunStep => FlushInv'
<1> SUFFICES ASSUME TypeOK, FlushInv, RunStep PROVE FlushInv'
  OBVIOUS
<1>1. ASSUME UNCHANGED <<left, flush, owed>> PROVE FlushOn
  BY <1>1 DEF FlushOn, Uncalled
<1>2. CASE runLoop
  BY <1>2, LoopFlush
<1>3. CASE PushStart
  <2>1. PICK f : f = Fr("start")
    OBVIOUS
  <2>2. f \in WorkerFrame /\ f.kind \notin Legs /\ f \notin Work
    BY <2>1, PlainFrames, Names DEF Legs
  <2>3. inbox' = Enter(inbox, f) /\ pushQueue' = pushQueue /\ UNCHANGED <<left, flush, owed>>
    BY <1>3, <2>1 DEF PushStart, flushVars
  <2> QED BY <1>1, <2>2, <2>3, EnterFlush
<1>4. CASE cancelOnContextEnd
  <2>1. PICK f : f = Fr("cancel")
    OBVIOUS
  <2>2. f \in WorkerFrame /\ f.kind \notin Legs /\ f \notin Work
    BY <2>1, PlainFrames, Names DEF Legs
  <2>3. /\ inbox' = inbox \/ inbox' = Enter(inbox, f)
        /\ pushQueue' = pushQueue /\ UNCHANGED <<left, flush, owed>>
    BY <1>4, <2>1 DEF cancelOnContextEnd, flushVars
  <2> QED BY <1>1, <2>2, <2>3, EnterFlush
<1>5. CASE \/ RunBegin \/ setupProcessors \/ SetupEnds \/ SetupTimeout \/ WindDown
           \/ waitForStart \/ StartTimeout \/ waitPipelineEnd \/ CancelArrived
  <2>1. UNCHANGED <<inbox, pushQueue, left, flush, owed>>
    BY <1>5 DEF RunBegin, setupProcessors, SetupEnds, SetupTimeout, WindDown, waitForStart,
                StartTimeout, waitPipelineEnd, CancelArrived, pipeVars, flushVars
  <2> QED BY <1>1, <2>1, FlushSame
<1>6. CASE \/ CancelTimeout \/ monitorsStop \/ Teardown \/ MonitorStopTimeout \/ Finish
           \/ \E p \in Proc : cleanupProcessor(p)
  <2>1. UNCHANGED <<inbox, pushQueue, left, flush, owed>>
    BY <1>6 DEF CancelTimeout, monitorsStop, Teardown, MonitorStopTimeout, Finish,
                cleanupProcessor, pipeVars, flushVars
  <2> QED BY <1>1, <2>1, FlushSame
<1> QED BY <1>2, <1>3, <1>4, <1>5, <1>6 DEF RunStep

LEMMA FlushCancel ==
  ASSUME TypeOK, FlushInv, cancelWithReason, inbox' = inbox, FlushOn
  PROVE  FlushInv'
<1>1. PICK f : f = Fr("cancel")
  OBVIOUS
<1>2. f \in WorkerFrame /\ f.kind = "cancel"
  BY <1>1, PlainFrames
<1>3. pushQueue' = pushQueue \/ pushQueue' = Append(pushQueue, f)
  BY <1>1 DEF cancelWithReason
<1> QED BY <1>2, <1>3, QueueFlush, FlushSame

LEMMA FlushEnvironment == TypeOK /\ FlushInv /\ (Environment \/ MonitorStep) => FlushInv'
<1> SUFFICES ASSUME TypeOK, FlushInv, Environment \/ MonitorStep PROVE FlushInv'
  OBVIOUS
<1>1. ASSUME left' \subseteq left, UNCHANGED <<flush, owed>> PROVE FlushOn
  BY <1>1 DEF FlushOn, Uncalled
<1>2. CASE Cancel \/ IdleTimeout
  <2>1. cancelWithReason /\ inbox' = inbox /\ left' \subseteq left /\ UNCHANGED <<flush, owed>>
    BY <1>2 DEF Cancel, IdleTimeout, Input, pipeVars, flushVars
  <2> QED BY <1>1, <2>1, FlushCancel
<1>3. CASE QueueFrame
  <2>1. PICK k \in {"d", "end", "stop"} : Input(k) /\ pushQueue' = Append(pushQueue, Fr(k))
    BY <1>3 DEF QueueFrame
  <2>2. PICK f : f = Fr(k)
    OBVIOUS
  <2>3. f \in WorkerFrame /\ f.kind = k
    BY <2>1, <2>2, PlainFrames
  <2>4. inbox' = inbox /\ left' \subseteq left /\ UNCHANGED <<flush, owed>>
        /\ pushQueue' = Append(pushQueue, f) /\ k \in left /\ k \notin left'
    BY <1>3, <2>1, <2>2 DEF QueueFrame, Input, pipeVars, flushVars
  <2> QED BY <1>1, <2>3, <2>4, QueueFlush
<1>4. CASE ProcessorPushes
  <2>1. PICK k \in {"endWorker", "interrupt"} : Input(k) /\ inbox' = Enter(inbox, Fr(k))
    BY <1>4 DEF ProcessorPushes
  <2>2. PICK f : f = Fr(k)
    OBVIOUS
  <2>3. f \in WorkerFrame /\ f.kind \notin Legs /\ f \notin Work
    BY <2>1, <2>2, PlainFrames, Names DEF Legs
  <2>4. /\ inbox' = Enter(inbox, f) /\ pushQueue' = pushQueue
        /\ left' \subseteq left /\ UNCHANGED <<flush, owed>>
    BY <1>4, <2>1, <2>2 DEF ProcessorPushes, Input, flushVars
  <2> QED BY <1>1, <2>3, <2>4, EnterFlush
<1>5. CASE heartbeatPushLoop
  <2>1. PICK f : f = Fr("heartbeat")
    OBVIOUS
  <2>2. f \in WorkerFrame /\ f.kind \notin Legs /\ f \notin Work
    BY <2>1, PlainFrames, Names DEF Legs
  <2>3. inbox' = Enter(inbox, f) /\ pushQueue' = pushQueue /\ UNCHANGED <<left, flush, owed>>
    BY <1>5, <2>1 DEF heartbeatPushLoop, flushVars
  <2> QED BY <1>1, <2>2, <2>3, EnterFlush
<1>6. CASE ContextEnd \/ Wedge \/ \E m \in mon : MonitorExits(m)
  <2>1. UNCHANGED <<inbox, pushQueue, flush, owed>> /\ left' \subseteq left
    BY <1>6 DEF ContextEnd, Wedge, MonitorExits, Input, pipeVars, flushVars
  <2> QED BY <1>1, <2>1, FlushSame
<1> QED BY <1>2, <1>3, <1>4, <1>5, <1>6 DEF Environment, MonitorStep

LEMMA FlushNext == TypeOK /\ FlushInv /\ [Next]_vars => FlushInv'
<1> SUFFICES ASSUME TypeOK, FlushInv, [Next]_vars PROVE FlushInv'
  OBVIOUS
<1>1. CASE SinkStarted \/ (\E p \in Proc : SetupReturns(p)) \/ UNCHANGED vars
  <2>1. UNCHANGED <<inbox, pushQueue, left, flush, owed>>
    BY <1>1 DEF SinkStarted, SetupReturns, vars, pipeVars, flushVars
  <2>2. FlushOn
    BY <2>1 DEF FlushOn, Uncalled
  <2> QED BY <2>1, <2>2, FlushSame
<1>2. ASSUME NEW i \in Flush, FlushCall(i) \/ FlushTimer(i) PROVE FlushInv'
  <2>1. UNCHANGED <<inbox, pushQueue, left, owed>>
    BY <1>2 DEF FlushCall, FlushTimer, pipeVars
  <2>2. \A j \in Flush : \/ flush'[j] = flush[j]
                         \/ flush[j] = "no" /\ flush'[j] = "startWait"
                         \/ flush'[j] = "gaveUp"
    BY <1>2 DEF FlushCall, FlushTimer, TypeOK
  <2>3. FlushOn
    BY <2>1, <2>2 DEF FlushOn, Uncalled
  <2> QED BY <2>1, <2>3, FlushSame
<1>3. CASE \E p \in Proc : ProcessorStep(p)
  BY <1>3, DownFlush, UpFlush DEF ProcessorStep
<1>4. CASE \E i \in Flush : FlushCall(i) \/ FlushProbe(i) \/ FlushTimer(i)
  BY <1>2, <1>4, ProbeFlush
<1> QED BY <1>1, <1>3, <1>4, FlushRun, FlushEnvironment, StepKinds DEF Others

\* When Flush returns nil, nothing of the work that was ahead of its probe when it
\* was sent is still in the pipeline: not the answer to what a processor pushed
\* upstream either, however many flushes were given up before, and whatever an
\* interruption, a cancel or an ending did to the queues in the meantime
\* (Worker.Flush, advanceFlushProbe).
THEOREM FlushCoversHolds == Spec => []FlushCovers
<1>1. TypeOK /\ FlushInv => FlushCovers
  <2> SUFFICES ASSUME TypeOK, FlushInv, NEW i \in Flush, flush[i] = "nil", owed[i],
                      NEW w \in Work, w \in InFlight
               PROVE  FALSE
    BY DEF FlushCovers
  <2>1. \A x \in Work : Gone(x)
    BY DEF FlushInv, Behind
  <2>2. 0 \in 0..N /\ ~Q!isSystemFrame(w)
    BY ProcFacts, Names
  <2>3. w \notin Q!FramesOf(pushQueue)
    BY <2>1, <2>2 DEF Gone, At, Line
  <2>4. PICK p \in Proc : w \in Queued(inbox[p])
    BY <2>3 DEF InFlight
  <2>5. w \in Q!FramesOf(inbox[p].other)
    BY <2>2, <2>4 DEF Queued, FlushInv, AllSorted, Sorted
  <2>6. p \in 0..N /\ Line(p) = inbox[p].other
    BY ProcFacts DEF Proc, Line
  <2> QED BY <2>1, <2>5, <2>6 DEF Gone, At
<1> QED BY <1>1, TypeInit, TypeNext, FlushInit, FlushNext, PTL DEF Spec
=============================================================================
