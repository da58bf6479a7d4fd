----------------------------- MODULE JobsProofs -----------------------------
(***************************************************************************)
(* Proofs about Jobs, for any workers, any jobs and any assignment of the  *)
(* ones to the others: its type invariant, that a group is finished once,  *)
(* and that a sequential handler runs one request at a time.               *)
(***************************************************************************)
EXTENDS Jobs, SequenceTheorems, FiniteSetTheorems, TLAPS

(***************************************************************************)
(* The subscriptions: what the operations of the bus do to one of them.    *)
(* A worker is sent what comes from the requester, and the requester what  *)
(* comes from a worker.                                                    *)
(***************************************************************************)
Subscribers == Worker \cup {Requester}
GoPcs == {"off", "idle", "busy"}
MessageFor(s) == {m \in MessageSet : (m.from = Requester) = (s \in Worker)}
SubFor(s) == [queue : [system : Seq(MessageFor(s)), data : Seq(MessageFor(s))],
              dataQueue : Seq(MessageFor(s)), route : GoPcs, dispatch : GoPcs]

LEMMA NewSubFits ==
  ASSUME NEW s \in Subscribers
  PROVE  Subscribe(TRUE) \in SubFor(s)
<1>1. <<>> \in Seq(MessageFor(s))
  BY EmptySeq
<1> QED BY <1>1 DEF Subscribe, SubFor, GoPcs

LEMMA ReceiveFits ==
  ASSUME NEW s \in Subscribers, NEW sub \in SubFor(s), NEW m \in MessageFor(s)
  PROVE  /\ Receive(sub, m) \in SubFor(s)
         /\ Receive(sub, m).dataQueue = sub.dataQueue
         /\ Receive(sub, m).queue.data =
              IF isSystem(m) THEN sub.queue.data ELSE Append(sub.queue.data, m)
<1>1. Append(sub.queue.system, m) \in Seq(MessageFor(s)) /\ Append(sub.queue.data, m) \in Seq(MessageFor(s))
  BY DEF SubFor
<1> QED BY <1>1 DEF Receive, put, SubFor

LEMMA ReceiveDataFits ==
  ASSUME NEW s \in Subscribers, NEW sub \in SubFor(s), NEW ms \in Seq(MessageFor(s))
  PROVE  ReceiveData(sub, ms) \in SubFor(s)
<1>1. sub.queue.data \o ms \in Seq(MessageFor(s))
  BY ConcatProperties DEF SubFor
<1> QED BY <1>1 DEF ReceiveData, SubFor

LEMMA TakeFits ==
  ASSUME NEW s \in Subscribers, NEW sub \in SubFor(s)
  PROVE  /\ systemNext(sub) =>
              /\ takeSystem(sub) \in SubFor(s) /\ nextSystem(sub) \in MessageFor(s)
              /\ takeSystem(sub).queue.data = sub.queue.data
              /\ takeSystem(sub).dataQueue = sub.dataQueue
         /\ dispatchNext(sub) =>
              /\ takeData(sub) \in SubFor(s) /\ nextData(sub) \in MessageFor(s)
              /\ takeData(sub).queue.data = sub.queue.data
              /\ takeData(sub).dataQueue = Tail(sub.dataQueue)
<1>1. ASSUME systemNext(sub)
      PROVE  /\ takeSystem(sub) \in SubFor(s) /\ nextSystem(sub) \in MessageFor(s)
             /\ takeSystem(sub).queue.data = sub.queue.data
             /\ takeSystem(sub).dataQueue = sub.dataQueue
  <2>1. Tail(sub.queue.system) \in Seq(MessageFor(s)) /\ nextSystem(sub) \in MessageFor(s)
    BY <1>1 DEF systemNext, nextSystem, SubFor
  <2> QED BY <2>1 DEF takeSystem, SubFor
<1>2. ASSUME dispatchNext(sub)
      PROVE  /\ takeData(sub) \in SubFor(s) /\ nextData(sub) \in MessageFor(s)
             /\ takeData(sub).queue.data = sub.queue.data
             /\ takeData(sub).dataQueue = Tail(sub.dataQueue)
  <2>1. Tail(sub.dataQueue) \in Seq(MessageFor(s)) /\ nextData(sub) \in MessageFor(s)
    BY <1>2 DEF dispatchNext, nextData, SubFor
  <2> QED BY <2>1 DEF takeData, SubFor
<1> QED BY <1>1, <1>2

LEMMA PassFits ==
  ASSUME NEW s \in Subscribers, NEW sub \in SubFor(s), dataNext(sub)
  PROVE  /\ passData(sub) \in SubFor(s) /\ dropData(sub) \in SubFor(s)
         /\ passData(sub).queue.data = Tail(sub.queue.data)
         /\ passData(sub).dataQueue = Append(sub.dataQueue, Head(sub.queue.data))
         /\ dropData(sub).queue.data = Tail(sub.queue.data)
         /\ dropData(sub).dataQueue = sub.dataQueue
<1>1. Head(sub.queue.data) \in MessageFor(s) /\ Tail(sub.queue.data) \in Seq(MessageFor(s))
  BY DEF dataNext, SubFor
<1>2. Append(sub.dataQueue, Head(sub.queue.data)) \in Seq(MessageFor(s))
  BY <1>1 DEF SubFor
<1> QED BY <1>1, <1>2 DEF passData, dropData, SubFor

LEMMA PcFits ==
  ASSUME NEW s \in Subscribers, NEW sub \in SubFor(s), NEW x \in GoPcs, NEW g \in Goroutines
  PROVE  /\ [sub EXCEPT ![g] = x] \in SubFor(s)
         /\ [sub EXCEPT ![g] = x].queue = sub.queue
         /\ [sub EXCEPT ![g] = x].dataQueue = sub.dataQueue
<1>1. CASE g = "route"
  BY <1>1 DEF SubFor
<1>2. CASE g = "dispatch"
  BY <1>2 DEF SubFor
<1> QED BY <1>1, <1>2 DEF Goroutines

BusFits(b) == b = [s \in Subscribers |-> b[s]] /\ \A s \in Subscribers : b[s] \in SubFor(s)

LEMMA ExceptFits ==
  ASSUME NEW b, BusFits(b), NEW s \in Subscribers, NEW sub \in SubFor(s)
  PROVE  /\ BusFits([b EXCEPT ![s] = sub])
         /\ [b EXCEPT ![s] = sub][s] = sub
         /\ \A r \in Subscribers \ {s} : [b EXCEPT ![s] = sub][r] = b[r]
  BY DEF BusFits

(***************************************************************************)
(* What the actions do to the bus.  Only three of them touch the data      *)
(* queues of a worker: sending a request, passing one on, and taking one.  *)
(***************************************************************************)
LineKept(b, c) ==
    \A w \in Worker : c[w].queue.data = b[w].queue.data /\ c[w].dataQueue = b[w].dataQueue

LEMMA Sides == /\ Requester \notin Worker /\ Requester \in Subscribers
               /\ Worker \subseteq Subscribers
               /\ Goroutines = {"route", "dispatch"} /\ NoJob \notin Job
  BY RequesterAssumption, NoJobAssumption DEF Subscribers, Goroutines

LEMMA Requests ==
  ASSUME NEW s \in Worker, NEW j \in Job, NEW t \in {"JobRequestMessage", "JobCancelMessage"}
  PROVE  /\ Message(t, j, Requester, "none") \in MessageFor(s)
         /\ Message(t, j, Requester, "none").job = j
         /\ isSystem(Message(t, j, Requester, "none")) <=> t = "JobCancelMessage"
  BY Sides DEF Message, MessageFor, MessageSet, isSystem, SystemMessages

LEMMA Responses ==
  ASSUME NEW w \in Worker, NEW j \in Job,
         NEW t \in {"JobResponseMessage", "JobResponseUrgentMessage"},
         NEW st \in {"completed", "error", "cancelled"}
  PROVE  Message(t, j, w, st) \in MessageFor(Requester)
  BY Sides DEF Message, MessageFor, MessageSet

\* The requester's own subscription may change in any way that fits.
LEMMA RequesterFits ==
  ASSUME NEW b, BusFits(b), NEW sub \in SubFor(Requester)
  PROVE  BusFits([b EXCEPT ![Requester] = sub]) /\ LineKept(b, [b EXCEPT ![Requester] = sub])
<1>1. \A w \in Worker : w \in Subscribers \ {Requester}
  BY Sides
<1> QED BY <1>1, ExceptFits, Sides DEF LineKept

LEMMA AnswerFits ==
  ASSUME NEW b, BusFits(b), NEW w \in Worker, NEW j \in Job,
         NEW t \in {"JobResponseMessage", "JobResponseUrgentMessage"},
         NEW st \in {"completed", "error", "cancelled"}
  PROVE  BusFits(Answer(b, w, j, t, st)) /\ LineKept(b, Answer(b, w, j, t, st))
<1>1. b[Requester] \in SubFor(Requester)
  BY Sides DEF BusFits
<1>2. Receive(b[Requester], Message(t, j, w, st)) \in SubFor(Requester)
  BY <1>1, Responses, ReceiveFits, Sides
<1>3. Answer(b, w, j, t, st) = [b EXCEPT ![Requester] = Receive(b[Requester], Message(t, j, w, st))]
  BY DEF Answer
<1> QED BY <1>2, <1>3, RequesterFits

\* One goroutine of a subscription turns busy or idle.
LEMMA IdleFits ==
  ASSUME NEW b, BusFits(b), NEW s \in Subscribers, NEW g \in Goroutines
  PROVE  LET c == [b EXCEPT ![s] = [b[s] EXCEPT ![g] = "idle"]] IN BusFits(c) /\ LineKept(b, c)
<1> DEFINE sub == [b[s] EXCEPT ![g] = "idle"]
           c == [b EXCEPT ![s] = sub]
<1>1. b[s] \in SubFor(s)
  BY DEF BusFits
<1>2. sub \in SubFor(s) /\ sub.queue = b[s].queue /\ sub.dataQueue = b[s].dataQueue
  BY <1>1, PcFits DEF GoPcs
<1> HIDE DEF sub
<1>3. BusFits(c) /\ c[s] = sub /\ \A r \in Subscribers \ {s} : c[r] = b[r]
  BY <1>2, ExceptFits
<1> QED BY <1>2, <1>3, Sides DEF LineKept, sub

LEMMA CancelGroupFits ==
  ASSUME NEW b, BusFits(b), NEW j \in Job, CancelGroup(b, j)
  PROVE  BusFits(bus') /\ LineKept(b, bus')
<1>1. CASE group[j] # "open"
  BY <1>1 DEF CancelGroup, LineKept
<1>2. CASE group[j] = "open"
  <2> DEFINE m == Message("JobCancelMessage", j, Requester, "none")
  <2>1. bus' = [s \in DOMAIN b |-> IF s \in WorkerNames[j] THEN Receive(b[s], m) ELSE b[s]]
    BY <1>2 DEF CancelGroup
  <2>2. DOMAIN b = Subscribers /\ WorkerNames[j] \subseteq Worker
    BY WorkerNamesAssumption DEF BusFits
  <2>3. \A s \in Worker : m \in MessageFor(s) /\ isSystem(m)
    BY Requests
  <2> HIDE DEF m
  <2>4. \A s \in Subscribers : b[s] \in SubFor(s)
    BY DEF BusFits
  <2>5. \A s \in Worker : /\ Receive(b[s], m) \in SubFor(s)
                          /\ Receive(b[s], m).queue.data = b[s].queue.data
                          /\ Receive(b[s], m).dataQueue = b[s].dataQueue
    BY <2>3, <2>4, ReceiveFits, Sides
  <2>6. bus' = [s \in Subscribers |-> IF s \in WorkerNames[j] THEN Receive(b[s], m) ELSE b[s]]
    BY <2>1, <2>2
  <2>7. \A s \in Subscribers : bus'[s] = IF s \in WorkerNames[j] THEN Receive(b[s], m) ELSE b[s]
    BY <2>6
  <2>8. \A s \in Subscribers : bus'[s] \in SubFor(s)
    BY <2>2, <2>4, <2>5, <2>7
  <2>9. LineKept(b, bus')
    BY <2>5, <2>7, Sides DEF LineKept
  <2>10. bus' = [s \in Subscribers |-> bus'[s]]
    BY <2>6
  <2> QED BY <2>8, <2>9, <2>10 DEF BusFits
<1> QED BY <1>1, <1>2

(***************************************************************************)
(* The type invariant.                                                     *)
(***************************************************************************)
RequesterOK ==
    /\ group \in [Job -> {"none", "open", "completed", "failed"}]
    /\ responses \in [Job -> SUBSET Worker] /\ finishes \in [Job -> Nat]
    /\ timer \in [Job -> {"off", "on", "fired"}] /\ toRequest \in [Job -> SUBSET Worker]
    /\ tracking \in [Goroutines -> MessageSet \cup {NoAnswer}]
WorkersOK ==
    /\ activeJobs \in [Worker -> SUBSET Job] /\ canceled \in [Worker -> SUBSET Job]
    /\ handler \in [Worker -> [Job -> {"none", "waiting", "running", "ended"}]]
    /\ wait \in [Worker -> [Job -> Job \cup {NoJob}]]
    /\ sequential \in [Worker -> Job \cup {NoJob}] /\ answering \in [Worker -> SUBSET Job]
    /\ stopping \in [Worker -> Job \cup {NoJob}] /\ active \in [Worker -> BOOLEAN]
    /\ stopped \subseteq Worker
    /\ skipped \in [Worker -> SUBSET Job]
\* Stop needs an order of the jobs to answer, and they are finitely many.
FewActive == \A w \in Worker : IsFiniteSet(activeJobs[w])

TypeInv == RequesterOK /\ WorkersOK /\ FewActive /\ BusFits(bus)

LEMMA InvTypes == TypeInv => TypeOK
<1> SUFFICES ASSUME TypeInv PROVE TypeOK
  OBVIOUS
<1>1. ASSUME NEW s \in Worker \cup {Requester}
      PROVE  LET q == bus[s].queue.system \o bus[s].queue.data \o bus[s].dataQueue IN
             \A i \in DOMAIN q : q[i] \in MessageSet /\ (q[i].from = Requester) = (s \in Worker)
  <2> DEFINE q == bus[s].queue.system \o bus[s].queue.data \o bus[s].dataQueue
  <2>1. /\ bus[s].queue.system \in Seq(MessageFor(s)) /\ bus[s].queue.data \in Seq(MessageFor(s))
        /\ bus[s].dataQueue \in Seq(MessageFor(s))
    BY DEF TypeInv, BusFits, SubFor, Subscribers
  <2>2. q \in Seq(MessageFor(s))
    BY <2>1, ConcatProperties
  <2> HIDE DEF q
  <2>3. \A i \in DOMAIN q : q[i] \in MessageFor(s)
    BY <2>2, ElementOfSeq, LenProperties
  <2>4. \A i \in DOMAIN q : q[i] \in MessageSet /\ (q[i].from = Requester) = (s \in Worker)
    BY <2>3 DEF MessageFor
  <2> QED BY <2>4 DEF q
<1> QED BY <1>1 DEF TypeInv, RequesterOK, WorkersOK, TypeOK

LEMMA TypeInit == Init => TypeInv
<1> SUFFICES ASSUME Init PROVE TypeInv
  OBVIOUS
<1>1. RequesterOK
  BY DEF Init, RequesterOK
<1>2. WorkersOK
  BY DEF Init, WorkersOK
<1>3. FewActive
  BY FS_EmptySet DEF Init, FewActive
<1>4. BusFits(bus)
  BY NewSubFits DEF Init, BusFits, Subscribers
<1> QED BY <1>1, <1>2, <1>3, <1>4 DEF TypeInv

\* CancelGroup, by whoever is first.
LEMMA TypeCancel ==
  ASSUME RequesterOK, NEW b, BusFits(b), NEW j \in Job, CancelGroup(b, j),
         UNCHANGED <<responses, toRequest>>,
         tracking' \in [Goroutines -> MessageSet \cup {NoAnswer}]
  PROVE  RequesterOK' /\ BusFits(bus') /\ LineKept(b, bus')
<1>1. BusFits(bus') /\ LineKept(b, bus')
  BY CancelGroupFits
<1>2. RequesterOK'
  BY DEF CancelGroup, CancelTimeout, RequesterOK
<1> QED BY <1>1, <1>2

LEMMA TypeRequester ==
  ASSUME TypeInv,
         \/ \E j \in Job : createGroup(j) \/ TimerFires(j) \/ TimerCancels(j) \/ cancelGroup(j)
         \/ \E g \in Goroutines : handleJobResponse(g) \/ trackGroupResponse(g)
  PROVE  TypeInv' /\ LineKept(bus, bus') /\ UNCHANGED workerVars
<1>0. RequesterOK /\ WorkersOK /\ FewActive /\ BusFits(bus) /\ bus[Requester] \in SubFor(Requester)
  BY Sides DEF TypeInv, BusFits
<1>a. ASSUME UNCHANGED workerVars PROVE WorkersOK' /\ FewActive'
  BY <1>0, <1>a DEF workerVars, WorkersOK, FewActive
<1>b. ASSUME UNCHANGED bus PROVE BusFits(bus') /\ LineKept(bus, bus')
  BY <1>0, <1>b DEF LineKept
<1>1. ASSUME NEW j \in Job, createGroup(j)
      PROVE  TypeInv' /\ LineKept(bus, bus') /\ UNCHANGED workerVars
  <2>1. RequesterOK'
    BY <1>0, <1>1, WorkerNamesAssumption DEF createGroup, RequesterOK
  <2> QED BY <1>1, <1>a, <1>b, <2>1 DEF createGroup, TypeInv
<1>2. ASSUME NEW j \in Job, TimerFires(j)
      PROVE  TypeInv' /\ LineKept(bus, bus') /\ UNCHANGED workerVars
  <2>1. RequesterOK'
    BY <1>0, <1>2 DEF TimerFires, RequesterOK
  <2> QED BY <1>2, <1>a, <1>b, <2>1 DEF TimerFires, TypeInv
<1>3. ASSUME NEW j \in Job, TimerCancels(j) \/ cancelGroup(j)
      PROVE  TypeInv' /\ LineKept(bus, bus') /\ UNCHANGED workerVars
  <2>1. /\ CancelGroup(bus, j) /\ UNCHANGED <<responses, toRequest>> /\ UNCHANGED workerVars
        /\ tracking' \in [Goroutines -> MessageSet \cup {NoAnswer}]
    BY <1>0, <1>3 DEF TimerCancels, cancelGroup, RequesterOK
  <2> QED BY <1>0, <1>a, <2>1, TypeCancel DEF TypeInv
<1>4. ASSUME NEW g \in Goroutines, handleJobResponse(g)
      PROVE  TypeInv' /\ LineKept(bus, bus') /\ UNCHANGED workerVars
  <2> DEFINE sub == bus[Requester]
             m == nextOf(sub, g)
             took == takes(sub, g)
             busy == [took EXCEPT ![g] = "busy"]
  <2>1. m \in MessageFor(Requester) /\ took \in SubFor(Requester)
    BY <1>0, <1>4, TakeFits, Sides DEF handleJobResponse, hasNext, nextOf, takes
  <2>2. busy \in SubFor(Requester)
    BY <2>1, PcFits, Sides DEF GoPcs
  <2>3. m \in MessageSet /\ m.job \in Job /\ m.from \in Worker
    BY <2>1, Sides DEF MessageFor, MessageSet
  <2>4. /\ UNCHANGED <<group, finishes, timer, toRequest>> /\ UNCHANGED workerVars
        /\ \/ /\ responses' = [responses EXCEPT ![m.job] = @ \cup {m.from}]
              /\ tracking' = [tracking EXCEPT ![g] = m]
              /\ bus' = [bus EXCEPT ![Requester] = busy]
           \/ /\ bus' = [bus EXCEPT ![Requester] = took]
              /\ UNCHANGED <<responses, tracking>>
    BY <1>4 DEF handleJobResponse
  <2> HIDE DEF m, took, busy
  <2>5. BusFits(bus') /\ LineKept(bus, bus')
    BY <1>0, <2>1, <2>2, <2>4, RequesterFits
  <2>6. RequesterOK'
    BY <1>0, <2>3, <2>4 DEF RequesterOK
  <2> QED BY <1>a, <2>4, <2>5, <2>6 DEF TypeInv
<1>5. ASSUME NEW g \in Goroutines, trackGroupResponse(g)
      PROVE  TypeInv' /\ LineKept(bus, bus') /\ UNCHANGED workerVars
  <2> DEFINE m == tracking[g]
             idle == [bus EXCEPT ![Requester] = [bus[Requester] EXCEPT ![g] = "idle"]]
  <2>1. BusFits(idle) /\ LineKept(bus, idle)
    BY <1>0, IdleFits, Sides
  <2>2. m \in MessageSet /\ m.job \in Job
    BY <1>0, <1>5 DEF trackGroupResponse, RequesterOK, MessageSet
  <2>3. tracking' \in [Goroutines -> MessageSet \cup {NoAnswer}]
    BY <1>0, <1>5 DEF trackGroupResponse, RequesterOK
  <2>4. idle = [bus EXCEPT ![Requester][g] = "idle"]
    BY <1>0, Sides DEF BusFits
  <2>5. /\ UNCHANGED <<responses, toRequest>> /\ UNCHANGED workerVars
        /\ \/ CancelGroup(idle, m.job)
           \/ /\ bus' = idle
              /\ \/ /\ group' = [group EXCEPT ![m.job] = "completed"]
                    /\ finishes' = [finishes EXCEPT ![m.job] = @ + 1]
                    /\ timer' = [timer EXCEPT ![m.job] = CancelTimeout(@)]
                 \/ UNCHANGED <<group, finishes, timer>>
    BY <1>5, <2>4 DEF trackGroupResponse
  <2> HIDE DEF m, idle
  <2>6. CASE CancelGroup(idle, m.job)
    <3>1. RequesterOK' /\ BusFits(bus') /\ LineKept(idle, bus')
      BY <1>0, <2>1, <2>2, <2>3, <2>5, <2>6, TypeCancel
    <3> QED BY <1>a, <2>1, <2>5, <3>1 DEF TypeInv, LineKept
  <2>7. CASE bus' = idle /\ \/ /\ group' = [group EXCEPT ![m.job] = "completed"]
                               /\ finishes' = [finishes EXCEPT ![m.job] = @ + 1]
                               /\ timer' = [timer EXCEPT ![m.job] = CancelTimeout(@)]
                            \/ UNCHANGED <<group, finishes, timer>>
    <3>1. RequesterOK'
      BY <1>0, <2>2, <2>3, <2>5, <2>7 DEF RequesterOK, CancelTimeout
    <3> QED BY <1>a, <2>1, <2>5, <2>7, <3>1 DEF TypeInv
  <2> QED BY <2>5, <2>6, <2>7
<1> QED BY <1>1, <1>2, <1>3, <1>4, <1>5

\* The three actions that touch a worker's data queues.
OthersKept(w, b, c) ==
    \A s \in Worker \ {w} : c[s].queue.data = b[s].queue.data /\ c[s].dataQueue = b[s].dataQueue

LEMMA TypeSendRequest ==
  ASSUME TypeInv, NEW j \in Job, NEW w \in Worker, SendRequest(j, w)
  PROVE  /\ TypeInv' /\ OthersKept(w, bus, bus')
         /\ bus'[w].queue.data = Append(bus[w].queue.data,
                                        Message("JobRequestMessage", j, Requester, "none"))
         /\ bus'[w].dataQueue = bus[w].dataQueue
<1> DEFINE m == Message("JobRequestMessage", j, Requester, "none")
           sub == Receive(bus[w], m)
<1>0. RequesterOK /\ WorkersOK /\ FewActive /\ BusFits(bus) /\ bus[w] \in SubFor(w) /\ w \in Subscribers
  BY Sides DEF TypeInv, BusFits
<1>1. m \in MessageFor(w) /\ ~isSystem(m)
  BY Requests
<1>2. bus' = [bus EXCEPT ![w] = sub]
  BY DEF SendRequest
<1> HIDE DEF m
<1>3. sub \in SubFor(w) /\ sub.dataQueue = bus[w].dataQueue /\ sub.queue.data = Append(bus[w].queue.data, m)
  BY <1>0, <1>1, ReceiveFits
<1> HIDE DEF sub
<1>4. BusFits(bus') /\ bus'[w] = sub /\ \A r \in Subscribers \ {w} : bus'[r] = bus[r]
  BY <1>0, <1>2, <1>3 DEF BusFits
<1>5. RequesterOK' /\ WorkersOK' /\ FewActive'
  <2>1. RequesterOK'
    BY <1>0 DEF SendRequest, RequesterOK
  <2>2. WorkersOK' /\ FewActive'
    BY <1>0 DEF SendRequest, workerVars, WorkersOK, FewActive
  <2> QED BY <2>1, <2>2
<1>6. OthersKept(w, bus, bus')
  BY <1>4, Sides DEF OthersKept
<1> QED BY <1>3, <1>4, <1>5, <1>6 DEF TypeInv, m

LEMMA TypePassData ==
  ASSUME TypeInv, NEW s \in Subscribers, PassData(s)
  PROVE  /\ TypeInv' /\ OthersKept(s, bus, bus') /\ UNCHANGED <<requesterVars, workerVars>>
         /\ bus[s].queue.data # <<>>
         /\ bus'[s].queue.data = Tail(bus[s].queue.data)
         /\ \/ bus'[s].dataQueue = Append(bus[s].dataQueue, Head(bus[s].queue.data))
            \/ bus'[s].dataQueue = bus[s].dataQueue
<1>0. RequesterOK /\ WorkersOK /\ FewActive /\ BusFits(bus) /\ bus[s] \in SubFor(s)
  BY DEF TypeInv, BusFits
<1>1. PICK sub \in {passData(bus[s]), dropData(bus[s])} : bus' = [bus EXCEPT ![s] = sub]
  BY DEF PassData
<1>2. dataNext(bus[s]) /\ UNCHANGED <<requesterVars, workerVars>>
  BY DEF PassData
<1>3. /\ sub \in SubFor(s) /\ sub.queue.data = Tail(bus[s].queue.data)
      /\ \/ sub.dataQueue = Append(bus[s].dataQueue, Head(bus[s].queue.data))
         \/ sub.dataQueue = bus[s].dataQueue
  BY <1>0, <1>1, <1>2, PassFits
<1>4. BusFits(bus') /\ bus'[s] = sub /\ \A r \in Subscribers \ {s} : bus'[r] = bus[r]
  BY <1>0, <1>1, <1>3 DEF BusFits
<1>5. RequesterOK' /\ WorkersOK' /\ FewActive'
  BY <1>0, <1>2 DEF requesterVars, workerVars, RequesterOK, WorkersOK, FewActive
<1>6. OthersKept(s, bus, bus')
  BY <1>4, Sides DEF OthersKept
<1>7. bus[s].queue.data # <<>>
  BY <1>2 DEF dataNext
<1> QED BY <1>2, <1>3, <1>4, <1>5, <1>6, <1>7 DEF TypeInv

LEMMA TypeHandleRequest ==
  ASSUME TypeInv, NEW w \in Worker, handleJobRequest(w)
  PROVE  /\ TypeInv' /\ OthersKept(w, bus, bus')
         /\ bus[w].dataQueue # <<>> /\ nextData(bus[w]).job \in Job
         /\ bus'[w].queue.data = bus[w].queue.data
         /\ bus'[w].dataQueue = Tail(bus[w].dataQueue)
<1> DEFINE j == nextData(bus[w]).job
           sub == takeData(bus[w])
<1>0. RequesterOK /\ WorkersOK /\ FewActive /\ BusFits(bus) /\ bus[w] \in SubFor(w) /\ w \in Subscribers
  BY Sides DEF TypeInv, BusFits
<1>1. bus' = [bus EXCEPT ![w] = sub] /\ dispatchNext(bus[w])
  BY DEF handleJobRequest
<1>2. /\ sub \in SubFor(w) /\ nextData(bus[w]) \in MessageFor(w)
      /\ sub.queue.data = bus[w].queue.data /\ sub.dataQueue = Tail(bus[w].dataQueue)
  BY <1>0, <1>1, TakeFits
<1> HIDE DEF sub
<1>3. BusFits(bus') /\ bus'[w] = sub /\ \A r \in Subscribers \ {w} : bus'[r] = bus[r]
  BY <1>0, <1>1, <1>2 DEF BusFits
<1>4. j \in Job /\ bus[w].dataQueue # <<>>
  BY <1>1, <1>2 DEF MessageFor, MessageSet, dispatchNext
<1>5. RequesterOK'
  BY <1>0 DEF handleJobRequest, requesterVars, RequesterOK
<1>6. /\ UNCHANGED <<canceled, answering, stopping, active, stopped, skipped>>
      /\ \/ /\ activeJobs' = [activeJobs EXCEPT ![w] = @ \cup {j}]
            /\ handler' = [handler EXCEPT ![w][j] = "waiting"]
            /\ wait' = [wait EXCEPT ![w][j] = sequential[w]]
            /\ sequential' = [sequential EXCEPT ![w] = j]
         \/ UNCHANGED <<activeJobs, handler, wait, sequential>>
  BY DEF handleJobRequest
<1> HIDE DEF j
<1>7. WorkersOK'
  <2>1. CASE UNCHANGED <<activeJobs, handler, wait, sequential>>
    BY <1>0, <1>6, <2>1 DEF WorkersOK
  <2>2. CASE /\ activeJobs' = [activeJobs EXCEPT ![w] = @ \cup {j}]
             /\ handler' = [handler EXCEPT ![w][j] = "waiting"]
             /\ wait' = [wait EXCEPT ![w][j] = sequential[w]]
             /\ sequential' = [sequential EXCEPT ![w] = j]
    BY <1>0, <1>4, <1>6, <2>2 DEF WorkersOK
  <2> QED BY <1>6, <2>1, <2>2
<1>8. FewActive'
  <2>1. IsFiniteSet(activeJobs[w] \cup {j})
    BY <1>0, FS_AddElement DEF FewActive
  <2>2. ASSUME NEW v \in Worker PROVE IsFiniteSet(activeJobs'[v])
    BY <1>0, <1>6, <2>1 DEF FewActive, WorkersOK
  <2> QED BY <2>2 DEF FewActive
<1>9. OthersKept(w, bus, bus')
  BY <1>3, Sides DEF OthersKept
<1> QED BY <1>2, <1>3, <1>4, <1>5, <1>7, <1>8, <1>9 DEF TypeInv, j

\* The rest of a worker's actions leave every line of requests as it is.
LEMMA TypeHandler ==
  ASSUME TypeInv, NEW w \in Worker, NEW j \in Job, HandlerStep(w, j)
  PROVE  TypeInv' /\ LineKept(bus, bus') /\ UNCHANGED <<requesterVars, wait, sequential>>
<1>0. RequesterOK /\ WorkersOK /\ FewActive /\ BusFits(bus)
  BY DEF TypeInv
<1>a. ASSUME UNCHANGED requesterVars PROVE RequesterOK'
  BY <1>0, <1>a DEF requesterVars, RequesterOK
<1>b. ASSUME UNCHANGED bus PROVE BusFits(bus') /\ LineKept(bus, bus')
  BY <1>0, <1>b DEF LineKept
<1>c. ASSUME UNCHANGED activeJobs PROVE FewActive'
  BY <1>0, <1>c DEF FewActive
<1>1. CASE runJobHandler(w, j)
  <2>1. WorkersOK'
    BY <1>0, <1>1 DEF runJobHandler, WorkersOK
  <2> QED BY <1>1, <1>a, <1>b, <1>c, <2>1 DEF runJobHandler, TypeInv
<1>2. CASE CalledOffWaiting(w, j)
  <2>1. WorkersOK'
    BY <1>0, <1>2 DEF CalledOffWaiting, WorkersOK
  <2> QED BY <1>2, <1>a, <1>b, <1>c, <2>1 DEF CalledOffWaiting, TypeInv
<1>3. CASE forgetActiveJob(w, j)
  <2>1. WorkersOK'
    BY <1>0, <1>3 DEF forgetActiveJob, WorkersOK
  <2>2. IsFiniteSet(activeJobs[w] \ {j})
    BY <1>0, FS_RemoveElement DEF FewActive
  <2>3. FewActive'
    BY <1>0, <1>3, <2>2 DEF forgetActiveJob, FewActive, WorkersOK
  <2> QED BY <1>3, <1>a, <1>b, <2>1, <2>3 DEF forgetActiveJob, TypeInv
<1>4. CASE HandlerReturns(w, j)
  <2>1. WorkersOK'
    BY <1>0, <1>4 DEF HandlerReturns, WorkersOK
  <2> QED BY <1>4, <1>a, <1>b, <1>c, <2>1 DEF HandlerReturns, TypeInv
<1>5. ASSUME NEW a \in Answers, SendJobResponse(w, j, a[1], a[2])
      PROVE  TypeInv' /\ LineKept(bus, bus') /\ UNCHANGED <<requesterVars, wait, sequential>>
  <2>1. WorkersOK'
    BY <1>0, <1>5 DEF SendJobResponse, WorkersOK
  <2>2. /\ a[1] \in {"JobResponseMessage", "JobResponseUrgentMessage"}
        /\ a[2] \in {"completed", "error", "cancelled"}
    BY DEF Answers
  <2>3. bus' = Answer(bus, w, j, a[1], a[2])
    BY <1>5 DEF SendJobResponse
  <2>4. BusFits(bus') /\ LineKept(bus, bus')
    BY <1>0, <2>2, <2>3, AnswerFits
  <2> QED BY <1>5, <1>a, <1>c, <2>1, <2>4 DEF SendJobResponse, TypeInv
<1> QED BY <1>1, <1>2, <1>3, <1>4, <1>5 DEF HandlerStep

LEMMA TypeWorker ==
  ASSUME TypeInv, NEW w \in Worker,
         handleJobCancel(w) \/ CancelAnswers(w) \/ Stop(w) \/ handleWorkerDeactivate(w)
  PROVE  /\ TypeInv' /\ LineKept(bus, bus')
         /\ UNCHANGED <<requesterVars, handler, wait, sequential, skipped>>
<1>0. RequesterOK /\ WorkersOK /\ FewActive /\ BusFits(bus) /\ w \in Subscribers /\ bus[w] \in SubFor(w)
  BY Sides DEF TypeInv, BusFits
<1>a. ASSUME UNCHANGED requesterVars PROVE RequesterOK'
  BY <1>0, <1>a DEF requesterVars, RequesterOK
<1>1. CASE handleJobCancel(w)
  <2> DEFINE m == nextSystem(bus[w])
             took == takeSystem(bus[w])
             busy == [took EXCEPT !.route = "busy"]
  <2>1. /\ m \in MessageFor(w) /\ took \in SubFor(w)
        /\ took.queue.data = bus[w].queue.data /\ took.dataQueue = bus[w].dataQueue
    BY <1>0, <1>1, TakeFits DEF handleJobCancel
  <2>2. m.job \in Job
    BY <2>1 DEF MessageFor, MessageSet
  <2>3. busy \in SubFor(w) /\ busy.queue = took.queue /\ busy.dataQueue = took.dataQueue
    BY <1>0, <2>1, PcFits, Sides DEF GoPcs
  <2>4. /\ UNCHANGED <<activeJobs, handler, wait, sequential, answering, active, stopped, skipped>>
        /\ UNCHANGED requesterVars
        /\ \/ /\ bus' = [bus EXCEPT ![w] = busy]
              /\ stopping' = [stopping EXCEPT ![w] = m.job]
              /\ canceled' = [canceled EXCEPT ![w] = @ \cup {m.job}]
           \/ bus' = [bus EXCEPT ![w] = took] /\ UNCHANGED <<stopping, canceled>>
    BY <1>1 DEF handleJobCancel
  <2> HIDE DEF m, took, busy
  <2>5. WorkersOK' /\ FewActive'
    <3>0. m.job \in Job /\ canceled[w] \cup {m.job} \in SUBSET Job
      BY <1>0, <2>2 DEF WorkersOK
    <3>1. canceled' \in [Worker -> SUBSET Job]
      BY <1>0, <2>4, <3>0 DEF WorkersOK
    <3>2. stopping' \in [Worker -> Job \cup {NoJob}]
      BY <1>0, <2>4, <3>0 DEF WorkersOK
    <3> QED BY <1>0, <2>4, <3>1, <3>2 DEF WorkersOK, FewActive
  <2>6. PICK sub \in {took, busy} : bus' = [bus EXCEPT ![w] = sub]
    BY <2>4
  <2>7. /\ sub \in SubFor(w) /\ sub.queue.data = bus[w].queue.data
        /\ sub.dataQueue = bus[w].dataQueue
    BY <2>1, <2>3
  <2>8. BusFits(bus') /\ bus'[w] = sub /\ \A r \in Subscribers \ {w} : bus'[r] = bus[r]
    BY <1>0, <2>6, <2>7 DEF BusFits
  <2>9. LineKept(bus, bus')
    BY <2>7, <2>8, Sides DEF LineKept
  <2> QED BY <1>a, <2>4, <2>5, <2>8, <2>9 DEF TypeInv
<1>2. CASE CancelAnswers(w)
  <2> DEFINE j == stopping[w]
             idle == [bus EXCEPT ![w] = [bus[w] EXCEPT !["route"] = "idle"]]
  <2>1. BusFits(idle) /\ LineKept(bus, idle)
    BY <1>0, IdleFits, Sides
  <2>2. idle = [bus EXCEPT ![w].route = "idle"]
    BY <1>0 DEF BusFits
  <2>3. j \in Job
    BY <1>0, <1>2 DEF CancelAnswers, mayAnswer, WorkersOK
  <2>4. /\ stopping' = [stopping EXCEPT ![w] = NoJob]
        /\ activeJobs' = [activeJobs EXCEPT ![w] = @ \ {j}]
        /\ UNCHANGED <<handler, canceled, wait, sequential, answering, active, stopped, skipped>>
        /\ UNCHANGED requesterVars
        /\ bus' = IF j \in activeJobs[w]
                  THEN Answer(idle, w, j, "JobResponseMessage", "cancelled") ELSE idle
    BY <1>2, <2>2 DEF CancelAnswers
  <2> HIDE DEF j, idle
  <2>5. WorkersOK'
    BY <1>0, <2>3, <2>4 DEF WorkersOK
  <2>6. IsFiniteSet(activeJobs[w] \ {j})
    BY <1>0, FS_RemoveElement DEF FewActive
  <2>7. FewActive'
    BY <1>0, <2>4, <2>6 DEF FewActive, WorkersOK
  <2>8. CASE j \in activeJobs[w]
    <3> DEFINE ans == Answer(idle, w, j, "JobResponseMessage", "cancelled")
    <3>1. BusFits(ans) /\ LineKept(idle, ans)
      BY <2>1, <2>3, AnswerFits
    <3>2. bus' = ans
      BY <2>4, <2>8
    <3> HIDE DEF ans
    <3> QED BY <1>a, <2>1, <2>4, <2>5, <2>7, <3>1, <3>2 DEF TypeInv, LineKept
  <2>9. CASE j \notin activeJobs[w]
    BY <1>a, <2>1, <2>4, <2>5, <2>7, <2>9 DEF TypeInv
  <2> QED BY <2>8, <2>9
<1>3. CASE Stop(w)
  <2>1. PICK o \in Orders(activeJobs[w]) :
          bus' = [bus EXCEPT ![Requester] = ReceiveData(@,
                    [i \in DOMAIN o |-> Message("JobResponseMessage", o[i], w, "cancelled")])]
    BY <1>3 DEF Stop
  <2> DEFINE n == Cardinality(activeJobs[w])
             ms == [i \in DOMAIN o |-> Message("JobResponseMessage", o[i], w, "cancelled")]
             sub == ReceiveData(bus[Requester], ms)
  <2>2. n \in Nat /\ activeJobs[w] \subseteq Job
    BY <1>0, FS_CardinalityType DEF FewActive, WorkersOK
  <2>3. o \in [1..n -> activeJobs[w]]
    BY <2>1 DEF Orders
  <2>4. DOMAIN o = 1..n
    BY <2>3
  <2>5. \A i \in 1..n : Message("JobResponseMessage", o[i], w, "cancelled") \in MessageFor(Requester)
    BY <2>2, <2>3, Responses
  <2>6. ms \in [1..n -> MessageFor(Requester)]
    BY <2>4, <2>5
  <2>7. ms \in Seq(MessageFor(Requester))
    BY <2>2, <2>6
  <2>8. bus[Requester] \in SubFor(Requester) /\ bus' = [bus EXCEPT ![Requester] = sub]
    BY <1>0, <2>1, Sides DEF BusFits
  <2> HIDE DEF ms
  <2>9. sub \in SubFor(Requester)
    BY <2>7, <2>8, ReceiveDataFits, Sides
  <2> HIDE DEF sub
  <2>10. BusFits(bus') /\ LineKept(bus, bus')
    BY <1>0, <2>8, <2>9, RequesterFits
  <2>11. WorkersOK'
    BY <1>0, <1>3 DEF Stop, WorkersOK
  <2>12. FewActive'
    BY <1>0, <1>3, FS_EmptySet DEF Stop, FewActive, WorkersOK
  <2> QED BY <1>3, <1>a, <2>10, <2>11, <2>12 DEF Stop, TypeInv
<1>4. CASE handleWorkerDeactivate(w)
  <2>1. WorkersOK' /\ FewActive'
    BY <1>0, <1>4 DEF handleWorkerDeactivate, WorkersOK, FewActive
  <2>2. BusFits(bus') /\ LineKept(bus, bus')
    BY <1>0, <1>4 DEF handleWorkerDeactivate, LineKept
  <2> QED BY <1>4, <1>a, <2>1, <2>2 DEF handleWorkerDeactivate, TypeInv
<1> QED BY <1>1, <1>2, <1>3, <1>4

LEMMA TypeNext == TypeInv /\ [Next]_vars => TypeInv'
<1> SUFFICES ASSUME TypeInv, [Next]_vars PROVE TypeInv'
  OBVIOUS
<1>1. CASE RequesterStep
  <2>1. ASSUME NEW j \in Job, NEW w \in Worker, SendRequest(j, w) PROVE TypeInv'
    BY <2>1, TypeSendRequest
  <2> QED BY <1>1, <2>1, TypeRequester DEF RequesterStep
<1>2. ASSUME NEW w \in Worker, WorkerStep(w) PROVE TypeInv'
  BY <1>2, TypeHandleRequest, TypeWorker DEF WorkerStep
<1>3. ASSUME NEW w \in Worker, NEW j \in Job, HandlerStep(w, j) PROVE TypeInv'
  BY <1>3, TypeHandler
<1>4. ASSUME NEW s \in Worker \cup {Requester}, PassData(s) PROVE TypeInv'
  BY <1>4, TypePassData DEF Subscribers
<1>5. CASE UNCHANGED vars
  <2>1. UNCHANGED <<bus, requesterVars, workerVars>>
    BY <1>5 DEF vars
  <2> QED BY <2>1 DEF TypeInv, requesterVars, workerVars, RequesterOK, WorkersOK, FewActive
<1> QED BY <1>1, <1>2, <1>3, <1>4, <1>5 DEF Next

\* The state keeps its shape whatever races: a worker is never handed an answer
\* nor the requester a request, for any workers and any jobs.
THEOREM TypeCorrect == Spec => []TypeOK
<1>1. Init => TypeInv
  BY TypeInit
<1>2. TypeInv => TypeOK
  BY InvTypes
<1> QED BY <1>1, <1>2, TypeNext, PTL DEF Spec

(***************************************************************************)
(* A group is finished once: finishing it takes it out of the map, under   *)
(* one lock, so how often it was finished can be read off what it is.      *)
(***************************************************************************)
CountFits(j) == finishes[j] = IF group[j] \in {"completed", "failed"} THEN 1 ELSE 0
Counted == \A j \in Job : CountFits(j)

LEMMA CountedNext == TypeInv /\ Counted /\ [Next]_vars => Counted'
<1> SUFFICES ASSUME TypeInv, Counted, [Next]_vars PROVE Counted'
  OBVIOUS
<1>0. RequesterOK
  BY DEF TypeInv
<1>a. ASSUME UNCHANGED <<group, finishes>> PROVE Counted'
  BY <1>a DEF Counted, CountFits
<1>b. ASSUME NEW j \in Job, NEW b, CancelGroup(b, j) PROVE Counted'
  BY <1>0, <1>b DEF CancelGroup, Counted, CountFits, RequesterOK
<1>1. ASSUME NEW j \in Job, createGroup(j) PROVE Counted'
  BY <1>0, <1>1 DEF createGroup, Counted, CountFits, RequesterOK
<1>2. ASSUME NEW j \in Job, TimerFires(j) PROVE Counted'
  BY <1>2, <1>a DEF TimerFires
<1>3. ASSUME NEW j \in Job, TimerCancels(j) \/ cancelGroup(j) PROVE Counted'
  BY <1>3, <1>b DEF TimerCancels, cancelGroup
<1>4. ASSUME NEW g \in Goroutines, handleJobResponse(g) PROVE Counted'
  BY <1>4, <1>a DEF handleJobResponse
<1>5. ASSUME NEW g \in Goroutines, trackGroupResponse(g) PROVE Counted'
  <2> DEFINE j == tracking[g].job
  <2>1. j \in Job
    BY <1>0, <1>5 DEF trackGroupResponse, RequesterOK, MessageSet
  <2>2. \/ \E b : CancelGroup(b, j)
        \/ /\ completes(j)
           /\ group' = [group EXCEPT ![j] = "completed"]
           /\ finishes' = [finishes EXCEPT ![j] = @ + 1]
        \/ UNCHANGED <<group, finishes>>
    BY <1>5 DEF trackGroupResponse
  <2> HIDE DEF j
  <2>3. CASE /\ completes(j)
             /\ group' = [group EXCEPT ![j] = "completed"]
             /\ finishes' = [finishes EXCEPT ![j] = @ + 1]
    BY <1>0, <2>1, <2>3 DEF completes, Counted, CountFits, RequesterOK
  <2> QED BY <1>a, <1>b, <2>1, <2>2, <2>3
<1>6. ASSUME NEW j \in Job, NEW w \in Worker, SendRequest(j, w) PROVE Counted'
  BY <1>6, <1>a DEF SendRequest
<1>7. CASE RequesterStep
  BY <1>1, <1>2, <1>3, <1>4, <1>5, <1>6, <1>7 DEF RequesterStep
<1>8. ASSUME UNCHANGED requesterVars PROVE Counted'
  BY <1>8, <1>a DEF requesterVars
<1>9. ASSUME NEW w \in Worker, WorkerStep(w) PROVE UNCHANGED requesterVars
  <2>1. CASE handleJobRequest(w)
    BY <2>1 DEF handleJobRequest
  <2> QED BY <1>9, <2>1, TypeWorker DEF WorkerStep
<1>10. ASSUME NEW w \in Worker, NEW j \in Job, HandlerStep(w, j) PROVE UNCHANGED requesterVars
  BY <1>10, TypeHandler
<1>11. ASSUME NEW s \in Worker \cup {Requester}, PassData(s) PROVE UNCHANGED requesterVars
  BY <1>11 DEF PassData
<1>12. CASE UNCHANGED vars
  BY <1>8, <1>12 DEF vars
<1> QED BY <1>7, <1>8, <1>9, <1>10, <1>11, <1>12 DEF Next

\* A group is finished once, however its last answers, an error, its timeout and
\* the caller race (trackGroupResponse, CancelGroup and the timeout goroutine).
THEOREM FinishedOnceHolds == Spec => []FinishedOnce
<1>1. Init => Counted
  BY DEF Init, Counted, CountFits
<1>2. Counted => FinishedOnce
  BY DEF Counted, CountFits, FinishedOnce
<1>3. Init => TypeInv
  BY TypeInit
<1> QED BY <1>1, <1>2, <1>3, TypeNext, CountedNext, PTL DEF Spec

(***************************************************************************)
(* A worker is asked for a job once: the requests on their way to it, in   *)
(* either of its queues, are for different jobs, none of which it has a    *)
(* handler for and none of which is still to be sent.                      *)
(***************************************************************************)
Distinct(s) == \A i, k \in 1..Len(s) : s[i].job = s[k].job => i = k
JobsIn(s) == {s[i].job : i \in 1..Len(s)}

LEMMA LineAppend ==
  ASSUME NEW S, NEW s \in Seq(S), NEW m \in S, m.job \notin JobsIn(s), Distinct(s)
  PROVE  Distinct(Append(s, m)) /\ JobsIn(Append(s, m)) = JobsIn(s) \cup {m.job}
<1> DEFINE t == Append(s, m)
<1>1. /\ Len(t) = Len(s) + 1 /\ Len(s) \in Nat
      /\ \A i \in 1..Len(s) : t[i] = s[i]
      /\ t[Len(s) + 1] = m
  BY AppendProperties, LenProperties
<1> HIDE DEF t
<1>2. \A i \in 1..Len(t) : i \in 1..Len(s) \/ i = Len(s) + 1
  BY <1>1
<1>3. \A i \in 1..Len(s) : s[i].job # m.job
  BY DEF JobsIn
<1>4. Distinct(t)
  BY <1>1, <1>2, <1>3 DEF Distinct
<1>5. JobsIn(t) = JobsIn(s) \cup {m.job}
  BY <1>1, <1>2 DEF JobsIn
<1> QED BY <1>4, <1>5 DEF t

LEMMA LineTail ==
  ASSUME NEW S, NEW s \in Seq(S), s # <<>>, Distinct(s)
  PROVE  /\ Distinct(Tail(s)) /\ JobsIn(Tail(s)) = JobsIn(s) \ {Head(s).job}
         /\ Head(s).job \in JobsIn(s)
<1> DEFINE t == Tail(s)
<1>1. /\ Len(t) = Len(s) - 1 /\ Len(s) \in Nat /\ Len(s) > 0
      /\ \A i \in 1..Len(t) : t[i] = s[i + 1]
      /\ Head(s) = s[1]
  BY HeadTailProperties, LenProperties, EmptySeq
<1> HIDE DEF t
<1>2. Distinct(t)
  BY <1>1 DEF Distinct
<1>3. JobsIn(s) \ {s[1].job} \subseteq JobsIn(t)
  <2> SUFFICES ASSUME NEW i \in 1..Len(s), s[i].job # s[1].job
               PROVE  s[i].job \in JobsIn(t)
    BY DEF JobsIn
  <2>1. i - 1 \in 1..Len(t) /\ t[i - 1] = s[i]
    BY <1>1
  <2> QED BY <2>1 DEF JobsIn
<1>4. JobsIn(t) \subseteq JobsIn(s) \ {s[1].job}
  <2> SUFFICES ASSUME NEW i \in 1..Len(t)
               PROVE  t[i].job \in JobsIn(s) /\ t[i].job # s[1].job
    BY DEF JobsIn
  <2>1. i + 1 \in 1..Len(s) /\ t[i] = s[i + 1] /\ 1 \in 1..Len(s) /\ i + 1 # 1
    BY <1>1
  <2> QED BY <2>1 DEF JobsIn, Distinct
<1>5. Head(s).job \in JobsIn(s)
  BY <1>1 DEF JobsIn
<1> QED BY <1>1, <1>2, <1>3, <1>4, <1>5 DEF t

Line(w) ==
    LET d == bus[w].queue.data
        q == bus[w].dataQueue
    IN  /\ Distinct(d) /\ Distinct(q) /\ JobsIn(d) \cap JobsIn(q) = {}
        /\ \A j \in JobsIn(d) \cup JobsIn(q) :
             handler[w][j] = "none" /\ w \notin toRequest[j] /\ group[j] # "none"
Unasked(w, j) ==
    /\ w \in toRequest[j] => handler[w][j] = "none"
    /\ group[j] = "none" => w \notin toRequest[j] /\ handler[w][j] = "none"
AskedOnce == \A w \in Worker : Line(w) /\ \A j \in Job : Unasked(w, j)

\* What is in a line.
LEMMA LineTypes ==
  ASSUME BusFits(bus), NEW w \in Worker
  PROVE  /\ bus[w].queue.data \in Seq(MessageFor(w)) /\ bus[w].dataQueue \in Seq(MessageFor(w))
         /\ JobsIn(bus[w].queue.data) \subseteq Job /\ JobsIn(bus[w].dataQueue) \subseteq Job
<1>1. bus[w].queue.data \in Seq(MessageFor(w)) /\ bus[w].dataQueue \in Seq(MessageFor(w))
  BY Sides DEF BusFits, SubFor
<1>2. \A m \in MessageFor(w) : m.job \in Job
  BY DEF MessageFor, MessageSet
<1>3. \A s \in Seq(MessageFor(w)) : \A i \in 1..Len(s) : s[i] \in MessageFor(w)
  BY ElementOfSeq
<1>4. \A s \in Seq(MessageFor(w)) : JobsIn(s) \subseteq Job
  BY <1>2, <1>3 DEF JobsIn
<1> QED BY <1>1, <1>4

LEMMA AskedKept ==
  ASSUME BusFits(bus), AskedOnce, LineKept(bus, bus'), UNCHANGED toRequest,
         \A w \in Worker, j \in Job : handler'[w][j] = "none" <=> handler[w][j] = "none",
         \A j \in Job : group'[j] = "none" <=> group[j] = "none"
  PROVE  AskedOnce'
<1> SUFFICES ASSUME NEW w \in Worker
             PROVE  Line(w)' /\ \A j \in Job : Unasked(w, j)'
  BY DEF AskedOnce
<1>1. Line(w) /\ \A j \in Job : Unasked(w, j)
  BY DEF AskedOnce
<1>2. bus'[w].queue.data = bus[w].queue.data /\ bus'[w].dataQueue = bus[w].dataQueue
  BY DEF LineKept
<1>3. JobsIn(bus[w].queue.data) \cup JobsIn(bus[w].dataQueue) \subseteq Job
  BY LineTypes
<1>4. Line(w)'
  BY <1>1, <1>2, <1>3 DEF Line
<1>5. \A j \in Job : Unasked(w, j)'
  BY <1>1 DEF Unasked
<1> QED BY <1>4, <1>5

LEMMA AskedCreate ==
  ASSUME TypeInv, AskedOnce, NEW j \in Job, createGroup(j)
  PROVE  AskedOnce'
<1> SUFFICES ASSUME NEW w \in Worker
             PROVE  Line(w)' /\ \A k \in Job : Unasked(w, k)'
  BY DEF AskedOnce
<1>0. RequesterOK /\ BusFits(bus)
  BY DEF TypeInv
<1>1. Line(w) /\ \A k \in Job : Unasked(w, k)
  BY DEF AskedOnce
<1>2. JobsIn(bus[w].queue.data) \cup JobsIn(bus[w].dataQueue) \subseteq Job
  BY <1>0, LineTypes
<1>3. /\ UNCHANGED <<bus, handler>> /\ group[j] = "none"
      /\ \A k \in Job \ {j} : group'[k] = group[k] /\ toRequest'[k] = toRequest[k]
      /\ group'[j] = "open"
  BY <1>0 DEF createGroup, workerVars, RequesterOK
<1>4. Line(w)'
  BY <1>1, <1>2, <1>3 DEF Line
<1>5. ASSUME NEW k \in Job PROVE Unasked(w, k)'
  <2>1. CASE k = j
    BY <1>1, <1>3, <2>1 DEF Unasked
  <2>2. CASE k # j
    BY <1>1, <1>3, <2>2 DEF Unasked
  <2> QED BY <2>1, <2>2
<1> QED BY <1>4, <1>5

LEMMA AskedSend ==
  ASSUME TypeInv, AskedOnce, NEW j \in Job, NEW v \in Worker, SendRequest(j, v)
  PROVE  AskedOnce'
<1> SUFFICES ASSUME NEW w \in Worker
             PROVE  Line(w)' /\ \A k \in Job : Unasked(w, k)'
  BY DEF AskedOnce
<1> DEFINE m == Message("JobRequestMessage", j, Requester, "none")
<1>0. RequesterOK /\ BusFits(bus) /\ m \in MessageFor(v) /\ m.job = j
  BY Requests DEF TypeInv
<1>1. Line(w) /\ \A k \in Job : Unasked(w, k)
  BY DEF AskedOnce
<1>2. /\ bus[w].queue.data \in Seq(MessageFor(w))
      /\ JobsIn(bus[w].queue.data) \cup JobsIn(bus[w].dataQueue) \subseteq Job
  BY <1>0, LineTypes
<1>3. /\ UNCHANGED <<handler, group>> /\ v \in toRequest[j]
      /\ \A k \in Job \ {j} : toRequest'[k] = toRequest[k]
      /\ toRequest'[j] = toRequest[j] \ {v}
  BY <1>0 DEF SendRequest, workerVars, RequesterOK
<1>4. /\ OthersKept(v, bus, bus') /\ bus'[v].queue.data = Append(bus[v].queue.data, m)
      /\ bus'[v].dataQueue = bus[v].dataQueue
  BY TypeSendRequest
<1> HIDE DEF m
<1>5. CASE w = v
  <2>1. j \notin JobsIn(bus[w].queue.data) \cup JobsIn(bus[w].dataQueue)
    BY <1>1, <1>3, <1>5 DEF Line
  <2>2. handler[w][j] = "none" /\ group[j] # "none"
    BY <1>1, <1>3, <1>5 DEF Unasked
  <2>3. /\ Distinct(Append(bus[w].queue.data, m))
        /\ JobsIn(Append(bus[w].queue.data, m)) = JobsIn(bus[w].queue.data) \cup {j}
    BY <1>0, <1>1, <1>2, <1>5, <2>1, LineAppend DEF Line
  <2>4. Line(w)'
    BY <1>1, <1>2, <1>3, <1>4, <1>5, <2>1, <2>2, <2>3 DEF Line
  <2> QED BY <1>1, <1>3, <2>4 DEF Unasked
<1>6. CASE w # v
  <2>1. bus'[w].queue.data = bus[w].queue.data /\ bus'[w].dataQueue = bus[w].dataQueue
    BY <1>4, <1>6 DEF OthersKept
  <2>2. \A k \in Job : w \in toRequest'[k] <=> w \in toRequest[k]
    BY <1>3, <1>6
  <2>3. Line(w)'
    BY <1>1, <1>2, <1>3, <2>1, <2>2 DEF Line
  <2> QED BY <1>1, <1>3, <2>2, <2>3 DEF Unasked
<1> QED BY <1>5, <1>6

LEMMA AskedPass ==
  ASSUME TypeInv, AskedOnce, NEW s \in Subscribers, PassData(s)
  PROVE  AskedOnce'
<1> SUFFICES ASSUME NEW w \in Worker
             PROVE  Line(w)' /\ \A k \in Job : Unasked(w, k)'
  BY DEF AskedOnce
<1>0. BusFits(bus)
  BY DEF TypeInv
<1>1. Line(w) /\ \A k \in Job : Unasked(w, k)
  BY DEF AskedOnce
<1>2. bus[w].queue.data \in Seq(MessageFor(w)) /\ bus[w].dataQueue \in Seq(MessageFor(w))
  BY <1>0, LineTypes
<1>3. /\ OthersKept(s, bus, bus') /\ bus[s].queue.data # <<>>
      /\ bus'[s].queue.data = Tail(bus[s].queue.data)
      /\ \/ bus'[s].dataQueue = Append(bus[s].dataQueue, Head(bus[s].queue.data))
         \/ bus'[s].dataQueue = bus[s].dataQueue
  BY TypePassData
<1>4. UNCHANGED <<handler, group, toRequest>>
  BY DEF PassData, requesterVars, workerVars
<1>5. CASE w = s
  <2> DEFINE d == bus[w].queue.data
             q == bus[w].dataQueue
             j == Head(d).job
  <2>1. /\ Distinct(d) /\ Distinct(q) /\ JobsIn(d) \cap JobsIn(q) = {}
        /\ \A k \in JobsIn(d) \cup JobsIn(q) :
             handler[w][k] = "none" /\ w \notin toRequest[k] /\ group[k] # "none"
    BY <1>1 DEF Line
  <2>2. d \in Seq(MessageFor(w)) /\ q \in Seq(MessageFor(w)) /\ d # <<>> /\ Head(d) \in MessageFor(w)
    BY <1>2, <1>3, <1>5, HeadTailProperties
  <2>3. bus'[w].queue.data = Tail(d) /\ bus'[w].dataQueue \in {Append(q, Head(d)), q}
    BY <1>3, <1>5
  <2> HIDE DEF d, q
  <2>4. Distinct(Tail(d)) /\ JobsIn(Tail(d)) = JobsIn(d) \ {j} /\ j \in JobsIn(d)
    BY <2>1, <2>2, LineTail
  <2>5. Distinct(Append(q, Head(d))) /\ JobsIn(Append(q, Head(d))) = JobsIn(q) \cup {j}
    BY <2>1, <2>2, <2>4, LineAppend
  <2>6. Line(w)'
    <3> SUFFICES /\ Distinct(Tail(d)) /\ Distinct(bus'[w].dataQueue)
                 /\ JobsIn(Tail(d)) \cap JobsIn(bus'[w].dataQueue) = {}
                 /\ \A k \in JobsIn(Tail(d)) \cup JobsIn(bus'[w].dataQueue) :
                      handler[w][k] = "none" /\ w \notin toRequest[k] /\ group[k] # "none"
      BY <1>4, <2>3 DEF Line
    <3>1. CASE bus'[w].dataQueue = q
      BY <2>1, <2>4, <3>1
    <3>2. CASE bus'[w].dataQueue = Append(q, Head(d))
      BY <2>1, <2>4, <2>5, <3>2
    <3> QED BY <2>3, <3>1, <3>2
  <2> QED BY <1>1, <1>4, <2>6 DEF Unasked
<1>6. CASE w # s
  BY <1>1, <1>3, <1>4, <1>6 DEF Line, OthersKept, Unasked
<1> QED BY <1>5, <1>6

\* A request that is handled is for a job the worker has no handler for.
LEMMA AskedHandle ==
  ASSUME TypeInv, AskedOnce, NEW v \in Worker, handleJobRequest(v)
  PROVE  AskedOnce' /\ handler[v][nextData(bus[v]).job] = "none"
<1> DEFINE j == nextData(bus[v]).job
<1>0. RequesterOK /\ WorkersOK /\ BusFits(bus)
  BY DEF TypeInv
<1>1. /\ OthersKept(v, bus, bus') /\ bus[v].dataQueue # <<>> /\ j \in Job
      /\ bus'[v].queue.data = bus[v].queue.data
      /\ bus'[v].dataQueue = Tail(bus[v].dataQueue)
  BY TypeHandleRequest
<1>2. bus[v].dataQueue \in Seq(MessageFor(v))
  BY <1>0, LineTypes
<1>3. \A w \in Worker : Line(w) /\ \A k \in Job : Unasked(w, k)
  BY DEF AskedOnce
<1>4. /\ Distinct(Tail(bus[v].dataQueue)) /\ j \in JobsIn(bus[v].dataQueue)
      /\ JobsIn(Tail(bus[v].dataQueue)) = JobsIn(bus[v].dataQueue) \ {j}
  BY <1>1, <1>2, <1>3, LineTail DEF Line, nextData
<1>5. handler[v][j] = "none" /\ v \notin toRequest[j] /\ group[j] # "none"
  BY <1>3, <1>4 DEF Line
<1>6. /\ UNCHANGED <<group, toRequest>>
      /\ \A k \in Job \ {j} : handler'[v][k] = handler[v][k]
      /\ \A w \in Worker \ {v} : handler'[w] = handler[w]
  BY <1>0, <1>1 DEF handleJobRequest, requesterVars, WorkersOK
<1> HIDE DEF j
<1>7. ASSUME NEW w \in Worker PROVE Line(w)' /\ \A k \in Job : Unasked(w, k)'
  <2>0. /\ JobsIn(bus[w].queue.data) \subseteq Job /\ JobsIn(bus[w].dataQueue) \subseteq Job
        /\ Line(w) /\ \A k \in Job : Unasked(w, k)
    BY <1>0, <1>3, LineTypes
  <2>1. CASE w = v
    <3>1. j \notin JobsIn(bus[w].queue.data)
      BY <1>4, <2>0, <2>1 DEF Line
    <3>2. Line(w)'
      BY <1>1, <1>4, <1>6, <2>0, <2>1, <3>1 DEF Line
    <3>3. \A k \in Job : Unasked(w, k)'
      BY <1>5, <1>6, <2>0, <2>1 DEF Unasked
    <3> QED BY <3>2, <3>3
  <2>2. CASE w # v
    BY <1>1, <1>6, <2>0, <2>2 DEF Line, OthersKept, Unasked
  <2> QED BY <2>1, <2>2
<1> QED BY <1>5, <1>7 DEF AskedOnce, j

LEMMA AskedNext == TypeInv /\ AskedOnce /\ [Next]_vars => AskedOnce'
<1> SUFFICES ASSUME TypeInv, AskedOnce, [Next]_vars PROVE AskedOnce'
  OBVIOUS
<1>0. BusFits(bus) /\ RequesterOK /\ WorkersOK
  BY DEF TypeInv
<1>a. ASSUME LineKept(bus, bus'), UNCHANGED requesterVars,
             \A w \in Worker, j \in Job : handler'[w][j] = "none" <=> handler[w][j] = "none"
      PROVE  AskedOnce'
  BY <1>0, <1>a, AskedKept DEF requesterVars
<1>b. ASSUME LineKept(bus, bus'), UNCHANGED <<workerVars, toRequest>>,
             \A j \in Job : group'[j] = "none" <=> group[j] = "none"
      PROVE  AskedOnce'
  BY <1>0, <1>b, AskedKept DEF workerVars
<1>c. ASSUME NEW j \in Job, NEW b, CancelGroup(b, j)
      PROVE  \A k \in Job : group'[k] = "none" <=> group[k] = "none"
  BY <1>0, <1>c DEF CancelGroup, RequesterOK
<1>1. ASSUME NEW j \in Job, TimerFires(j) \/ TimerCancels(j) \/ cancelGroup(j) PROVE AskedOnce'
  <2>1. LineKept(bus, bus') /\ UNCHANGED workerVars
    BY <1>1, TypeRequester
  <2>2. UNCHANGED toRequest /\ (UNCHANGED group \/ CancelGroup(bus, j))
    BY <1>1 DEF TimerFires, TimerCancels, cancelGroup
  <2>3. \A k \in Job : group'[k] = "none" <=> group[k] = "none"
    BY <1>c, <2>2
  <2> QED BY <1>b, <2>1, <2>2, <2>3
<1>2. ASSUME NEW g \in Goroutines, handleJobResponse(g) \/ trackGroupResponse(g) PROVE AskedOnce'
  <2>1. LineKept(bus, bus') /\ UNCHANGED workerVars
    BY <1>2, TypeRequester
  <2>2. CASE handleJobResponse(g)
    BY <1>b, <2>1, <2>2 DEF handleJobResponse
  <2>3. CASE trackGroupResponse(g)
    <3> DEFINE j == tracking[g].job
    <3>1. j \in Job
      BY <1>0, <2>3 DEF trackGroupResponse, RequesterOK, MessageSet
    <3>2. /\ UNCHANGED toRequest
          /\ \/ \E b : CancelGroup(b, j)
             \/ group[j] = "open" /\ group' = [group EXCEPT ![j] = "completed"]
             \/ UNCHANGED group
      BY <2>3 DEF trackGroupResponse, completes
    <3> HIDE DEF j
    <3>3. \A k \in Job : group'[k] = "none" <=> group[k] = "none"
      BY <1>0, <1>c, <3>1, <3>2 DEF RequesterOK
    <3> QED BY <1>b, <2>1, <3>2, <3>3
  <2> QED BY <1>2, <2>2, <2>3
<1>3. CASE RequesterStep
  BY <1>1, <1>2, <1>3, AskedCreate, AskedSend DEF RequesterStep
<1>4. ASSUME NEW w \in Worker, WorkerStep(w) PROVE AskedOnce'
  <2>1. CASE handleJobRequest(w)
    BY <2>1, AskedHandle
  <2>2. CASE handleJobCancel(w) \/ CancelAnswers(w) \/ Stop(w) \/ handleWorkerDeactivate(w)
    <3>1. LineKept(bus, bus') /\ UNCHANGED requesterVars /\ UNCHANGED handler
      BY <2>2, TypeWorker
    <3> QED BY <1>a, <3>1
  <2> QED BY <1>4, <2>1, <2>2 DEF WorkerStep
<1>5. ASSUME NEW w \in Worker, NEW j \in Job, HandlerStep(w, j) PROVE AskedOnce'
  <2>1. LineKept(bus, bus') /\ UNCHANGED requesterVars
    BY <1>5, TypeHandler
  <2>2. \/ UNCHANGED handler
        \/ /\ handler[w][j] # "none"
           /\ \E h \in {"running", "ended"} : handler' = [handler EXCEPT ![w][j] = h]
    BY <1>5 DEF HandlerStep, runJobHandler, CalledOffWaiting, forgetActiveJob, HandlerReturns,
                SendJobResponse
  <2>3. \A v \in Worker, k \in Job : handler'[v][k] = "none" <=> handler[v][k] = "none"
    <3>1. CASE UNCHANGED handler
      BY <3>1
    <3>2. ASSUME NEW h \in {"running", "ended"}, handler[w][j] # "none",
                 handler' = [handler EXCEPT ![w][j] = h]
          PROVE  \A v \in Worker, k \in Job : handler'[v][k] = "none" <=> handler[v][k] = "none"
      <4>1. /\ \A v \in Worker \ {w} : handler'[v] = handler[v]
            /\ \A k \in Job : handler'[w][k] = IF k = j THEN h ELSE handler[w][k]
        BY <1>0, <3>2 DEF WorkersOK
      <4> QED BY <3>2, <4>1
    <3> QED BY <2>2, <3>1, <3>2
  <2> QED BY <1>a, <2>1, <2>3
<1>6. ASSUME NEW s \in Worker \cup {Requester}, PassData(s) PROVE AskedOnce'
  BY <1>6, AskedPass DEF Subscribers
<1>7. CASE UNCHANGED vars
  <2>1. LineKept(bus, bus') /\ UNCHANGED requesterVars /\ UNCHANGED handler
    BY <1>7 DEF vars, workerVars, LineKept
  <2> QED BY <1>a, <2>1
<1> QED BY <1>3, <1>4, <1>5, <1>6, <1>7 DEF Next

(***************************************************************************)
(* The requests of a worker form a line: each waits for the one before,    *)
(* and sequential is the last.  While none was called off waiting, the     *)
(* ones in front have ended and the ones behind have not begun.            *)
(***************************************************************************)
Chain(w, ord) ==
    /\ \A i, k \in 1..Len(ord) : ord[i] = ord[k] => i = k
    /\ \A j \in Job : handler[w][j] # "none" <=> \E i \in 1..Len(ord) : ord[i] = j
    /\ \A i \in 1..Len(ord) : wait[w][ord[i]] = IF i = 1 THEN NoJob ELSE ord[i - 1]
    /\ sequential[w] = IF Len(ord) = 0 THEN NoJob ELSE ord[Len(ord)]
Reached(w, ord, n) ==
    \A i \in 1..Len(ord) :
        /\ i < n => handler[w][ord[i]] = "ended"
        /\ i = n => handler[w][ord[i]] \in {"waiting", "running"}
        /\ i > n => handler[w][ord[i]] = "waiting"
InTurn(w, ord) == \E n \in 1..Len(ord) + 1 : Reached(w, ord, n)
Turn(w) == \E ord \in Seq(Job) : Chain(w, ord) /\ (skipped[w] = {} => InTurn(w, ord))
Turns == \A w \in Worker : Turn(w)

LEMMA TurnKept ==
  ASSUME NEW w \in Worker, Turn(w), skipped[w] \subseteq skipped'[w], UNCHANGED <<wait, sequential>>,
         \A j \in Job : handler'[w][j] = handler[w][j]
  PROVE  Turn(w)'
<1>1. PICK ord \in Seq(Job) : Chain(w, ord) /\ (skipped[w] = {} => InTurn(w, ord))
  BY DEF Turn
<1>2. \A i \in 1..Len(ord) : ord[i] \in Job
  BY ElementOfSeq
<1>3. Chain(w, ord)'
  BY <1>1 DEF Chain
<1>4. skipped'[w] = {} => skipped[w] = {}
  OBVIOUS
<1>5. InTurn(w, ord) => InTurn(w, ord)'
  BY <1>2 DEF InTurn, Reached
<1> QED BY <1>1, <1>3, <1>4, <1>5 DEF Turn

\* One handler moves on, from an entry that was in the line already.
LEMMA ChainMoves ==
  ASSUME NEW w \in Worker, NEW j \in Job, NEW h \in {"running", "ended"},
         \A k \in Job : handler'[w][k] = IF k = j THEN h ELSE handler[w][k],
         UNCHANGED <<wait, sequential>>, handler[w][j] # "none", NEW ord \in Seq(Job), Chain(w, ord)
  PROVE  /\ Chain(w, ord)' /\ \E i \in 1..Len(ord) : ord[i] = j
         /\ \A i \in 1..Len(ord) : handler'[w][ord[i]] = IF ord[i] = j THEN h ELSE handler[w][ord[i]]
<1>1. \A i \in 1..Len(ord) : ord[i] \in Job
  BY ElementOfSeq
<1>2. Chain(w, ord)'
  BY <1>1 DEF Chain
<1> QED BY <1>1, <1>2 DEF Chain

LEMMA TurnRun ==
  ASSUME TypeInv, NEW w \in Worker, Turn(w), NEW j \in Job, runJobHandler(w, j)
  PROVE  Turn(w)'
<1>1. PICK ord \in Seq(Job) : Chain(w, ord) /\ (skipped[w] = {} => InTurn(w, ord))
  BY DEF Turn
<1>2. /\ handler[w][j] = "waiting" /\ myTurn(w, j) /\ UNCHANGED <<wait, sequential, skipped>>
      /\ \A k \in Job : handler'[w][k] = IF k = j THEN "running" ELSE handler[w][k]
  BY DEF TypeInv, WorkersOK, runJobHandler
<1>3. /\ Chain(w, ord)'
      /\ \E i \in 1..Len(ord) : ord[i] = j
      /\ \A i \in 1..Len(ord) : handler'[w][ord[i]] = IF ord[i] = j THEN "running" ELSE handler[w][ord[i]]
  BY <1>1, <1>2, ChainMoves
<1>4. PICK i \in 1..Len(ord) : ord[i] = j
  BY <1>3
<1>5. Len(ord) \in Nat /\ \A k \in 1..Len(ord) : ord[k] \in Job
  BY LenProperties, ElementOfSeq
<1>6. ASSUME InTurn(w, ord) PROVE InTurn(w, ord)'
  <2>1. PICK n \in 1..Len(ord) + 1 : Reached(w, ord, n)
    BY <1>6 DEF InTurn
  <2>2. i >= n
    BY <1>2, <1>4, <1>5, <2>1 DEF Reached
  <2>3. i = n
    <3>1. CASE i = 1
      BY <1>5, <2>1, <2>2, <3>1
    <3>2. CASE i # 1
      <4>1. i - 1 \in 1..Len(ord) /\ wait[w][j] = ord[i - 1] /\ ord[i - 1] \in Job
        BY <1>1, <1>4, <1>5, <3>2 DEF Chain
      <4>2. handler[w][ord[i - 1]] = "ended"
        BY <1>2, <4>1, Sides DEF myTurn
      <4>3. i - 1 < n
        BY <1>5, <2>1, <4>1, <4>2 DEF Reached
      <4> QED BY <1>5, <2>1, <2>2, <4>3
    <3> QED BY <3>1, <3>2
  <2>4. \A k \in 1..Len(ord) : ord[k] = j <=> k = n
    BY <1>1, <1>4, <2>3 DEF Chain
  <2>5. Reached(w, ord, n)'
    BY <1>3, <1>5, <2>1, <2>4 DEF Reached
  <2> QED BY <2>1, <2>5 DEF InTurn
<1> QED BY <1>1, <1>2, <1>3, <1>6 DEF Turn

LEMMA TurnReturns ==
  ASSUME TypeInv, NEW w \in Worker, Turn(w), NEW j \in Job, HandlerReturns(w, j)
  PROVE  Turn(w)'
<1>1. PICK ord \in Seq(Job) : Chain(w, ord) /\ (skipped[w] = {} => InTurn(w, ord))
  BY DEF Turn
<1>2. /\ handler[w][j] = "running" /\ UNCHANGED <<wait, sequential, skipped>>
      /\ \A k \in Job : handler'[w][k] = IF k = j THEN "ended" ELSE handler[w][k]
  BY DEF TypeInv, WorkersOK, HandlerReturns
<1>3. /\ Chain(w, ord)'
      /\ \E i \in 1..Len(ord) : ord[i] = j
      /\ \A i \in 1..Len(ord) : handler'[w][ord[i]] = IF ord[i] = j THEN "ended" ELSE handler[w][ord[i]]
  BY <1>1, <1>2, ChainMoves
<1>4. PICK i \in 1..Len(ord) : ord[i] = j
  BY <1>3
<1>5. Len(ord) \in Nat
  BY LenProperties
<1>6. ASSUME InTurn(w, ord) PROVE InTurn(w, ord)'
  <2>1. PICK n \in 1..Len(ord) + 1 : Reached(w, ord, n)
    BY <1>6 DEF InTurn
  <2>2. i = n
    BY <1>2, <1>4, <1>5, <2>1 DEF Reached
  <2>3. \A k \in 1..Len(ord) : ord[k] = j <=> k = n
    BY <1>1, <1>4, <2>2 DEF Chain
  <2>4. \A k \in 1..Len(ord) : /\ k < n + 1 => handler'[w][ord[k]] = "ended"
                               /\ k >= n + 1 => handler'[w][ord[k]] = "waiting"
    BY <1>3, <1>5, <2>1, <2>3 DEF Reached
  <2>5. Reached(w, ord, n + 1)'
    BY <1>5, <2>1, <2>4 DEF Reached
  <2>6. n + 1 \in 1..Len(ord) + 1
    BY <1>5, <2>1, <2>2
  <2> QED BY <2>5, <2>6 DEF InTurn
<1> QED BY <1>1, <1>2, <1>3, <1>6 DEF Turn

LEMMA TurnCalledOff ==
  ASSUME TypeInv, NEW w \in Worker, Turn(w), NEW j \in Job, CalledOffWaiting(w, j)
  PROVE  Turn(w)'
<1>1. PICK ord \in Seq(Job) : Chain(w, ord)
  BY DEF Turn
<1>2. /\ handler[w][j] = "waiting" /\ UNCHANGED <<wait, sequential>>
      /\ \A k \in Job : handler'[w][k] = IF k = j THEN "ended" ELSE handler[w][k]
      /\ j \in skipped'[w]
  BY DEF CalledOffWaiting, TypeInv, WorkersOK
<1>3. Chain(w, ord)'
  BY <1>1, <1>2, ChainMoves
<1> QED BY <1>2, <1>3 DEF Turn

LEMMA TurnRequest ==
  ASSUME TypeInv, NEW w \in Worker, Turn(w), handleJobRequest(w), active[w],
         handler[w][nextData(bus[w]).job] = "none"
  PROVE  Turn(w)'
<1>1. PICK ord \in Seq(Job) : Chain(w, ord) /\ (skipped[w] = {} => InTurn(w, ord))
  BY DEF Turn
<1>2. PICK j \in Job : j = nextData(bus[w]).job
  BY TypeHandleRequest
<1>3. /\ handler' = [handler EXCEPT ![w][j] = "waiting"] /\ UNCHANGED skipped
      /\ wait' = [wait EXCEPT ![w][j] = sequential[w]]
      /\ sequential' = [sequential EXCEPT ![w] = j]
  BY <1>2 DEF handleJobRequest
<1>4. /\ \A k \in Job : /\ handler'[w][k] = IF k = j THEN "waiting" ELSE handler[w][k]
                        /\ wait'[w][k] = IF k = j THEN sequential[w] ELSE wait[w][k]
      /\ sequential'[w] = j
  BY <1>3 DEF TypeInv, WorkersOK
<1> DEFINE new == Append(ord, j)
<1>5. /\ Len(ord) \in Nat /\ new \in Seq(Job) /\ Len(new) = Len(ord) + 1
      /\ \A i \in 1..Len(ord) : new[i] = ord[i] /\ ord[i] \in Job
      /\ new[Len(ord) + 1] = j
  BY <1>2, AppendProperties, LenProperties, ElementOfSeq
<1> HIDE DEF new
<1>6. \A i \in 1..Len(ord) : ord[i] # j
  BY <1>1, <1>2 DEF Chain
<1>7. \A i \in 1..Len(new) : i \in 1..Len(ord) \/ i = Len(ord) + 1
  BY <1>5
<1>8. Chain(w, new)'
  <2>1. \A i, k \in 1..Len(new) : new[i] = new[k] => i = k
    BY <1>1, <1>5, <1>6, <1>7 DEF Chain
  <2>2. \A k \in Job : handler'[w][k] # "none" <=> \E i \in 1..Len(new) : new[i] = k
    <3>1. ASSUME NEW k \in Job PROVE handler'[w][k] # "none" <=> \E i \in 1..Len(new) : new[i] = k
      <4>1. CASE k = j
        BY <1>4, <1>5, <4>1
      <4>2. CASE k # j
        <5>1. handler[w][k] # "none" <=> \E i \in 1..Len(ord) : ord[i] = k
          BY <1>1 DEF Chain
        <5>2. (\E i \in 1..Len(ord) : ord[i] = k) <=> \E i \in 1..Len(new) : new[i] = k
          BY <1>5, <1>7, <4>2
        <5> QED BY <1>4, <4>2, <5>1, <5>2
      <4> QED BY <4>1, <4>2
    <3> QED BY <3>1
  <2>3. \A i \in 1..Len(new) : wait'[w][new[i]] = IF i = 1 THEN NoJob ELSE new[i - 1]
    <3> SUFFICES ASSUME NEW i \in 1..Len(new)
                 PROVE  wait'[w][new[i]] = IF i = 1 THEN NoJob ELSE new[i - 1]
      OBVIOUS
    <3>1. CASE i \in 1..Len(ord)
      <4>1. wait'[w][new[i]] = IF i = 1 THEN NoJob ELSE ord[i - 1]
        BY <1>1, <1>4, <1>5, <1>6, <3>1 DEF Chain
      <4>2. i # 1 => i - 1 \in 1..Len(ord)
        BY <1>5, <3>1
      <4> QED BY <1>5, <4>1, <4>2
    <3>2. CASE i = Len(ord) + 1
      <4>1. wait'[w][new[i]] = IF Len(ord) = 0 THEN NoJob ELSE ord[Len(ord)]
        BY <1>1, <1>2, <1>4, <1>5, <3>2 DEF Chain
      <4>2. (i = 1 <=> Len(ord) = 0) /\ i - 1 = Len(ord) /\ (i # 1 => i - 1 \in 1..Len(ord))
        BY <1>5, <3>2
      <4> QED BY <1>5, <4>1, <4>2
    <3> QED BY <1>7, <3>1, <3>2
  <2>4. sequential'[w] = IF Len(new) = 0 THEN NoJob ELSE new[Len(new)]
    BY <1>4, <1>5
  <2> QED BY <2>1, <2>2, <2>3, <2>4 DEF Chain
<1>9. ASSUME InTurn(w, ord) PROVE InTurn(w, new)'
  <2>1. PICK n \in 1..Len(ord) + 1 : Reached(w, ord, n)
    BY <1>9 DEF InTurn
  <2>2. n \in 1..Len(new) + 1
    BY <1>5, <2>1
  <2>3. \A i \in 1..Len(ord) : handler'[w][new[i]] = handler[w][ord[i]]
    BY <1>4, <1>5, <1>6
  <2>4. handler'[w][new[Len(ord) + 1]] = "waiting" /\ Len(ord) + 1 >= n
    BY <1>2, <1>4, <1>5, <2>1
  <2>5. Reached(w, new, n)'
    BY <1>5, <1>7, <2>1, <2>3, <2>4 DEF Reached
  <2> QED BY <2>2, <2>5 DEF InTurn
<1> QED BY <1>1, <1>3, <1>5, <1>8, <1>9 DEF Turn

LEMMA TurnsNext == TypeInv /\ AskedOnce /\ Turns /\ [Next]_vars => Turns'
<1> SUFFICES ASSUME TypeInv, AskedOnce, Turns, [Next]_vars, NEW w \in Worker PROVE Turn(w)'
  BY DEF Turns
<1>0. Turn(w) /\ WorkersOK
  BY DEF Turns, TypeInv
<1>a. ASSUME UNCHANGED <<handler, wait, sequential, skipped>> PROVE Turn(w)'
  BY <1>0, <1>a, TurnKept
<1>1. CASE RequesterStep
  <2>1. ASSUME NEW j \in Job, NEW v \in Worker, SendRequest(j, v) PROVE UNCHANGED workerVars
    BY <2>1 DEF SendRequest
  <2>2. UNCHANGED workerVars
    BY <1>1, <2>1, TypeRequester DEF RequesterStep
  <2> QED BY <1>a, <2>2 DEF workerVars
<1>2. ASSUME NEW v \in Worker, handleJobRequest(v) PROVE Turn(w)'
  <2>1. CASE ~active[v]
    BY <1>2, <1>a, <2>1 DEF handleJobRequest
  <2>2. CASE active[v] /\ v = w
    BY <1>0, <1>2, <2>2, AskedHandle, TurnRequest
  <2>3. CASE active[v] /\ v # w
    <3>1. \E j : /\ handler' = [handler EXCEPT ![v][j] = "waiting"]
                 /\ wait' = [wait EXCEPT ![v][j] = sequential[v]]
                 /\ sequential' = [sequential EXCEPT ![v] = j] /\ UNCHANGED skipped
      BY <1>2, <2>3 DEF handleJobRequest
    <3>2. /\ handler'[w] = handler[w] /\ wait'[w] = wait[w] /\ sequential'[w] = sequential[w]
          /\ skipped'[w] = skipped[w]
      BY <1>0, <2>3, <3>1 DEF WorkersOK
    <3> QED BY <1>0, <3>2 DEF Turn, Chain, InTurn, Reached
  <2> QED BY <2>1, <2>2, <2>3
<1>3. ASSUME NEW v \in Worker,
             handleJobCancel(v) \/ CancelAnswers(v) \/ Stop(v) \/ handleWorkerDeactivate(v)
      PROVE  Turn(w)'
  BY <1>3, <1>a, TypeWorker
<1>4. ASSUME NEW v \in Worker, NEW j \in Job, HandlerStep(v, j) PROVE Turn(w)'
  <2>1. CASE v = w
    <3>1. CASE runJobHandler(v, j)
      BY <1>0, <2>1, <3>1, TurnRun
    <3>2. CASE CalledOffWaiting(v, j)
      BY <1>0, <2>1, <3>2, TurnCalledOff
    <3>3. CASE HandlerReturns(v, j)
      BY <1>0, <2>1, <3>3, TurnReturns
    <3>4. CASE forgetActiveJob(v, j)
      BY <1>a, <3>4 DEF forgetActiveJob
    <3>5. ASSUME NEW a \in Answers, SendJobResponse(v, j, a[1], a[2]) PROVE Turn(w)'
      BY <1>a, <3>5 DEF SendJobResponse
    <3> QED BY <1>4, <3>1, <3>2, <3>3, <3>4, <3>5 DEF HandlerStep
  <2>2. CASE v # w
    <3>1. UNCHANGED <<wait, sequential>>
      BY <1>4, TypeHandler
    <3>2. /\ \/ UNCHANGED handler
             \/ \E h : handler' = [handler EXCEPT ![v][j] = h]
          /\ \/ UNCHANGED skipped
             \/ skipped' = [skipped EXCEPT ![v] = @ \cup {j}]
      BY <1>4 DEF HandlerStep, runJobHandler, CalledOffWaiting, forgetActiveJob, HandlerReturns,
                  SendJobResponse
    <3>3. handler'[w] = handler[w] /\ skipped'[w] = skipped[w]
      BY <1>0, <2>2, <3>2 DEF WorkersOK
    <3> QED BY <1>0, <3>1, <3>3, TurnKept
  <2> QED BY <2>1, <2>2
<1>5. ASSUME NEW s \in Worker \cup {Requester}, PassData(s) PROVE Turn(w)'
  BY <1>5, <1>a DEF PassData, workerVars
<1>6. CASE UNCHANGED vars
  BY <1>6, <1>a DEF vars, workerVars
<1> QED BY <1>1, <1>2, <1>3, <1>4, <1>5, <1>6 DEF Next, WorkerStep

LEMMA TurnsInit == Init => AskedOnce /\ Turns
<1> SUFFICES ASSUME Init PROVE AskedOnce /\ Turns
  OBVIOUS
<1>1. ASSUME NEW w \in Worker PROVE Line(w) /\ \A j \in Job : Unasked(w, j)
  <2>1. bus[w].queue.data = <<>> /\ bus[w].dataQueue = <<>>
    BY DEF Init, Subscribe
  <2>2. Len(<<>>) = 0 /\ Distinct(<<>>) /\ JobsIn(<<>>) = {}
    BY DEF Distinct, JobsIn
  <2> QED BY <2>1, <2>2 DEF Init, Line, Unasked
<1>2. ASSUME NEW w \in Worker PROVE Turn(w)
  <2> DEFINE ord == <<>>
  <2>1. ord \in Seq(Job) /\ Len(ord) = 0
    OBVIOUS
  <2> HIDE DEF ord
  <2>2. 1..Len(ord) = {} /\ 1 \in 1..Len(ord) + 1
    BY <2>1
  <2>3. Chain(w, ord) /\ InTurn(w, ord)
    BY <2>1, <2>2 DEF Init, Chain, InTurn, Reached
  <2> QED BY <2>1, <2>3 DEF Turn
<1> QED BY <1>1, <1>2 DEF AskedOnce, Turns

LEMMA TurnsOne == TypeInv /\ Turns => OneAtATime
<1> SUFFICES ASSUME TypeInv, Turns, NEW w \in Worker, skipped[w] = {}
             PROVE  ~(Cardinality({j \in Job : handler[w][j] = "running"}) > 1)
  BY DEF OneAtATime
<1> DEFINE R == {j \in Job : handler[w][j] = "running"}
<1>1. PICK ord \in Seq(Job) : Chain(w, ord) /\ InTurn(w, ord)
  BY DEF Turns, Turn
<1>2. PICK n \in 1..Len(ord) + 1 : Reached(w, ord, n)
  BY <1>1 DEF InTurn
<1>3. Len(ord) \in Nat
  BY LenProperties
<1>4. ASSUME NEW j \in R PROVE j = ord[n]
  <2>1. PICK i \in 1..Len(ord) : ord[i] = j
    BY <1>1 DEF Chain
  <2>2. i = n
    BY <1>2, <1>3, <2>1 DEF Reached
  <2> QED BY <2>1, <2>2
<1>5. R \in SUBSET {ord[n]}
  BY <1>4
<1> HIDE DEF R
<1>6. IsFiniteSet({ord[n]}) /\ Cardinality({ord[n]}) = 1
  BY FS_Singleton
<1>7. IsFiniteSet(R) /\ Cardinality(R) <= 1
  BY <1>5, <1>6, FS_Subset
<1>8. Cardinality(R) \in Nat
  BY <1>7, FS_CardinalityType
<1>9. ~(Cardinality(R) > 1)
  BY <1>7, <1>8
<1> QED BY <1>9 DEF R

\* A sequential handler runs its requests one at a time, as long as none of them
\* was called off while it waited (runJobHandler and the chain of releases
\* handleJobRequest builds), whatever is requested, called off and answered
\* meanwhile.
THEOREM OneAtATimeHolds == Spec => []OneAtATime
<1>1. Init => TypeInv /\ AskedOnce /\ Turns
  BY TypeInit, TurnsInit
<1>2. TypeInv /\ Turns => OneAtATime
  BY TurnsOne
<1> QED BY <1>1, <1>2, TypeNext, AskedNext, TurnsNext, PTL DEF Spec
=============================================================================
