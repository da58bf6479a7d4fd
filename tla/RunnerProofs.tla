---------------------------- MODULE RunnerProofs ----------------------------
(***************************************************************************)
(* Proofs about Runner, for any workers, parents and children: its type    *)
(* invariant, which says that every message sits with the one it is for    *)
(* and in its band, and that Run leaves no worker it had started behind.   *)
(***************************************************************************)
EXTENDS Runner, SequenceTheorems, TLAPS

(***************************************************************************)
(* The subscriptions: what the operations of the bus do to one of them.    *)
(***************************************************************************)
GoPcs == {"none", "off", "idle", "busy"}
SystemFor(s) == {m \in Messages : m.to = s /\ isSystem(m)}
DataFor(s) == {m \in Messages : m.to = s /\ ~isSystem(m)}
SubFor(s) == [queue : [system : Seq(SystemFor(s)), data : Seq(DataFor(s))],
              dataQueue : Seq(DataFor(s)), route : GoPcs, dispatch : GoPcs]

LEMMA NewSubFits ==
  ASSUME NEW s \in Subscriber, NEW up \in BOOLEAN
  PROVE  NoSub \in SubFor(s) /\ Subscribe(up) \in SubFor(s)
<1>1. <<>> \in Seq(SystemFor(s)) /\ <<>> \in Seq(DataFor(s))
  BY EmptySeq
<1> QED BY <1>1 DEF NoSub, Subscribe, SubFor, GoPcs

LEMMA ReceiveFits ==
  ASSUME NEW s \in Subscriber, NEW sub \in SubFor(s), NEW m \in Messages, m.to = s
  PROVE  Receive(sub, m) \in SubFor(s)
<1>1. CASE isSystem(m)
  <2>1. m \in SystemFor(s)
    BY <1>1 DEF SystemFor
  <2>2. Append(sub.queue.system, m) \in Seq(SystemFor(s))
    BY <2>1 DEF SubFor
  <2> QED BY <1>1, <2>2 DEF Receive, put, SubFor
<1>2. CASE ~isSystem(m)
  <2>1. m \in DataFor(s)
    BY <1>2 DEF DataFor
  <2>2. Append(sub.queue.data, m) \in Seq(DataFor(s))
    BY <2>1 DEF SubFor
  <2> QED BY <1>2, <2>2 DEF Receive, put, SubFor
<1> QED BY <1>1, <1>2

LEMMA TakeFits ==
  ASSUME NEW s \in Subscriber, NEW sub \in SubFor(s)
  PROVE  /\ systemNext(sub) => takeSystem(sub) \in SubFor(s)
         /\ dataNext(sub) => passData(sub) \in SubFor(s)
         /\ dispatchNext(sub) => takeData(sub) \in SubFor(s)
<1>1. ASSUME systemNext(sub) PROVE takeSystem(sub) \in SubFor(s)
  <2>1. Tail(sub.queue.system) \in Seq(SystemFor(s))
    BY <1>1 DEF systemNext, SubFor
  <2> QED BY <2>1 DEF takeSystem, SubFor
<1>2. ASSUME dataNext(sub) PROVE passData(sub) \in SubFor(s)
  <2>1. Head(sub.queue.data) \in DataFor(s) /\ Tail(sub.queue.data) \in Seq(DataFor(s))
    BY <1>2 DEF dataNext, SubFor
  <2>2. Append(sub.dataQueue, Head(sub.queue.data)) \in Seq(DataFor(s))
    BY <2>1 DEF SubFor
  <2> QED BY <2>1, <2>2 DEF passData, SubFor
<1>3. ASSUME dispatchNext(sub) PROVE takeData(sub) \in SubFor(s)
  <2>1. Tail(sub.dataQueue) \in Seq(DataFor(s))
    BY <1>3 DEF dispatchNext, SubFor
  <2> QED BY <2>1 DEF takeData, SubFor
<1> QED BY <1>1, <1>2, <1>3

LEMMA PcFits ==
  ASSUME NEW s \in Subscriber, NEW sub \in SubFor(s), NEW x \in GoPcs
  PROVE  /\ [sub EXCEPT !.route = x] \in SubFor(s)
         /\ [sub EXCEPT !.dispatch = x] \in SubFor(s)
         /\ startDispatch(sub) \in SubFor(s) /\ stop(sub) \in SubFor(s)
  BY DEF startDispatch, stop, SubFor, GoPcs

\* A bus all of whose subscriptions fit.
BusFits(b) == b = [s \in Subscriber |-> b[s]] /\ \A s \in Subscriber : b[s] \in SubFor(s)

LEMMA ExceptFits ==
  ASSUME NEW b, BusFits(b), NEW s \in Subscriber, NEW sub \in SubFor(s)
  PROVE  BusFits([b EXCEPT ![s] = sub])
  BY DEF BusFits

LEMMA SendFits ==
  ASSUME NEW b, BusFits(b), NEW S,
         NEW t \in {"CancelMessage", "EndMessage", "AddWorkerMessage",
                    "CancelWorkerMessage", "EndWorkerMessage"}
  PROVE  BusFits(SendAll(b, t, S))
<1>1. \A s \in Subscriber : Message(t, s, NoOne) \in Messages /\ Message(t, s, NoOne).to = s
  BY DEF Message, Messages
<1>2. \A s \in Subscriber : Receive(b[s], Message(t, s, NoOne)) \in SubFor(s)
  BY <1>1, ReceiveFits DEF BusFits
<1> QED BY <1>2 DEF SendAll, BusFits

(***************************************************************************)
(* The type invariant: the shape of the other variables, and the bus.      *)
(***************************************************************************)
Phases == {"out", "entered", "running", "returned", "checked", "gone"}
WorkersOK ==
    /\ phase \in [Worker -> Phases]
    /\ startNow \in [Worker -> BOOLEAN] /\ starts \in [Worker -> Nat]
    /\ finished \subseteq Worker /\ kids \in [Worker -> SUBSET Child]
    /\ endWait \in [Worker -> SUBSET Child] /\ lost \subseteq Worker
RunnerOK ==
    /\ adding \in Child \cup {NoOne} /\ ending \in BOOLEAN
    /\ run \in {"new", "busUp", "starting", "telling", "awaiting", "stopBus", "done"}
    /\ started \in BOOLEAN /\ shutting \in BOOLEAN /\ contextEnded \in BOOLEAN
    /\ toStart \subseteq Worker /\ awaiting \subseteq Worker /\ snapshot \subseteq Worker
    /\ asks \subseteq Asks

TypeInv == WorkersOK /\ RunnerOK /\ BusFits(bus)

LEMMA InvTypes == TypeInv => TypeOK
<1> SUFFICES ASSUME TypeInv PROVE TypeOK
  OBVIOUS
<1>1. ASSUME NEW s \in Subscriber
      PROVE  LET q == bus[s].queue IN
             /\ \A i \in DOMAIN q.system : q.system[i].to = s /\ isSystem(q.system[i])
             /\ \A i \in DOMAIN q.data : q.data[i].to = s /\ ~isSystem(q.data[i])
             /\ \A i \in DOMAIN bus[s].dataQueue : ~isSystem(bus[s].dataQueue[i])
  <2>1. /\ bus[s].queue.system \in Seq(SystemFor(s)) /\ bus[s].queue.data \in Seq(DataFor(s))
        /\ bus[s].dataQueue \in Seq(DataFor(s))
    BY DEF TypeInv, BusFits, SubFor
  <2>2. /\ \A i \in DOMAIN bus[s].queue.system : bus[s].queue.system[i] \in SystemFor(s)
        /\ \A i \in DOMAIN bus[s].queue.data : bus[s].queue.data[i] \in DataFor(s)
        /\ \A i \in DOMAIN bus[s].dataQueue : bus[s].dataQueue[i] \in DataFor(s)
    BY <2>1, ElementOfSeq, LenProperties
  <2> QED BY <2>2 DEF SystemFor, DataFor
<1> QED BY <1>1 DEF TypeInv, WorkersOK, RunnerOK, TypeOK, Phases

LEMMA Sets == /\ Child \subseteq Worker /\ Worker \subseteq Subscriber /\ Self \in Subscriber
              /\ Child \subseteq Subscriber
  BY ChildAssumption DEF Subscriber

LEMMA TypeInit == Init => TypeInv
<1> SUFFICES ASSUME Init PROVE TypeInv
  OBVIOUS
<1>1. WorkersOK
  BY DEF Init, WorkersOK, Phases
<1>2. RunnerOK
  BY DEF Init, RunnerOK
<1>3. BusFits(bus)
  <2>1. \A s \in Subscriber : NoSub \in SubFor(s) /\ Subscribe(FALSE) \in SubFor(s)
    BY NewSubFits
  <2> QED BY <2>1 DEF Init, BusFits
<1> QED BY <1>1, <1>2, <1>3 DEF TypeInv

LEMMA AddedFits ==
  ASSUME NEW b, BusFits(b), NEW w
  PROVE  BusFits(Added(b, w))
<1>1. [b[Self] EXCEPT !.route = "idle"] \in SubFor(Self)
  BY PcFits, Sets DEF BusFits, GoPcs
<1>2. BusFits([b EXCEPT ![Self] = [b[Self] EXCEPT !.route = "idle"]])
  BY <1>1, ExceptFits, Sets
<1>3. [b EXCEPT ![Self].route = "idle"] = [b EXCEPT ![Self] = [b[Self] EXCEPT !.route = "idle"]]
  BY Sets DEF BusFits
<1> QED BY <1>2, <1>3 DEF Added

\* Adding a worker.
LEMMA TypeAdd ==
  ASSUME TypeInv, NEW w \in Worker,
         EnterRoot(w) \/ (w \in Child /\ EnterChild(w)) \/ Attach(w) \/ StartNow(w) \/ AddChild(w)
  PROVE  TypeInv'
<1>0. BusFits(bus) /\ \A s \in Subscriber : bus[s] \in SubFor(s)
  BY DEF TypeInv, BusFits
<1>1. CASE EnterRoot(w)
  BY <1>1 DEF EnterRoot, Enter, TypeInv, WorkersOK, RunnerOK, BusFits, Phases, runnerVars
<1>2. CASE EnterChild(w)
  <2>1. takeSystem(bus[Self]) \in SubFor(Self)
    BY <1>0, <1>2, TakeFits, Sets DEF EnterChild
  <2>2. [takeSystem(bus[Self]) EXCEPT !.route = "busy"] \in SubFor(Self)
    BY <2>1, PcFits, Sets DEF GoPcs
  <2>3. bus' = [bus EXCEPT ![Self] = [takeSystem(bus[Self]) EXCEPT !.route = "busy"]]
    BY <1>2 DEF EnterChild
  <2>4. BusFits(bus')
    BY <1>0, <2>2, <2>3, ExceptFits, Sets
  <2>5. WorkersOK'
    BY <1>2 DEF EnterChild, Enter, TypeInv, WorkersOK, RunnerOK, Phases
  <2>6. RunnerOK'
    BY <1>2 DEF EnterChild, Enter, TypeInv, RunnerOK, runnerVars
  <2> QED BY <2>4, <2>5, <2>6 DEF TypeInv
<1>3. CASE Attach(w)
  <2>1. busRunning \in BOOLEAN
    BY DEF busRunning
  <2> DEFINE b == [bus EXCEPT ![w] = Subscribe(busRunning)]
  <2>2. BusFits(b)
    BY <1>0, <2>1, NewSubFits, ExceptFits, Sets
  <2>3. bus' = b \/ bus' = Added(b, w)
    BY <1>3 DEF Attach
  <2> HIDE DEF b
  <2>4. BusFits(bus')
    BY <2>2, <2>3, AddedFits
  <2>5. RunnerOK'
    BY <1>3 DEF Attach, TypeInv, RunnerOK, runnerVars
  <2>6. WorkersOK'
    BY <1>3 DEF Attach, TypeInv, WorkersOK, workerVars
  <2> QED BY <2>4, <2>5, <2>6 DEF TypeInv
<1>4. CASE StartNow(w)
  <2>1. BusFits(bus')
    BY <1>0, <1>4, AddedFits DEF StartNow
  <2>2. WorkersOK'
    BY <1>4 DEF StartNow, startWorker, TypeInv, WorkersOK, Phases
  <2>3. RunnerOK'
    BY <1>4 DEF StartNow, TypeInv, RunnerOK, runnerVars
  <2> QED BY <2>1, <2>2, <2>3 DEF TypeInv
<1>5. CASE AddChild(w)
  <2> DEFINE m == Message("AddWorkerMessage", Self, w)
  <2>1. m \in Messages /\ m.to = Self
    BY Sets DEF Message, Messages
  <2>2. Receive(bus[Self], m) \in SubFor(Self)
    BY <1>0, <2>1, ReceiveFits, Sets
  <2>3. bus' = [bus EXCEPT ![Self] = Receive(bus[Self], m)]
    BY <1>5 DEF AddChild
  <2> HIDE DEF m
  <2>4. BusFits(bus')
    BY <1>0, <2>2, <2>3, ExceptFits, Sets
  <2>5. WorkersOK'
    BY <1>5, ChildAssumption DEF AddChild, TypeInv, WorkersOK
  <2>6. RunnerOK'
    BY <1>5 DEF AddChild, TypeInv, RunnerOK, runnerVars
  <2> QED BY <2>4, <2>5, <2>6 DEF TypeInv
<1> QED BY <1>1, <1>2, <1>3, <1>4, <1>5

\* Run.
LEMMA TypeRun == TypeInv /\ RunStep => TypeInv'
<1> SUFFICES ASSUME TypeInv, RunStep PROVE TypeInv'
  OBVIOUS
<1>0. BusFits(bus) /\ \A s \in Subscriber : bus[s] \in SubFor(s)
  BY DEF TypeInv, BusFits
<1>1. CASE StartBus
  <2>1. \A s \in Subscriber : Subscribe(TRUE) \in SubFor(s) /\ startDispatch(bus[s]) \in SubFor(s)
    BY <1>0, NewSubFits, PcFits DEF GoPcs
  <2>2. BusFits(bus')
    BY <1>0, <1>1, <2>1 DEF StartBus, BusFits
  <2>3. WorkersOK'
    BY <1>1 DEF StartBus, TypeInv, WorkersOK, workerVars
  <2>4. RunnerOK'
    BY <1>1 DEF StartBus, TypeInv, RunnerOK
  <2> QED BY <2>2, <2>3, <2>4 DEF TypeInv
<1>2. CASE setupSession
  <2>1. entered \subseteq Worker
    BY DEF entered
  <2> QED BY <1>2, <2>1 DEF setupSession, TypeInv, WorkersOK, RunnerOK, BusFits, workerVars
<1>3. ASSUME NEW w \in Worker, StartEntry(w) PROVE TypeInv'
  BY <1>3 DEF StartEntry, startWorker, TypeInv, WorkersOK, RunnerOK, BusFits, Phases
<1>4. CASE Wait
  BY <1>4 DEF Wait, TypeInv, WorkersOK, RunnerOK, BusFits, workerVars
<1>5. CASE stopRemainingWorkers
  <2>1. BusFits(bus')
    BY <1>0, <1>5, SendFits DEF stopRemainingWorkers
  <2>2. WorkersOK'
    BY <1>5 DEF stopRemainingWorkers, TypeInv, WorkersOK, entered
  <2>3. RunnerOK'
    BY <1>5 DEF stopRemainingWorkers, TypeInv, RunnerOK, entered
  <2> QED BY <2>1, <2>2, <2>3 DEF TypeInv
<1>6. ASSUME NEW w \in Worker, AwaitSkips(w) PROVE TypeInv'
  BY <1>6 DEF AwaitSkips, TypeInv, WorkersOK, RunnerOK, BusFits, workerVars
<1>7. CASE StopBus
  BY <1>7 DEF StopBus, TypeInv, WorkersOK, RunnerOK, BusFits, workerVars
<1>8. CASE RunReturns
  <2>1. \A s \in Subscriber : stop(bus[s]) \in SubFor(s)
    BY <1>0, PcFits DEF GoPcs
  <2>2. BusFits(bus')
    BY <1>0, <1>8, <2>1 DEF RunReturns, BusFits
  <2>3. WorkersOK'
    BY <1>8 DEF RunReturns, TypeInv, WorkersOK, workerVars
  <2>4. RunnerOK'
    BY <1>8 DEF RunReturns, TypeInv, RunnerOK
  <2> QED BY <2>2, <2>3, <2>4 DEF TypeInv
<1> QED BY <1>1, <1>2, <1>3, <1>4, <1>5, <1>6, <1>7, <1>8 DEF RunStep

\* The goroutine of a worker, and what callers do.
LEMMA TypeWorker ==
  ASSUME TypeInv, NEW w \in Worker, WorkerStep(w) \/ FinishItself(w)
  PROVE  TypeInv'
<1>0. BusFits(bus)
  BY DEF TypeInv
<1>1. CASE WorkerReturns(w)
  <2>1. BusFits(bus')
    BY <1>0, <1>1, SendFits DEF WorkerReturns
  <2>2. kids[w] \subseteq Worker
    BY Sets DEF TypeInv, WorkersOK
  <2>3. WorkersOK'
    BY <1>1, <2>2 DEF WorkerReturns, TypeInv, WorkersOK, Phases
  <2>4. RunnerOK'
    BY <1>1 DEF WorkerReturns, TypeInv, RunnerOK, runnerVars
  <2> QED BY <2>1, <2>3, <2>4 DEF TypeInv
<1>2. CASE maybeAutoEnd(w)
  <2>1. mayAutoEnd(w) \in BOOLEAN
    BY DEF mayAutoEnd
  <2> QED BY <1>2, <2>1 DEF maybeAutoEnd, TypeInv, WorkersOK, RunnerOK, BusFits, Phases
<1>3. CASE CloseDone(w)
  BY <1>3 DEF CloseDone, TypeInv, WorkersOK, RunnerOK, BusFits, Phases, runnerVars
<1>4. CASE FinishItself(w)
  BY <1>4 DEF FinishItself, TypeInv, WorkersOK, RunnerOK, BusFits, Phases, runnerVars
<1> QED BY <1>1, <1>2, <1>3, <1>4 DEF WorkerStep

LEMMA TypeAsk == TypeInv /\ (AskEnd \/ AskCancel \/ Cancel \/ ContextEnd) => TypeInv'
<1> SUFFICES ASSUME TypeInv, AskEnd \/ AskCancel \/ Cancel \/ ContextEnd PROVE TypeInv'
  OBVIOUS
<1>0. BusFits(bus) /\ bus[Self] \in SubFor(Self)
  BY Sets DEF TypeInv, BusFits
<1>1. ASSUME NEW t \in {"EndMessage", "CancelMessage"}, NEW a, AskBus(a, t) PROVE TypeInv'
  <2> DEFINE m == Message(t, Self, NoOne)
  <2>1. m \in Messages /\ m.to = Self
    BY Sets DEF Message, Messages
  <2>2. Receive(bus[Self], m) \in SubFor(Self)
    BY <1>0, <2>1, ReceiveFits, Sets
  <2>3. bus' = [bus EXCEPT ![Self] = Receive(bus[Self], m)]
    BY <1>1 DEF AskBus
  <2> HIDE DEF m
  <2>4. BusFits(bus')
    BY <1>0, <2>2, <2>3, ExceptFits, Sets
  <2>5. WorkersOK'
    BY <1>1 DEF AskBus, TypeInv, WorkersOK, workerVars
  <2>6. RunnerOK'
    BY <1>1 DEF AskBus, ask, TypeInv, RunnerOK, runnerVars
  <2> QED BY <2>4, <2>5, <2>6 DEF TypeInv
<1>2. CASE Cancel
  BY <1>2 DEF Cancel, ask, TypeInv, WorkersOK, RunnerOK, BusFits, workerVars
<1>3. CASE ContextEnd
  BY <1>3 DEF ContextEnd, ask, TypeInv, WorkersOK, RunnerOK, BusFits, workerVars, runnerVars
<1> QED BY <1>1, <1>2, <1>3 DEF AskEnd, AskCancel

\* The goroutines of the bus.
LEMMA TypeBus ==
  ASSUME TypeInv, NEW s \in Subscriber,
         \/ PassData(s)
         \/ s \in Worker /\ (HandleWorkerCancel(s) \/ HandleWorkerEnd(s) \/ EndWaitDone(s))
         \/ HandleCancel \/ EndBegin \/ EndSend
  PROVE  TypeInv'
<1>0. BusFits(bus) /\ bus[s] \in SubFor(s) /\ bus[Self] \in SubFor(Self)
  BY Sets DEF TypeInv, BusFits
<1>1. CASE PassData(s)
  <2>1. bus' = [bus EXCEPT ![s] = passData(bus[s])] /\ passData(bus[s]) \in SubFor(s)
    BY <1>0, <1>1, TakeFits DEF PassData
  <2>2. BusFits(bus')
    BY <1>0, <2>1, ExceptFits
  <2>3. WorkersOK'
    BY <1>1 DEF PassData, TypeInv, WorkersOK, workerVars
  <2>4. RunnerOK'
    BY <1>1 DEF PassData, TypeInv, RunnerOK, runnerVars
  <2> QED BY <2>2, <2>3, <2>4 DEF TypeInv
<1>2. CASE s \in Worker /\ HandleWorkerCancel(s)
  <2> DEFINE b == [bus EXCEPT ![s] = takeSystem(bus[s])]
  <2>1. takeSystem(bus[s]) \in SubFor(s)
    BY <1>0, <1>2, TakeFits DEF HandleWorkerCancel
  <2>2. BusFits(b)
    BY <1>0, <2>1, ExceptFits
  <2>3. bus' = SendAll(b, "CancelWorkerMessage", kids[s])
    BY <1>2 DEF HandleWorkerCancel
  <2> HIDE DEF b
  <2>4. BusFits(bus')
    BY <2>2, <2>3, SendFits
  <2>5. WorkersOK'
    BY <1>2 DEF HandleWorkerCancel, TypeInv, WorkersOK
  <2>6. RunnerOK'
    BY <1>2 DEF HandleWorkerCancel, TypeInv, RunnerOK, runnerVars
  <2> QED BY <2>4, <2>5, <2>6 DEF TypeInv
<1>3. CASE s \in Worker /\ HandleWorkerEnd(s)
  <2> DEFINE b == [bus EXCEPT ![s] = takeData(bus[s])]
             c == [b EXCEPT ![s] = [b[s] EXCEPT !.dispatch = "busy"]]
  <2>1. takeData(bus[s]) \in SubFor(s)
    BY <1>0, <1>3, TakeFits DEF HandleWorkerEnd
  <2>2. BusFits(b)
    BY <1>0, <2>1, ExceptFits
  <2>3. b[s] \in SubFor(s)
    BY <2>2 DEF BusFits
  <2>4. bus' = b \/ bus' = SendAll([b EXCEPT ![s].dispatch = "busy"], "EndWorkerMessage", kids[s])
    BY <1>3 DEF HandleWorkerEnd
  <2> HIDE DEF b
  <2>5. [b[s] EXCEPT !.dispatch = "busy"] \in SubFor(s)
    BY <2>3, PcFits DEF GoPcs
  <2>6. BusFits(c)
    BY <2>2, <2>5, ExceptFits
  <2>7. [b EXCEPT ![s].dispatch = "busy"] = c
    BY <2>2 DEF BusFits
  <2> HIDE DEF c
  <2>8. BusFits(bus')
    BY <2>2, <2>4, <2>6, <2>7, SendFits
  <2>9. WorkersOK'
    BY <1>3 DEF HandleWorkerEnd, TypeInv, WorkersOK
  <2>10. RunnerOK'
    BY <1>3 DEF HandleWorkerEnd, TypeInv, RunnerOK, runnerVars
  <2> QED BY <2>8, <2>9, <2>10 DEF TypeInv
<1>4. CASE s \in Worker /\ EndWaitDone(s)
  <2>1. [bus[s] EXCEPT !.dispatch = "idle"] \in SubFor(s)
    BY <1>0, PcFits DEF GoPcs
  <2>2. bus' = [bus EXCEPT ![s] = [bus[s] EXCEPT !.dispatch = "idle"]]
    BY <1>0, <1>4 DEF EndWaitDone, BusFits
  <2>3. BusFits(bus')
    BY <1>0, <2>1, <2>2, ExceptFits
  <2>4. WorkersOK'
    BY <1>4 DEF EndWaitDone, TypeInv, WorkersOK
  <2>5. RunnerOK'
    BY <1>4 DEF EndWaitDone, TypeInv, RunnerOK, runnerVars
  <2> QED BY <2>3, <2>4, <2>5 DEF TypeInv
<1>5. CASE HandleCancel
  <2>1. bus' = [bus EXCEPT ![Self] = takeSystem(bus[Self])] /\ takeSystem(bus[Self]) \in SubFor(Self)
    BY <1>0, <1>5, TakeFits, Sets DEF HandleCancel
  <2>2. BusFits(bus')
    BY <1>0, <2>1, ExceptFits, Sets
  <2>3. WorkersOK'
    BY <1>5 DEF HandleCancel, TypeInv, WorkersOK, workerVars
  <2>4. RunnerOK'
    BY <1>5 DEF HandleCancel, TypeInv, RunnerOK
  <2> QED BY <2>2, <2>3, <2>4 DEF TypeInv
<1>6. CASE EndBegin
  <2> DEFINE x == IF shutting THEN "idle" ELSE "busy"
  <2>1. takeData(bus[Self]) \in SubFor(Self) /\ x \in GoPcs
    BY <1>0, <1>6, TakeFits, Sets DEF EndBegin, GoPcs
  <2>2. bus' = [bus EXCEPT ![Self] = [takeData(bus[Self]) EXCEPT !.dispatch = x]]
    BY <1>6 DEF EndBegin
  <2> HIDE DEF x
  <2>3. [takeData(bus[Self]) EXCEPT !.dispatch = x] \in SubFor(Self)
    BY <2>1, PcFits, Sets
  <2>4. BusFits(bus')
    BY <1>0, <2>2, <2>3, ExceptFits, Sets
  <2>5. WorkersOK'
    BY <1>6 DEF EndBegin, TypeInv, WorkersOK, workerVars
  <2>6. RunnerOK'
    BY <1>6 DEF EndBegin, TypeInv, RunnerOK
  <2> QED BY <2>4, <2>5, <2>6 DEF TypeInv
<1>7. CASE EndSend
  <2> DEFINE b == SendAll(bus, "EndWorkerMessage", {w \in Root \cap entered : ~finishedEntry(w)})
  <2>1. BusFits(b)
    BY <1>0, SendFits
  <2>2. bus' = [b EXCEPT ![Self].dispatch = "idle"]
    BY <1>7 DEF EndSend
  <2> HIDE DEF b
  <2>3. b[Self] \in SubFor(Self)
    BY <2>1, Sets DEF BusFits
  <2>4. [b[Self] EXCEPT !.dispatch = "idle"] \in SubFor(Self)
    BY <2>3, PcFits, Sets DEF GoPcs
  <2>5. bus' = [b EXCEPT ![Self] = [b[Self] EXCEPT !.dispatch = "idle"]]
    BY <2>1, <2>2, Sets DEF BusFits
  <2>6. BusFits(bus')
    BY <2>1, <2>4, <2>5, ExceptFits, Sets
  <2>7. WorkersOK'
    BY <1>7 DEF EndSend, TypeInv, WorkersOK, workerVars
  <2>8. RunnerOK'
    BY <1>7 DEF EndSend, TypeInv, RunnerOK, runnerVars
  <2> QED BY <2>6, <2>7, <2>8 DEF TypeInv
<1> QED BY <1>1, <1>2, <1>3, <1>4, <1>5, <1>6, <1>7

LEMMA TypeNext == TypeInv /\ [Next]_vars => TypeInv'
<1> SUFFICES ASSUME TypeInv, [Next]_vars PROVE TypeInv'
  OBVIOUS
<1>1. CASE RunStep
  BY <1>1, TypeRun
<1>2. CASE CallerStep
  BY <1>2, TypeAsk, TypeAdd, TypeWorker DEF CallerStep
<1>3. ASSUME NEW w \in Worker, AddStep(w) \/ WorkerStep(w) PROVE TypeInv'
  BY <1>3, TypeAdd, TypeWorker DEF AddStep
<1>4. ASSUME NEW s \in Subscriber, route(s) \/ dispatchData(s) \/ deliverReturns(s)
      PROVE  TypeInv'
  BY <1>4, TypeBus, TypeAdd, Sets DEF route, dispatchData, deliverReturns
<1>5. CASE UNCHANGED vars
  BY <1>5 DEF vars, TypeInv, WorkersOK, RunnerOK, BusFits
<1> QED BY <1>1, <1>2, <1>3, <1>4, <1>5 DEF Next

\* Every message on the bus sits with the one it is for and in the band of its
\* type, so the router, which acts on what comes first, never takes a data message
\* for a system message or the reverse (bus/queue.go, put).
THEOREM TypeCorrect == Spec => []TypeOK
<1> QED BY InvTypes, TypeInit, TypeNext, PTL DEF Spec

(***************************************************************************)
(* No worker is left behind.  While Run waits, every entry that had been   *)
(* started is still waited for or has closed its done channel, which stays *)
(* closed.                                                                 *)
(***************************************************************************)
WaitCovers ==
    run = "awaiting" =>
        \A w \in snapshot : starts[w] > 0 /\ (w \in awaiting \/ phase[w] = "gone")
WaitedFor == run \in {"stopBus", "done"} => \A w \in snapshot : phase[w] = "gone"

NoneInv == WaitCovers /\ WaitedFor

\* Where Run is not concerned: a worker that is gone stays gone, and one that was
\* started stays started.
LEMMA NoneKept ==
  ASSUME TypeInv, NoneInv, UNCHANGED <<run, snapshot, awaiting>>,
         \A w \in Worker : phase[w] = "gone" => phase'[w] = "gone",
         \A w \in Worker : starts[w] > 0 => starts'[w] > 0
  PROVE  NoneInv'
<1>1. snapshot \subseteq Worker
  BY DEF TypeInv, RunnerOK
<1> QED BY <1>1 DEF NoneInv, WaitCovers, WaitedFor

LEMMA NoneNext == TypeInv /\ NoneInv /\ [Next]_vars => NoneInv'
<1> SUFFICES ASSUME TypeInv, NoneInv, [Next]_vars PROVE NoneInv'
  OBVIOUS
<1>0. phase \in [Worker -> Phases] /\ starts \in [Worker -> Nat]
  BY DEF TypeInv, WorkersOK
<1>a. ASSUME UNCHANGED <<run, snapshot, awaiting, phase, starts>> PROVE NoneInv'
  BY <1>a, NoneKept
<1>b. ASSUME NEW w, startWorker(w), UNCHANGED <<run, snapshot, awaiting>> PROVE NoneInv'
  <2>1. \A v \in Worker : phase[v] = "gone" => phase'[v] = "gone"
    BY <1>0, <1>b DEF startWorker
  <2>2. \A v \in Worker : starts[v] > 0 => starts'[v] > 0
    BY <1>0, <1>b DEF startWorker
  <2> QED BY <1>b, <2>1, <2>2, NoneKept
<1>c. ASSUME NEW w, phase[w] # "gone", NEW p, phase' = [phase EXCEPT ![w] = p],
             UNCHANGED <<run, snapshot, awaiting, starts>>
      PROVE  NoneInv'
  <2>1. \A v \in Worker : phase[v] = "gone" => phase'[v] = "gone"
    BY <1>0, <1>c
  <2> QED BY <1>c, <2>1, NoneKept
<1> USE DEF workerVars, runnerVars
<1>1. CASE RunStep
  <2>1. CASE StartBus
    BY <2>1 DEF StartBus, NoneInv, WaitCovers, WaitedFor
  <2>2. CASE setupSession
    BY <2>2 DEF setupSession, NoneInv, WaitCovers, WaitedFor
  <2>3. ASSUME NEW w \in Worker, StartEntry(w) PROVE NoneInv'
    BY <1>b, <2>3 DEF StartEntry
  <2>4. CASE Wait
    BY <2>4 DEF Wait, NoneInv, WaitCovers, WaitedFor
  <2>5. CASE stopRemainingWorkers
    BY <2>5 DEF stopRemainingWorkers, finishedEntry, NoneInv, WaitCovers, WaitedFor
  <2>6. ASSUME NEW w \in Worker, AwaitSkips(w) PROVE NoneInv'
    BY <1>0, <2>6 DEF AwaitSkips, NoneInv, WaitCovers, WaitedFor
  <2>7. CASE StopBus
    BY <2>7 DEF StopBus, finishedEntry, NoneInv, WaitCovers, WaitedFor
  <2>8. CASE RunReturns
    BY <2>8 DEF RunReturns, NoneInv, WaitCovers, WaitedFor
  <2> QED BY <1>1, <2>1, <2>2, <2>3, <2>4, <2>5, <2>6, <2>7, <2>8 DEF RunStep
<1>2. ASSUME NEW w, Enter(w) PROVE NoneInv'
  BY <1>2, <1>c DEF Enter
<1>3. CASE CallerStep
  <2>1. CASE AskEnd \/ AskCancel \/ Cancel \/ ContextEnd
    BY <1>a, <2>1 DEF AskEnd, AskCancel, AskBus, Cancel, ContextEnd
  <2>2. ASSUME NEW w \in Worker, EnterRoot(w) PROVE NoneInv'
    BY <1>2, <2>2 DEF EnterRoot
  <2>3. ASSUME NEW w \in Worker, AddChild(w) \/ FinishItself(w) PROVE NoneInv'
    BY <1>a, <2>3 DEF AddChild, FinishItself
  <2> QED BY <1>3, <2>1, <2>2, <2>3 DEF CallerStep
<1>4. ASSUME NEW w \in Worker, AddStep(w) \/ WorkerStep(w) PROVE NoneInv'
  <2>1. CASE Attach(w)
    BY <1>a, <2>1 DEF Attach
  <2>2. CASE StartNow(w)
    BY <1>b, <2>2 DEF StartNow
  <2>3. CASE WorkerReturns(w)
    BY <1>c, <2>3 DEF WorkerReturns
  <2>4. CASE maybeAutoEnd(w)
    BY <1>c, <2>4 DEF maybeAutoEnd
  <2>5. CASE CloseDone(w)
    BY <1>c, <2>5 DEF CloseDone
  <2> QED BY <1>4, <2>1, <2>2, <2>3, <2>4, <2>5 DEF AddStep, WorkerStep
<1>5. ASSUME NEW s \in Subscriber, route(s) \/ dispatchData(s) \/ deliverReturns(s)
      PROVE  NoneInv'
  <2>1. CASE PassData(s)
    BY <1>a, <2>1 DEF PassData
  <2>2. CASE HandleWorkerCancel(s)
    BY <1>a, <2>2 DEF HandleWorkerCancel
  <2>3. CASE HandleCancel
    BY <1>a, <2>3 DEF HandleCancel
  <2>4. ASSUME NEW w \in Child, EnterChild(w) PROVE NoneInv'
    BY <1>2, <2>4 DEF EnterChild
  <2>5. CASE HandleWorkerEnd(s) \/ EndWaitDone(s)
    BY <1>a, <2>5 DEF HandleWorkerEnd, EndWaitDone
  <2>6. CASE EndBegin \/ EndSend
    BY <1>a, <2>6 DEF EndBegin, EndSend
  <2> QED BY <1>5, <2>1, <2>2, <2>3, <2>4, <2>5, <2>6 DEF route, dispatchData, deliverReturns
<1>6. CASE UNCHANGED vars
  BY <1>6, <1>a DEF vars
<1> QED BY <1>1, <1>3, <1>4, <1>5, <1>6 DEF Next

\* When Run has returned, every worker that had been started by the time its exit
\* path looked has returned and closed its done channel, however late it was added
\* and whether the runner or its parent was to tell it (stopRemainingWorkers).
THEOREM NoneLeftHolds == Spec => []NoneLeft
<1>1. Init => NoneInv
  BY DEF Init, NoneInv, WaitCovers, WaitedFor
<1>2. NoneInv => NoneLeft
  BY DEF NoneInv, WaitedFor, NoneLeft
<1> QED BY <1>1, <1>2, TypeInit, TypeNext, NoneNext, PTL DEF Spec
=============================================================================
