------------------------------- MODULE Runner -------------------------------
(***************************************************************************)
(* The runner and the workers it hosts (workers/runner.go, workers.go):    *)
(* adding workers before and while it runs, parents and children, ending   *)
(* by itself, ending, canceling, the caller's context ending, and the exit *)
(* path that tells every worker and waits for it, all over the bus.        *)
(*                                                                         *)
(* One action is one critical section of the runner's lock, one message    *)
(* handled, or one step of a goroutine between two of those.               *)
(***************************************************************************)
EXTENDS Integers, Sequences, FiniteSets, Bus

CONSTANTS Worker,       \* every worker of a behaviour
          Child,        \* the ones a parent adds; the others are root workers
          Parent,       \* Parent[c]: the worker that may add the child c
          Early,        \* the root workers added before Run
          Asks,         \* what the callers may do
          MaxAsks,      \* the bound on how many of them they do, each at most once
          Self          \* the runner's own name on the bus

ASSUME ChildAssumption == Child \subseteq Worker /\ Parent \in [Child -> Worker \ Child]
ASSUME EarlyAssumption == Early \subseteq Worker \ Child
ASSUME AsksAssumption == Asks \subseteq {"end", "cancel", "signal", "contextEnd"}
ASSUME MaxAsksAssumption == MaxAsks \in Nat
ASSUME SelfAssumption == Self \notin Worker

Root == Worker \ Child

VARIABLES
    phase,      \* per worker: "out"; "entered" in the runner's map; "running";
                \* "returned" from its run; "checked", past maybeAutoEnd; "gone", its
                \* done channel closed
    startNow,   \* per worker: what AddWorkers read of started when it entered it
    starts,     \* per worker: how often startWorker was called
    finished,   \* the workers whose own finished channel is closed (Stop)
    kids,       \* per worker: the children it added
    endWait,    \* per worker: the children its HandleWorkerEnd waits for
    bus,        \* per subscriber: its subscription, or NoSub
    adding,     \* the worker the runner's router is adding, or NoOne
    ending,     \* the runner's dispatcher is inside End, past beginShutdown
    run,        \* where Run is
    started, shutting, contextEnded,
    toStart,    \* the entries setupSession took and has still to start
    awaiting,   \* the entries the exit path has told and still waits for
    snapshot,   \* history: the entries started when the exit path looked
    lost,       \* history: the workers that were not on the bus when the exit path,
                \* or their parent leaving, told them to stop
    asks        \* what callers may still do

vars == <<phase, startNow, starts, finished, kids, endWait, bus, adding, ending, run,
          started, shutting, contextEnded, toStart, awaiting, snapshot, lost,
          asks>>

runnerVars == <<run, started, shutting, toStart, awaiting, snapshot>>
workerVars == <<phase, startNow, starts, finished, kids, endWait, lost>>

NoOne == "no one"
NoSub == [queue |-> [system |-> <<>>, data |-> <<>>], dataQueue |-> <<>>,
          route |-> "none", dispatch |-> "none"]

Subscriber == Worker \cup {Self}
Message(t, to, w) == [type |-> t, to |-> to, worker |-> w]

subscribed(s) == bus[s].route # "none"
busRunning == run \notin {"new", "stopBus", "done"}
busEnded == contextEnded \/ run \in {"stopBus", "done"}

\* Send, to each of a set of workers: a worker not subscribed yet misses it.
SendAll(b, t, S) == [s \in Subscriber |->
    IF s \in S /\ subscribed(s) THEN Receive(b[s], Message(t, s, NoOne)) ELSE b[s]]

entered == {w \in Worker : phase[w] # "out"}
running(w) == phase[w] \in {"running", "returned", "checked"}
finishedEntry(w) == phase[w] = "gone"

Init ==
    /\ phase = [w \in Worker |-> IF w \in Early THEN "entered" ELSE "out"]
    /\ startNow = [w \in Worker |-> FALSE] /\ starts = [w \in Worker |-> 0]
    /\ finished = {} /\ kids = [w \in Worker |-> {}] /\ endWait = [w \in Worker |-> {}]
    /\ bus = [s \in Subscriber |-> IF s \in Early THEN Subscribe(FALSE) ELSE NoSub]
    /\ adding = NoOne /\ ending = FALSE
    /\ run = "new" /\ started = FALSE /\ shutting = FALSE /\ contextEnded = FALSE
    /\ toStart = {} /\ awaiting = {} /\ snapshot = {} /\ lost = {} /\ asks = Asks

(***************************************************************************)
(* Adding a worker: enter it in the map, attach it, start it.  A root      *)
(* worker is added on a goroutine of its own, a child on the runner's      *)
(* router when the parent's message arrives.                               *)
(***************************************************************************)
Enter(w) ==
    /\ phase[w] = "out"
    /\ phase' = [phase EXCEPT ![w] = "entered"]
    /\ startNow' = [startNow EXCEPT ![w] = started]
    /\ UNCHANGED <<starts, finished, kids, endWait, lost, ending, runnerVars, contextEnded,
                   asks>>

EnterRoot(w) == w \in Root /\ run # "done" /\ Enter(w) /\ UNCHANGED <<adding, bus>>

EnterChild(w) ==
    /\ w \in Child /\ systemNext(bus[Self])
    /\ nextSystem(bus[Self]) = Message("AddWorkerMessage", Self, w)
    /\ Enter(w)
    /\ bus' = [bus EXCEPT ![Self] = [takeSystem(@) EXCEPT !.route = "busy"]]
    /\ adding' = w

\* The router is done with a child once it needs no starting, or was started.
Added(b, w) == IF adding = w THEN [b EXCEPT ![Self].route = "idle"] ELSE b

Attach(w) ==
    /\ w \in entered /\ ~subscribed(w)
    /\ LET b == [bus EXCEPT ![w] = Subscribe(busRunning)] IN
         IF startNow[w] THEN bus' = b /\ UNCHANGED adding
         ELSE bus' = Added(b, w) /\ adding' = IF adding = w THEN NoOne ELSE adding
    /\ UNCHANGED <<workerVars, ending, runnerVars, contextEnded, asks>>

\* startWorker: the entry gets its done channel and the worker its goroutine.
startWorker(w) ==
    /\ starts' = [starts EXCEPT ![w] = @ + 1]
    /\ phase' = [phase EXCEPT ![w] = IF @ = "entered" THEN "running" ELSE @]

StartNow(w) ==
    /\ subscribed(w) /\ startNow[w]
    /\ startWorker(w)
    /\ startNow' = [startNow EXCEPT ![w] = FALSE]
    /\ bus' = Added(bus, w) /\ adding' = IF adding = w THEN NoOne ELSE adding
    /\ UNCHANGED <<finished, kids, endWait, lost, ending, runnerVars, contextEnded, asks>>

\* A worker adds one of its children.
AddChild(c) ==
    /\ c \in Child
    /\ LET p == Parent[c] IN
         /\ phase[p] = "running" /\ c \notin kids[p]
         /\ kids' = [kids EXCEPT ![p] = @ \cup {c}]
         /\ bus' = [bus EXCEPT ![Self] = Receive(@, Message("AddWorkerMessage", Self, c))]
    /\ UNCHANGED <<phase, startNow, starts, finished, endWait, lost, adding, ending, runnerVars,
                   contextEnded, asks>>

(***************************************************************************)
(* Run.                                                                    *)
(***************************************************************************)
\* setupSession: subscribe, start the bus, take the entries and mark it started.
StartBus ==
    /\ run = "new"
    /\ run' = "busUp"
    /\ bus' = [s \in Subscriber |-> IF s = Self THEN Subscribe(TRUE)
                                    ELSE IF subscribed(s) THEN startDispatch(bus[s])
                                    ELSE bus[s]]
    /\ UNCHANGED <<workerVars, adding, ending, started, shutting, toStart, awaiting,
                   snapshot, contextEnded, asks>>

setupSession ==
    /\ run = "busUp"
    /\ run' = "starting" /\ started' = TRUE /\ toStart' = entered
    /\ UNCHANGED <<workerVars, bus, adding, ending, shutting, awaiting, snapshot,
                   contextEnded, asks>>

StartEntry(w) ==
    /\ run = "starting" /\ w \in toStart
    /\ startWorker(w)
    /\ toStart' = toStart \ {w}
    /\ UNCHANGED <<startNow, finished, kids, endWait, lost, bus, adding, ending, run, started,
                   shutting, awaiting, snapshot, contextEnded, asks>>

Wait ==
    /\ run = "starting" /\ toStart = {}
    /\ shutting \/ contextEnded
    /\ run' = "telling"
    /\ UNCHANGED <<workerVars, bus, adding, ending, started, shutting, toStart, awaiting,
                   snapshot, contextEnded, asks>>

\* Waits for the workers it has told, and not for their children.
stopRemainingWorkers_told ==
    /\ run = "telling"
    /\ run' = "awaiting"
    /\ snapshot' = {w \in entered : starts[w] > 0}
    /\ LET told == {w \in Root \cap entered : ~finishedEntry(w)} IN
         /\ awaiting' = told
         /\ bus' = SendAll(bus, "CancelWorkerMessage", told)
         /\ lost' = lost \cup {w \in told : ~subscribed(w)}
    /\ UNCHANGED <<phase, startNow, starts, finished, kids, endWait, adding, ending,
                   started, shutting, toStart, contextEnded, asks>>

\* stopRemainingWorkers: tell the root workers that have not finished, and wait
\* for every entry that was started, the children included.
stopRemainingWorkers ==
    /\ run = "telling"
    /\ run' = "awaiting"
    /\ awaiting' = {w \in entered : ~finishedEntry(w)}
    /\ snapshot' = {w \in entered : starts[w] > 0}
    /\ LET told == {w \in Root \cap entered : ~finishedEntry(w)} IN
         /\ bus' = SendAll(bus, "CancelWorkerMessage", told)
         /\ lost' = lost \cup {w \in told : ~subscribed(w)}
    /\ UNCHANGED <<phase, startNow, starts, finished, kids, endWait, adding, ending,
                   started, shutting, toStart, contextEnded, asks>>

\* The wait goes on past an entry that is not started when its turn comes.
AwaitSkips(w) ==
    /\ run = "awaiting" /\ w \in awaiting /\ starts[w] = 0
    /\ awaiting' = awaiting \ {w}
    /\ UNCHANGED <<workerVars, bus, adding, ending, run, started, shutting, toStart,
                   snapshot, contextEnded, asks>>

StopBus ==
    /\ run = "awaiting" /\ \A w \in awaiting : finishedEntry(w)
    /\ run' = "stopBus"
    /\ UNCHANGED <<workerVars, bus, adding, ending, started, shutting, toStart, awaiting,
                   snapshot, contextEnded, asks>>

\* The bus has stopped once the handlers under way have returned.
RunReturns ==
    /\ run = "stopBus"
    /\ \A s \in Subscriber : resting(bus[s])
    /\ run' = "done" /\ started' = FALSE
    /\ bus' = [s \in Subscriber |-> IF subscribed(s) THEN stop(bus[s]) ELSE bus[s]]
    /\ UNCHANGED <<workerVars, adding, ending, shutting, toStart, awaiting, snapshot,
                   contextEnded, asks>>

(***************************************************************************)
(* The goroutine that runs one worker.                                     *)
(***************************************************************************)
\* The context a worker runs under: Run's, or the bus's for one its router added.
workerContextEnded(w) == contextEnded \/ (w \in Child /\ busEnded)

\* A pipeline comes to its own end, a root worker's or a child's.
FinishItself(w) ==
    /\ phase[w] = "running" /\ w \notin finished
    /\ finished' = finished \cup {w}
    /\ UNCHANGED <<phase, startNow, starts, kids, endWait, lost, bus, adding, ending,
                   runnerVars, contextEnded, asks>>

\* A pipeline that came to its own end leaves its children alone.
WorkerReturns_alone(w) ==
    /\ phase[w] = "running"
    /\ w \in finished \/ workerContextEnded(w)
    /\ phase' = [phase EXCEPT ![w] = IF w \in Child THEN "checked" ELSE "returned"]
    /\ finished' = finished \cup {w}
    /\ UNCHANGED <<startNow, starts, kids, endWait, lost, bus, adding, ending, runnerVars,
                   contextEnded, asks>>

\* The worker's run is over.  The last thing a pipeline does is to cancel its
\* children.
WorkerReturns(w) ==
    /\ phase[w] = "running"
    /\ w \in finished \/ workerContextEnded(w)
    /\ phase' = [phase EXCEPT ![w] = IF w \in Child THEN "checked" ELSE "returned"]
    /\ finished' = finished \cup {w}
    /\ bus' = SendAll(bus, "CancelWorkerMessage", kids[w])
    /\ lost' = lost \cup {c \in kids[w] : ~subscribed(c)}
    /\ UNCHANGED <<startNow, starts, kids, endWait, adding, ending, runnerVars,
                   contextEnded, asks>>

\* The last root worker to finish ends the runner.  done is closed only after
\* that, in a step of its own.
mayAutoEnd(w) == \A v \in (Root \cap entered) \ {w} : ~running(v)

maybeAutoEnd(w) ==
    /\ phase[w] = "returned"
    /\ phase' = [phase EXCEPT ![w] = "checked"]
    /\ shutting' = (shutting \/ mayAutoEnd(w))
    /\ UNCHANGED <<startNow, starts, finished, kids, endWait, lost, bus, adding, ending, run,
                   started, toStart, awaiting, snapshot, contextEnded, asks>>

CloseDone(w) ==
    /\ phase[w] = "checked"
    /\ phase' = [phase EXCEPT ![w] = "gone"]
    /\ UNCHANGED <<startNow, starts, finished, kids, endWait, lost, bus, adding, ending,
                   runnerVars, contextEnded, asks>>

(***************************************************************************)
(* The goroutines of the bus.                                              *)
(***************************************************************************)
PassData(s) ==
    /\ dataNext(bus[s])
    /\ bus' = [bus EXCEPT ![s] = passData(@)]
    /\ UNCHANGED <<workerVars, adding, ending, runnerVars, contextEnded, asks>>

\* The runner's router takes a CancelMessage.
HandleCancel ==
    /\ systemNext(bus[Self]) /\ nextSystem(bus[Self]).type = "CancelMessage"
    /\ bus' = [bus EXCEPT ![Self] = takeSystem(@)]
    /\ shutting' = TRUE
    /\ UNCHANGED <<workerVars, adding, ending, run, started, toStart, awaiting, snapshot,
                   contextEnded, asks>>

\* The runner's dispatcher takes an EndMessage: the first to begin the shutdown
\* then asks every root worker that has not finished to end.
EndBegin ==
    /\ dispatchNext(bus[Self])
    /\ shutting' = TRUE /\ ending' = ~shutting
    /\ bus' = [bus EXCEPT ![Self] = [takeData(@) EXCEPT
                                       !.dispatch = IF shutting THEN "idle" ELSE "busy"]]
    /\ UNCHANGED <<workerVars, adding, run, started, toStart, awaiting, snapshot,
                   contextEnded, asks>>

EndSend ==
    /\ ending
    /\ ending' = FALSE
    /\ bus' = LET b == SendAll(bus, "EndWorkerMessage",
                               {w \in Root \cap entered : ~finishedEntry(w)})
              IN [b EXCEPT ![Self].dispatch = "idle"]
    /\ UNCHANGED <<workerVars, adding, runnerVars, contextEnded, asks>>

\* A worker's router takes its CancelWorkerMessage: pass it on and stop.
HandleWorkerCancel(w) ==
    /\ systemNext(bus[w])
    /\ finished' = finished \cup {w}
    /\ bus' = SendAll([bus EXCEPT ![w] = takeSystem(@)], "CancelWorkerMessage", kids[w])
    /\ UNCHANGED <<phase, startNow, starts, kids, endWait, lost, adding, ending, runnerVars,
                   contextEnded, asks>>

\* A worker's dispatcher takes its EndWorkerMessage: pass it on, wait for the
\* children to finish or for the bus to end, and stop.
HandleWorkerEnd(w) ==
    /\ dispatchNext(bus[w])
    /\ endWait' = [endWait EXCEPT ![w] = kids[w]]
    /\ LET b == [bus EXCEPT ![w] = takeData(@)] IN
         IF kids[w] = {} THEN bus' = b /\ finished' = finished \cup {w}
         ELSE /\ bus' = SendAll([b EXCEPT ![w].dispatch = "busy"], "EndWorkerMessage",
                                kids[w])
              /\ UNCHANGED finished
    /\ UNCHANGED <<phase, startNow, starts, kids, lost, adding, ending, runnerVars,
                   contextEnded, asks>>

childrenEnded(w) == endWait[w] \subseteq finished \/ busEnded

EndWaitDone(w) ==
    /\ bus[w].dispatch = "busy" /\ childrenEnded(w)
    /\ finished' = finished \cup {w}
    /\ endWait' = [endWait EXCEPT ![w] = {}]
    /\ bus' = [bus EXCEPT ![w].dispatch = "idle"]
    /\ UNCHANGED <<phase, startNow, starts, kids, lost, adding, ending, runnerVars,
                   contextEnded, asks>>

(***************************************************************************)
(* What callers do: a worker asks for the session to end or be canceled,   *)
(* a signal cancels the runner, the context of Run ends.                   *)
(***************************************************************************)
ask(a) ==
    /\ run # "done" /\ a \in asks
    /\ Cardinality(Asks) < Cardinality(asks) + MaxAsks
    /\ asks' = asks \ {a}

AskBus(a, t) ==
    /\ ask(a) /\ subscribed(Self)
    /\ bus' = [bus EXCEPT ![Self] = Receive(@, Message(t, Self, NoOne))]
    /\ UNCHANGED <<workerVars, adding, ending, runnerVars, contextEnded>>

AskEnd == AskBus("end", "EndMessage")
AskCancel == AskBus("cancel", "CancelMessage")

Cancel ==
    /\ ask("signal")
    /\ shutting' = TRUE
    /\ UNCHANGED <<workerVars, bus, adding, ending, run, started, toStart, awaiting,
                   snapshot, contextEnded>>

ContextEnd ==
    /\ ask("contextEnd")
    /\ contextEnded' = TRUE
    /\ UNCHANGED <<workerVars, bus, adding, ending, runnerVars>>

\* The goroutines: Run, the one adding a worker, a worker's own, and for each
\* subscription its router and its dispatcher, which takes a message and then
\* finishes with it.
RunStep == \/ StartBus \/ setupSession \/ Wait \/ stopRemainingWorkers \/ StopBus
           \/ RunReturns \/ \E w \in Worker : StartEntry(w) \/ AwaitSkips(w)

AddStep(w) == Attach(w) \/ StartNow(w)
WorkerStep(w) == WorkerReturns(w) \/ maybeAutoEnd(w) \/ CloseDone(w)

route(s) == \/ PassData(s)
            \/ s \in Worker /\ HandleWorkerCancel(s)
            \/ s = Self /\ (HandleCancel \/ \E w \in Child : EnterChild(w))
dispatchData(s) == (s \in Worker /\ HandleWorkerEnd(s)) \/ (s = Self /\ EndBegin)
deliverReturns(s) == (s \in Worker /\ EndWaitDone(s)) \/ (s = Self /\ EndSend)

CallerStep == \/ AskEnd \/ AskCancel \/ Cancel \/ ContextEnd
              \/ \E w \in Worker : EnterRoot(w) \/ AddChild(w) \/ FinishItself(w)

Next == \/ RunStep \/ CallerStep
        \/ \E w \in Worker : AddStep(w) \/ WorkerStep(w)
        \/ \E s \in Subscriber : route(s) \/ dispatchData(s) \/ deliverReturns(s)

Spec == Init /\ [][Next]_vars

\* What the goroutines do, those of the bus while it is up and until the handler
\* under way is done.
GoroutineStep ==
    \/ RunStep
    \/ \E w \in Worker : WorkerStep(w) \/ AddStep(w)
    \/ \E s \in Subscriber : \/ ~busEnded /\ (route(s) \/ dispatchData(s))
                             \/ deliverReturns(s)

\* As long as a goroutine can run, one does.  None can go on for ever, since every
\* message and call is sent a bounded number of times, so each gets its turn; less
\* is asked than fairness of each.  Nobody has to call anything, and no pipeline has
\* to come to an end by itself.
Fairness == WF_vars(GoroutineStep)

FairSpec == Spec /\ Fairness

(***************************************************************************)
(* Properties.                                                             *)
(***************************************************************************)
Messages == [type : {"CancelMessage", "EndMessage", "AddWorkerMessage",
                     "CancelWorkerMessage", "EndWorkerMessage"},
             to : Subscriber, worker : Worker \cup {NoOne}]

\* The state keeps its shape, and every message sits with the one it is for, in
\* the band its type belongs to.
TypeOK ==
    /\ phase \in [Worker -> {"out", "entered", "running", "returned", "checked",
                             "gone"}]
    /\ startNow \in [Worker -> BOOLEAN] /\ starts \in [Worker -> Nat]
    /\ finished \subseteq Worker /\ kids \in [Worker -> SUBSET Child]
    /\ endWait \in [Worker -> SUBSET Child] /\ lost \subseteq Worker
    /\ adding \in Child \cup {NoOne} /\ ending \in BOOLEAN
    /\ run \in {"new", "busUp", "starting", "telling", "awaiting", "stopBus", "done"}
    /\ started \in BOOLEAN /\ shutting \in BOOLEAN /\ contextEnded \in BOOLEAN
    /\ toStart \subseteq Worker /\ awaiting \subseteq Worker /\ snapshot \subseteq Worker
    /\ asks \subseteq Asks
    /\ \A s \in Subscriber :
         LET q == bus[s].queue IN
           /\ \A i \in DOMAIN q.system : q.system[i].to = s /\ isSystem(q.system[i])
           /\ \A i \in DOMAIN q.data : q.data[i].to = s /\ ~isSystem(q.data[i])
           /\ \A i \in DOMAIN bus[s].dataQueue : ~isSystem(bus[s].dataQueue[i])

\* When Run has returned, every worker it had started before it began to stop
\* them has returned too, a child as well as a root worker.
NoneLeft == run = "done" => \A w \in snapshot : phase[w] = "gone"

\* Once the runner is asked to stop, or its context ends, Run returns, unless a
\* worker missed the message that stops it by not being on the bus yet.
ShutdownReturns == (shutting \/ contextEnded) ~> (run = "done" \/ lost # {})

\* Run ends once every root worker has finished.
AutoEnds ==
    (/\ started
     /\ \A w \in Root : phase[w] \in {"out", "gone"}
     /\ \E w \in Root : phase[w] = "gone") ~> (run = "done" \/ lost # {})
=============================================================================
