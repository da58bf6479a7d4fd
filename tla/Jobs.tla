-------------------------------- MODULE Jobs --------------------------------
(***************************************************************************)
(* Jobs between workers (workers/jobs.go, pipeline/jobcontext): one worker *)
(* asks others for a job and tracks their answers in a group, which ends   *)
(* when all have answered, when one reports an error, when its time is up  *)
(* or when the caller calls it off; a worker takes requests on, runs a     *)
(* handler for each, in turn, and answers, unless it is called off first,  *)
(* stopped, or put out of the way.  Everything goes over the bus.          *)
(*                                                                         *)
(* The handlers are of one sequential kind.  Progress reports and streams, *)
(* which change no state kept here, are left out.                          *)
(***************************************************************************)
EXTENDS Integers, Sequences, FiniteSets, Bus

CONSTANTS Worker,         \* the workers asked
          Requester,      \* the one that asks
          Job,            \* job ids
          WorkerNames,    \* WorkerNames[j]: the workers the job j goes to
          CancelOnError,  \* the jobs one failing worker calls off
          Timed,          \* the jobs asked for with a timeout
          MayStop,        \* the workers that may stop
          MayDeactivate,  \* the workers that may be deactivated
          NoJob

ASSUME RequesterAssumption == Requester \notin Worker
ASSUME WorkerNamesAssumption == WorkerNames \in [Job -> SUBSET Worker]
ASSUME JobSetsAssumption == CancelOnError \subseteq Job /\ Timed \subseteq Job
ASSUME WorkerSetsAssumption == MayStop \subseteq Worker /\ MayDeactivate \subseteq Worker
ASSUME NoJobAssumption == NoJob \notin Job

VARIABLES
    bus,          \* per subscriber: its subscription
    group,        \* per job: "none", "open" while in the map of groups, "completed",
                  \* "failed"
    responses,    \* per job: the workers whose answer the group holds
    finishes,     \* history: how often the group was finished
    timer,        \* per job: the timeout goroutine, "off", "on", or "fired"
    toRequest,    \* per job: the workers the request is still to be sent to
    tracking,     \* the answer each goroutine of the requester's is in the middle of
    activeJobs,   \* per worker: the jobs it has taken on and not answered
    handler,      \* per worker and job: "none", "waiting", "running" or "ended"
    canceled,     \* per worker: the jobs whose handler's context was canceled
    wait,         \* per worker and job: the job whose release its handler waits for
    sequential,   \* per worker: the last request in the chain of turns
    answering,    \* per worker: the jobs answered by their handler, not forgotten yet
    stopping,     \* per worker: the job its router is calling off
    active,       \* per worker: whether it takes messages
    stopped,      \* the workers that have stopped
    skipped       \* history, per worker: the jobs called off while they waited

requesterVars == <<group, responses, finishes, timer, toRequest, tracking>>
workerVars == <<activeJobs, handler, canceled, wait, sequential, answering, stopping,
                active, stopped, skipped>>
vars == <<bus, requesterVars, workerVars>>

NoAnswer == [type |-> "none", job |-> NoJob, from |-> Requester, status |-> "none"]
Message(t, j, w, st) == [type |-> t, job |-> j, from |-> w, status |-> st]
Goroutines == {"route", "dispatch"}

Init ==
    /\ bus = [s \in Worker \cup {Requester} |-> Subscribe(TRUE)]
    /\ group = [j \in Job |-> "none"] /\ responses = [j \in Job |-> {}]
    /\ finishes = [j \in Job |-> 0] /\ timer = [j \in Job |-> "off"]
    /\ toRequest = [j \in Job |-> {}] /\ tracking = [g \in Goroutines |-> NoAnswer]
    /\ activeJobs = [w \in Worker |-> {}]
    /\ handler = [w \in Worker |-> [j \in Job |-> "none"]]
    /\ canceled = [w \in Worker |-> {}]
    /\ wait = [w \in Worker |-> [j \in Job |-> NoJob]]
    /\ sequential = [w \in Worker |-> NoJob] /\ answering = [w \in Worker |-> {}]
    /\ stopping = [w \in Worker |-> NoJob]
    /\ active = [w \in Worker |-> TRUE] /\ stopped = {}
    /\ skipped = [w \in Worker |-> {}]

(***************************************************************************)
(* The requester's side.                                                   *)
(***************************************************************************)
\* The group is opened without its timeout.
createGroup_untimed(j) ==
    /\ group[j] = "none"
    /\ group' = [group EXCEPT ![j] = "open"]
    /\ toRequest' = [toRequest EXCEPT ![j] = WorkerNames[j]]
    /\ UNCHANGED <<bus, responses, finishes, timer, tracking, workerVars>>

\* CreateGroupAndRequestJob, the workers being ready: open the group, start its
\* timeout, then send the requests.
createGroup(j) ==
    /\ group[j] = "none"
    /\ group' = [group EXCEPT ![j] = "open"]
    /\ timer' = [timer EXCEPT ![j] = IF j \in Timed THEN "on" ELSE "off"]
    /\ toRequest' = [toRequest EXCEPT ![j] = WorkerNames[j]]
    /\ UNCHANGED <<bus, responses, finishes, tracking, workerVars>>

SendRequest(j, w) ==
    /\ w \in toRequest[j]
    /\ toRequest' = [toRequest EXCEPT ![j] = @ \ {w}]
    /\ bus' = [bus EXCEPT ![w] = Receive(@, Message("JobRequestMessage", j, Requester, "none"))]
    /\ UNCHANGED <<group, responses, finishes, timer, tracking, workerVars>>

CancelTimeout(t) == IF t = "on" THEN "off" ELSE t

\* CancelGroup: whoever takes the group out of the map tells its workers and
\* fails it; for anyone else it does nothing.
CancelGroup(b, j) ==
    IF group[j] # "open" THEN bus' = b /\ UNCHANGED <<group, finishes, timer>>
    ELSE /\ group' = [group EXCEPT ![j] = "failed"]
         /\ finishes' = [finishes EXCEPT ![j] = @ + 1]
         /\ timer' = [timer EXCEPT ![j] = CancelTimeout(@)]
         /\ bus' = [s \in DOMAIN b |->
              IF s \in WorkerNames[j]
              THEN Receive(b[s], Message("JobCancelMessage", j, Requester, "none"))
              ELSE b[s]]

\* The timeout goroutine: its timer fires, and then it calls the group off.
TimerFires(j) ==
    /\ timer[j] = "on"
    /\ timer' = [timer EXCEPT ![j] = "fired"]
    /\ UNCHANGED <<bus, group, responses, finishes, toRequest, tracking, workerVars>>

TimerCancels(j) ==
    /\ timer[j] = "fired" /\ group[j] = "open"
    /\ CancelGroup(bus, j)
    /\ UNCHANGED <<responses, toRequest, tracking, workerVars>>

\* The block around a job failed.
cancelGroup(j) ==
    /\ group[j] = "open" /\ toRequest[j] = {}
    /\ CancelGroup(bus, j)
    /\ UNCHANGED <<responses, toRequest, tracking, workerVars>>

\* An answer arrives, on the router when it is urgent and on the dispatcher
\* otherwise: the group still in the map takes it.
takes(b, g) == IF g = "route" THEN takeSystem(b) ELSE takeData(b)
hasNext(b, g) == IF g = "route" THEN systemNext(b) ELSE dispatchNext(b)
nextOf(b, g) == IF g = "route" THEN nextSystem(b) ELSE nextData(b)

handleJobResponse(g) ==
    LET m == nextOf(bus[Requester], g) IN
    /\ hasNext(bus[Requester], g)
    /\ IF group[m.job] = "open"
       THEN /\ responses' = [responses EXCEPT ![m.job] = @ \cup {m.from}]
            /\ tracking' = [tracking EXCEPT ![g] = m]
            /\ bus' = [bus EXCEPT ![Requester] = [takes(@, g) EXCEPT ![g] = "busy"]]
       ELSE /\ bus' = [bus EXCEPT ![Requester] = takes(@, g)]
            /\ UNCHANGED <<responses, tracking>>
    /\ UNCHANGED <<group, finishes, timer, toRequest, workerVars>>

respondedToAll(j) == WorkerNames[j] \subseteq responses[j]

\* The rest of it: an error calls a group off, and the group that all have
\* answered is finished, by whoever takes it out of the map.
completes_unlocked(j) == respondedToAll(j)

completes(j) == group[j] = "open" /\ respondedToAll(j)

trackGroupResponse(g) ==
    LET m == tracking[g]
        idle == [bus EXCEPT ![Requester][g] = "idle"]
    IN
    /\ m # NoAnswer
    /\ tracking' = [tracking EXCEPT ![g] = NoAnswer]
    /\ IF m.status = "error" /\ m.job \in CancelOnError THEN CancelGroup(idle, m.job)
       ELSE /\ bus' = idle
            /\ IF completes(m.job)
               THEN /\ group' = [group EXCEPT ![m.job] = "completed"]
                    /\ finishes' = [finishes EXCEPT ![m.job] = @ + 1]
                    /\ timer' = [timer EXCEPT ![m.job] = CancelTimeout(@)]
               ELSE UNCHANGED <<group, finishes, timer>>
    /\ UNCHANGED <<responses, toRequest, workerVars>>

(***************************************************************************)
(* A worker's side: its router and dispatcher, which drop what an inactive *)
(* worker does not accept.                                                 *)
(***************************************************************************)
PassData(s) ==
    /\ dataNext(bus[s])
    /\ bus' = [bus EXCEPT ![s] = IF s = Requester \/ active[s] THEN passData(@)
                                 ELSE dropData(@)]
    /\ UNCHANGED <<requesterVars, workerVars>>

handleJobRequest(w) ==
    LET j == nextData(bus[w]).job IN
    /\ dispatchNext(bus[w])
    /\ bus' = [bus EXCEPT ![w] = takeData(@)]
    /\ IF active[w]
       THEN /\ activeJobs' = [activeJobs EXCEPT ![w] = @ \cup {j}]
            /\ handler' = [handler EXCEPT ![w][j] = "waiting"]
            /\ wait' = [wait EXCEPT ![w][j] = sequential[w]]
            /\ sequential' = [sequential EXCEPT ![w] = j]
       ELSE UNCHANGED <<activeJobs, handler, wait, sequential>>
    /\ UNCHANGED <<requesterVars, canceled, answering, stopping, active, stopped, skipped>>

\* A request's turn comes when the one before it is released, whether it ran or
\* was called off while it waited.
myTurn_begun(w, j) == wait[w][j] # NoJob => handler[w][wait[w][j]] # "waiting"

myTurn(w, j) == wait[w][j] # NoJob => handler[w][wait[w][j]] = "ended"

runJobHandler(w, j) ==
    /\ handler[w][j] = "waiting" /\ myTurn(w, j)
    /\ handler' = [handler EXCEPT ![w][j] = "running"]
    /\ UNCHANGED <<bus, requesterVars, activeJobs, canceled, wait, sequential, answering,
                   stopping, active, stopped, skipped>>

CalledOffWaiting(w, j) ==
    /\ handler[w][j] = "waiting" /\ j \in canceled[w]
    /\ skipped' = [skipped EXCEPT ![w] = @ \cup {j}]
    /\ handler' = [handler EXCEPT ![w][j] = "ended"]
    /\ UNCHANGED <<bus, requesterVars, activeJobs, canceled, wait, sequential, answering,
                   stopping, active, stopped>>

\* An answer to whoever sent the request; and one sent to the worker itself.
Answer_self(b, w, j, t, st) == [b EXCEPT ![w] = Receive(@, Message(t, j, w, st))]

Answer(b, w, j, t, st) == [b EXCEPT ![Requester] = Receive(@, Message(t, j, w, st))]

\* SendJobResponse by the handler: send while the job is active, then forget it.
SendJobResponse(w, j, t, st) ==
    /\ handler[w][j] = "running" /\ j \in activeJobs[w] \ answering[w]
    /\ bus' = Answer(bus, w, j, t, st)
    /\ answering' = [answering EXCEPT ![w] = @ \cup {j}]
    /\ UNCHANGED <<requesterVars, activeJobs, handler, canceled, wait, sequential, stopping,
                   active, stopped, skipped>>

forgetActiveJob(w, j) ==
    /\ j \in answering[w]
    /\ answering' = [answering EXCEPT ![w] = @ \ {j}]
    /\ activeJobs' = [activeJobs EXCEPT ![w] = @ \ {j}]
    /\ UNCHANGED <<bus, requesterVars, handler, canceled, wait, sequential, stopping,
                   active, stopped, skipped>>

HandlerReturns(w, j) ==
    /\ handler[w][j] = "running" /\ j \notin answering[w]
    /\ handler' = [handler EXCEPT ![w][j] = "ended"]
    /\ UNCHANGED <<bus, requesterVars, activeJobs, canceled, wait, sequential, answering,
                   stopping, active, stopped, skipped>>

\* The router takes a JobCancelMessage: for an active job it cancels the handler
\* and waits for it.
handleJobCancel(w) ==
    LET j == nextSystem(bus[w]).job IN
    /\ systemNext(bus[w])
    /\ IF active[w] /\ j \in activeJobs[w]
       THEN /\ bus' = [bus EXCEPT ![w] = [takeSystem(@) EXCEPT !.route = "busy"]]
            /\ stopping' = [stopping EXCEPT ![w] = j]
            /\ canceled' = [canceled EXCEPT ![w] = @ \cup {j}]
       ELSE bus' = [bus EXCEPT ![w] = takeSystem(@)] /\ UNCHANGED <<stopping, canceled>>
    /\ UNCHANGED <<requesterVars, activeJobs, handler, wait, sequential, answering, active,
                   stopped, skipped>>

\* The handler has returned, or the wait for it is up: answer, unless someone has.
mayAnswer_patient(w) == stopping[w] # NoJob /\ handler[w][stopping[w]] = "ended"

mayAnswer(w) == stopping[w] # NoJob

CancelAnswers(w) ==
    LET j == stopping[w]
        idle == [bus EXCEPT ![w].route = "idle"]
    IN
    /\ mayAnswer(w)
    /\ stopping' = [stopping EXCEPT ![w] = NoJob]
    /\ bus' = IF j \in activeJobs[w] THEN Answer(idle, w, j, "JobResponseMessage", "cancelled")
              ELSE idle
    /\ activeJobs' = [activeJobs EXCEPT ![w] = @ \ {j}]
    /\ UNCHANGED <<requesterVars, handler, canceled, wait, sequential, answering, active,
                   stopped, skipped>>

\* activeJobIDs: the jobs in the order a map happens to yield them.
Orders(S) == {o \in [1..Cardinality(S) -> S] : \A i, k \in DOMAIN o : o[i] = o[k] => i = k}

\* Stop answers every job the worker holds and cancels the handlers.
Stop(w) ==
    /\ w \in MayStop \ stopped
    /\ stopped' = stopped \cup {w}
    /\ \E o \in Orders(activeJobs[w]) :
         bus' = [bus EXCEPT ![Requester] = ReceiveData(@,
                   [i \in DOMAIN o |-> Message("JobResponseMessage", o[i], w, "cancelled")])]
    /\ activeJobs' = [activeJobs EXCEPT ![w] = {}]
    /\ canceled' = [canceled EXCEPT ![w] = {j \in Job : handler[w][j] # "none"}]
    /\ UNCHANGED <<requesterVars, handler, wait, sequential, answering, stopping, active, skipped>>

handleWorkerDeactivate(w) ==
    /\ w \in MayDeactivate /\ active[w] /\ bus[w].dispatch = "idle"
    /\ active' = [active EXCEPT ![w] = FALSE]
    /\ UNCHANGED <<bus, requesterVars, activeJobs, handler, canceled, wait, sequential,
                   answering, stopping, stopped, skipped>>

\* How a handler answers: in its turn or urgently, with a result or an error.
Answers == {<<"JobResponseMessage", "completed">>, <<"JobResponseMessage", "error">>,
            <<"JobResponseUrgentMessage", "completed">>}

RequesterStep ==
    \/ \E j \in Job : createGroup(j) \/ TimerFires(j) \/ TimerCancels(j) \/ cancelGroup(j)
    \/ \E j \in Job, w \in Worker : SendRequest(j, w)
    \/ \E g \in Goroutines : handleJobResponse(g) \/ trackGroupResponse(g)

HandlerStep(w, j) ==
    \/ runJobHandler(w, j) \/ CalledOffWaiting(w, j) \/ forgetActiveJob(w, j)
    \/ HandlerReturns(w, j)
    \/ \E a \in Answers : SendJobResponse(w, j, a[1], a[2])

WorkerStep(w) ==
    \/ handleJobRequest(w) \/ handleJobCancel(w) \/ CancelAnswers(w)
    \/ Stop(w) \/ handleWorkerDeactivate(w)

Next ==
    \/ RequesterStep
    \/ \E w \in Worker : WorkerStep(w) \/ \E j \in Job : HandlerStep(w, j)
    \/ \E s \in Worker \cup {Requester} : PassData(s)

Spec == Init /\ [][Next]_vars

\* Every goroutine gets to run and timers run out.  A handler need neither answer
\* nor return, even when its context is canceled, and nobody has to ask for
\* anything.
Fairness ==
    /\ \A j \in Job : WF_vars(TimerFires(j)) /\ WF_vars(TimerCancels(j))
    /\ \A j \in Job : WF_vars(\E w \in Worker : SendRequest(j, w))
    /\ \A g \in Goroutines : WF_vars(handleJobResponse(g) \/ trackGroupResponse(g))
    /\ \A s \in Worker \cup {Requester} : WF_vars(PassData(s))
    /\ \A w \in Worker :
          /\ WF_vars(handleJobRequest(w)) /\ WF_vars(handleJobCancel(w) \/ CancelAnswers(w))
          /\ \A j \in Job : WF_vars(runJobHandler(w, j) \/ CalledOffWaiting(w, j)
                                    \/ forgetActiveJob(w, j))

FairSpec == Spec /\ Fairness

(***************************************************************************)
(* Properties.                                                             *)
(***************************************************************************)
MessageSet == [type : {"JobRequestMessage", "JobCancelMessage", "JobResponseMessage",
                       "JobResponseUrgentMessage"},
               job : Job, from : Worker \cup {Requester},
               status : {"none", "completed", "error", "cancelled"}]

\* The state keeps its shape, and a worker is never handed an answer nor the
\* requester a request.
TypeOK ==
    /\ group \in [Job -> {"none", "open", "completed", "failed"}]
    /\ responses \in [Job -> SUBSET Worker] /\ finishes \in [Job -> Nat]
    /\ timer \in [Job -> {"off", "on", "fired"}] /\ toRequest \in [Job -> SUBSET Worker]
    /\ tracking \in [Goroutines -> MessageSet \cup {NoAnswer}]
    /\ activeJobs \in [Worker -> SUBSET Job] /\ canceled \in [Worker -> SUBSET Job]
    /\ handler \in [Worker -> [Job -> {"none", "waiting", "running", "ended"}]]
    /\ wait \in [Worker -> [Job -> Job \cup {NoJob}]]
    /\ sequential \in [Worker -> Job \cup {NoJob}] /\ answering \in [Worker -> SUBSET Job]
    /\ stopping \in [Worker -> Job \cup {NoJob}] /\ active \in [Worker -> BOOLEAN]
    /\ stopped \subseteq Worker
    /\ skipped \in [Worker -> SUBSET Job]
    /\ \A s \in Worker \cup {Requester} :
         LET q == bus[s].queue.system \o bus[s].queue.data \o bus[s].dataQueue IN
           \A i \in DOMAIN q : /\ q[i] \in MessageSet
                              /\ (q[i].from = Requester) = (s \in Worker)

\* A group is finished once, however its last answers, an error, its timeout and
\* the caller race: it completes or is called off, and never both.
FinishedOnce == \A j \in Job : finishes[j] <= 1

\* A sequential handler runs its requests one at a time, as long as none of them
\* was called off while it waited for its turn.
OneAtATime ==
    \A w \in Worker :
        Cardinality({j \in Job : handler[w][j] = "running"}) > 1 => skipped[w] # {}

\* A group asked for with a timeout finishes: however many answers, requests and
\* workers are lost, its caller is not left waiting.
GroupFinishes ==
    \A j \in Timed : group[j] = "open" ~> group[j] \in {"completed", "failed"}

\* A worker calling off a job answers for it and goes on, although the handler
\* ignores its context and never returns.
CancelAnswered ==
    \A w \in Worker, j \in Job :
        stopping[w] = j ~> (stopping[w] # j /\ j \notin activeJobs[w])
=============================================================================
