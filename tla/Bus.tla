-------------------------------- MODULE Bus --------------------------------
(***************************************************************************)
(* The message bus between workers (bus/bus.go, bus/queue.go), as          *)
(* operators on the subscriptions of a local bus.                          *)
(*                                                                         *)
(* A subscription has two goroutines.  The router takes messages off the   *)
(* queue, system messages first, hands system messages to the subscriber   *)
(* itself and moves the others to the data queue; the dispatcher hands     *)
(* over the data messages one at a time, in order.  So a system message    *)
(* may overtake any number of data messages, and its handler runs beside   *)
(* the handler of one.  A message addressed to one subscriber is ignored   *)
(* by all others, so only its own copy is kept here.                       *)
(***************************************************************************)
EXTENDS Sequences

\* The messages delivered ahead of the data queued (BaseSystemMessage).
SystemMessages == {"CancelMessage", "CancelWorkerMessage", "AddWorkerMessage",
                   "JobCancelMessage", "JobResponseUrgentMessage"}

isSystem(m) == m.type \in SystemMessages

\* A queue with one band: nothing overtakes.
put_fifo(q, m) == [q EXCEPT !.data = Append(@, m)]

put(q, m) == IF isSystem(m) THEN [q EXCEPT !.system = Append(@, m)]
             ELSE [q EXCEPT !.data = Append(@, m)]

\* A subscription.  route and dispatch say where its goroutines are: "off" (not
\* started, or returned), "idle" (between messages), "busy" (in a handler).
Subscribe(running) ==
    [queue |-> [system |-> <<>>, data |-> <<>>], dataQueue |-> <<>>,
     route |-> IF running THEN "idle" ELSE "off",
     dispatch |-> IF running THEN "idle" ELSE "off"]

startDispatch(sub) == [sub EXCEPT !.route = "idle", !.dispatch = "idle"]

Receive(sub, m) == [sub EXCEPT !.queue = put(@, m)]

\* Several data messages, sent one after another.
ReceiveData(sub, ms) == [sub EXCEPT !.queue.data = @ \o ms]

\* The router's next message, when there is one: a system message to deliver, or
\* a data message to pass to the dispatcher.
systemNext(sub) == sub.route = "idle" /\ sub.queue.system # <<>>
dataNext(sub) == sub.route = "idle" /\ sub.queue.system = <<>> /\ sub.queue.data # <<>>

nextSystem(sub) == Head(sub.queue.system)
takeSystem(sub) == [sub EXCEPT !.queue.system = Tail(@)]
passData(sub) == [sub EXCEPT !.queue.data = Tail(@),
                             !.dataQueue = Append(@, Head(sub.queue.data))]
dropData(sub) == [sub EXCEPT !.queue.data = Tail(@)]

\* The dispatcher's next message.
dispatchNext(sub) == sub.dispatch = "idle" /\ sub.dataQueue # <<>>
nextData(sub) == Head(sub.dataQueue)
takeData(sub) == [sub EXCEPT !.dataQueue = Tail(@)]

\* Once its context has ended a goroutine returns when it finds its queue empty,
\* so a message that comes later may be handled or left where it is.  Here it
\* stays possible to handle it and nothing requires it; stopping the bus then
\* waits for the handlers under way.
resting(sub) == sub.route # "busy" /\ sub.dispatch # "busy"
stop(sub) == [sub EXCEPT !.route = "off", !.dispatch = "off"]
=============================================================================
