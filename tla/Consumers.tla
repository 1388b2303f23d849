----------------------------- MODULE Consumers ------------------------------
(***************************************************************************)
(* The supervision of the consumers in one worker process,                  *)
(* internal/worker/consume.go: per work queue a supervisor that subscribes, *)
(* watches for pause, shutdown and a channel closed by the broker, and lets *)
(* its handler pool drain before it goes on. The pause flag is a row of the *)
(* database that the dashboard sets; one failed or dead consumer stops its  *)
(* siblings, the process exits and is started again.                        *)
(*                                                                         *)
(* What a handler does with a message is in Worker; here it is one of       *)
(* acked and requeued. A message is seen from two sides: the broker's       *)
(* (ready, unacked, gone) and the client's (in the buffer of the delivery   *)
(* channel, with a handler, or neither).                                    *)
(***************************************************************************)
EXTENDS Faults, FiniteSets

CONSTANTS
    Queues,         \* the work queues, one per delivery channel
    Messages,
    QueueOf,        \* the queue of each message
    Prefetch,       \* WORKER_PREFETCH
    Concurrency     \* WORKER_CONCURRENCY: handlers per queue

ASSUME ConsumersAssumption ==
    /\ QueueOf \in [Messages -> Queues]
    /\ Prefetch \in Nat \ {0} /\ Concurrency \in Nat \ {0}

VARIABLES
    paused,         \* worker_control.paused
    lastPaused,     \* worker.lastPaused, shared by the supervisors
    stopped,        \* runCtx is done: shutdown, or a sibling's failure
    connected,      \* the AMQP connection of the process
    supervisor,     \* where each supervisor is
    reading,        \* per supervisor: what its running check has read of the flag
    live,           \* per queue: its AMQP channel is open
    subscribed,     \* ... and has a consumer
    draining,       \* the draining flag of its handler pool
    broker,         \* per message: the broker's view
    hand            \* per message: the client's view

supervisorVars == <<lastPaused, stopped, supervisor, reading, draining>>
amqpVars == <<connected, live, subscribed, broker>>
vars == <<paused, supervisorVars, amqpVars, hand, faults>>

SupervisorStates ==
    {"waiting",         \* waitWhilePaused
     "subscribe",       \* consumeUntilPaused, before Consume
     "consuming",       \* in the select of the supervise loop
     "cancelling",      \* draining is set, Cancel not yet done
     "draining",        \* at <-poolDone
     "returned", "failed"}

Types ==
    /\ paused \in BOOLEAN /\ lastPaused \in BOOLEAN
    /\ stopped \in BOOLEAN /\ connected \in BOOLEAN
    /\ supervisor \in [Queues -> SupervisorStates]
    /\ reading \in [Queues -> {"nothing", "paused", "running"}]
    /\ live \in [Queues -> BOOLEAN]
    /\ subscribed \in [Queues -> BOOLEAN]
    /\ draining \in [Queues -> BOOLEAN]
    /\ broker \in [Messages -> {"ready", "unacked", "gone"}]
    /\ hand \in [Messages -> {"none", "buffered", "handling"}]
    /\ FaultsTypeOK

\* Only consumeUntilPaused has an AMQP channel, and a consumer on it until it
\* drains: deferred Close and basic.cancel leave none behind for the next round.
ChannelIsSupervised ==
    \A q \in Queues :
        /\ live[q] => supervisor[q] \in {"consuming", "cancelling", "draining"}
        /\ subscribed[q] => live[q] /\ supervisor[q] \in {"consuming", "cancelling"}

\* The types, and channels and subscriptions only where the code may have them.
TypeOK == Types /\ ChannelIsSupervised

Init ==
    /\ paused \in BOOLEAN /\ lastPaused = FALSE
    /\ stopped = FALSE /\ connected = TRUE
    /\ supervisor = [q \in Queues |-> "waiting"]
    /\ reading = [q \in Queues |-> "nothing"]
    /\ live = [q \in Queues |-> FALSE]
    /\ subscribed = [q \in Queues |-> FALSE]
    /\ draining = [q \in Queues |-> FALSE]
    /\ broker = [m \in Messages |-> "ready"]
    /\ hand = [m \in Messages |-> "none"]
    /\ FaultsInit

MessagesOf(q) == {m \in Messages : QueueOf[m] = q}
Unacked(q) == {m \in MessagesOf(q) : broker[m] = "unacked"}
InHand(q) == {m \in MessagesOf(q) : hand[m] # "none"}
Handled(q) == {m \in MessagesOf(q) : hand[m] = "handling"}

Enter(q, state) == supervisor' = [supervisor EXCEPT ![q] = state]

\* The process has nothing left to run: Run has returned.
Exited == \A q \in Queues : supervisor[q] \in {"returned", "failed"}

\* The broker puts what it has unacked on the channels of the queues Q back.
RequeueUnacked(Q) ==
    broker' = [m \in Messages |->
                 IF QueueOf[m] \in Q /\ broker[m] = "unacked" THEN "ready" ELSE broker[m]]

----------------------------------------------------------------------------
(* isPaused *)

\* SetWorkerPaused, from the dashboard.
SetPaused ==
    /\ paused' = ~paused
    /\ UNCHANGED <<supervisorVars, amqpVars, hand>> /\ NoFault

\* A check starts on entering or repeating the wait, or with the ticker; the
\* query reads the flag.
ReadFlag(q) ==
    /\ supervisor[q] \in {"waiting", "consuming"} /\ reading[q] = "nothing"
    /\ reading' = [reading EXCEPT ![q] = IF paused THEN "paused" ELSE "running"]
    /\ UNCHANGED <<paused, lastPaused, stopped, supervisor, draining, amqpVars, hand>> /\ NoFault

\* Defective variant: only the wait looks at the flag.
ActWhenWaiting(q, isPaused) ==
    /\ supervisor' = [supervisor EXCEPT ![q] =
         IF supervisor[q] = "waiting"
         THEN IF isPaused THEN "waiting" ELSE IF stopped THEN "returned" ELSE "subscribe"
         ELSE "consuming"]
    /\ UNCHANGED draining

\* What a supervisor does on the result of its check. Out of the wait it goes
\* on to subscribe, unless the context is done; a paused consumer sets draining.
Act(q, isPaused) ==
    /\ supervisor' = [supervisor EXCEPT ![q] =
         IF supervisor[q] = "waiting"
         THEN IF isPaused THEN "waiting" ELSE IF stopped THEN "returned" ELSE "subscribe"
         ELSE IF isPaused THEN "cancelling" ELSE "consuming"]
    /\ draining' = [draining EXCEPT ![q] = @ \/ (supervisor[q] = "consuming" /\ isPaused)]

\* The answer arrives: the last known state is stored.
CheckSucceeds(q) ==
    /\ reading[q] # "nothing"
    /\ lastPaused' = (reading[q] = "paused")
    /\ Act(q, reading[q] = "paused")
    /\ reading' = [reading EXCEPT ![q] = "nothing"]
    /\ UNCHANGED <<paused, stopped, amqpVars, hand>> /\ NoFault

\* The query fails, as it does once the context is done: the last known state counts.
CheckFails(q) ==
    /\ reading[q] # "nothing"
    /\ IF stopped THEN NoFault ELSE Fault("worker.database")
    /\ Act(q, lastPaused)
    /\ reading' = [reading EXCEPT ![q] = "nothing"]
    /\ UNCHANGED <<paused, lastPaused, stopped, amqpVars, hand>>

\* Defective variant: the wait sleeps without watching the context.
SleepOn(q) ==
    /\ supervisor[q] = "waiting" /\ reading[q] = "nothing"
    /\ stopped
    /\ UNCHANGED <<paused, supervisorVars, amqpVars, hand>> /\ NoFault

\* waitWhilePaused returns because the context is done; so does superviseQueue.
StopWaiting(q) ==
    /\ supervisor[q] = "waiting" /\ reading[q] = "nothing"
    /\ stopped
    /\ Enter(q, "returned")
    /\ UNCHANGED <<paused, lastPaused, stopped, reading, draining, amqpVars, hand>> /\ NoFault

----------------------------------------------------------------------------
(* consumeUntilPaused *)

\* A channel of its own, Qos, Consume, and a fresh handler pool.
Subscribe(q) ==
    /\ supervisor[q] = "subscribe"
    /\ connected
    /\ live' = [live EXCEPT ![q] = TRUE]
    /\ subscribed' = [subscribed EXCEPT ![q] = TRUE]
    /\ draining' = [draining EXCEPT ![q] = FALSE]
    /\ Enter(q, "consuming")
    /\ UNCHANGED <<paused, lastPaused, stopped, reading, connected, broker, hand>> /\ NoFault

\* Without a connection there is no channel: an error, and stopAll.
SubscribeFails(q) ==
    /\ supervisor[q] = "subscribe"
    /\ ~connected
    /\ Enter(q, "failed") /\ stopped' = TRUE
    /\ UNCHANGED <<paused, lastPaused, reading, draining, amqpVars, hand>> /\ NoFault

\* The select takes ctx.Done.
NoticeStop(q) ==
    /\ supervisor[q] = "consuming" /\ reading[q] = "nothing"
    /\ stopped
    /\ Enter(q, "cancelling")
    /\ draining' = [draining EXCEPT ![q] = TRUE]
    /\ UNCHANGED <<paused, lastPaused, stopped, reading, amqpVars, hand>> /\ NoFault

\* basic.cancel: no more pushes. On a closed channel it fails, which is logged.
CancelConsumer(q) ==
    /\ supervisor[q] = "cancelling"
    /\ subscribed' = [subscribed EXCEPT ![q] = FALSE]
    /\ Enter(q, "draining")
    /\ UNCHANGED <<paused, lastPaused, stopped, reading, draining, connected, live, broker, hand>>
    /\ NoFault

\* Defective variant: the supervisor returns without waiting for the pool.
FinishDrainingEarly(q) ==
    /\ supervisor[q] = "draining"
    /\ Enter(q, IF stopped THEN "returned" ELSE "waiting")
    /\ live' = [live EXCEPT ![q] = FALSE]
    /\ RequeueUnacked({q})
    /\ UNCHANGED <<paused, lastPaused, stopped, reading, draining, connected, subscribed, hand>>
    /\ NoFault

\* Defective variant: without the deferred Close the channel stays open.
FinishDrainingOpen(q) ==
    /\ supervisor[q] = "draining"
    /\ InHand(q) = {}
    /\ Enter(q, IF stopped THEN "returned" ELSE "waiting")
    /\ UNCHANGED <<paused, lastPaused, stopped, reading, draining, amqpVars, hand>> /\ NoFault

\* The deliveries are closed and handed out, the handlers done: the AMQP channel
\* is closed and superviseQueue goes round.
FinishDraining(q) ==
    /\ supervisor[q] = "draining"
    /\ InHand(q) = {}
    /\ Enter(q, IF stopped THEN "returned" ELSE "waiting")
    /\ live' = [live EXCEPT ![q] = FALSE]
    /\ RequeueUnacked({q})
    /\ UNCHANGED <<paused, lastPaused, stopped, reading, draining, connected, subscribed, hand>>
    /\ NoFault

\* Defective variant: a dead consumer is not reported and leaves its siblings running.
NoticeDeadQuietly(q) ==
    /\ supervisor[q] = "consuming" /\ reading[q] = "nothing"
    /\ ~live[q] /\ InHand(q) = {}
    /\ Enter(q, "returned")
    /\ UNCHANGED <<paused, lastPaused, stopped, reading, draining, amqpVars, hand>> /\ NoFault

\* The pool is done although nobody cancelled: the broker closed the channel.
\* The error stops the siblings.
NoticeDead(q) ==
    /\ supervisor[q] = "consuming" /\ reading[q] = "nothing"
    /\ ~live[q] /\ InHand(q) = {}
    /\ Enter(q, "failed") /\ stopped' = TRUE
    /\ UNCHANGED <<paused, lastPaused, reading, draining, amqpVars, hand>> /\ NoFault

----------------------------------------------------------------------------
(* The handler pool *)

\* The broker pushes a message into the client's buffer.
Push(m) ==
    LET q == QueueOf[m] IN
    /\ live[q] /\ subscribed[q]
    /\ broker[m] = "ready" /\ hand[m] = "none"
    /\ Cardinality(Unacked(q)) < Prefetch
    /\ broker' = [broker EXCEPT ![m] = "unacked"]
    /\ hand' = [hand EXCEPT ![m] = "buffered"]
    /\ UNCHANGED <<paused, supervisorVars, connected, live, subscribed>> /\ NoFault

FreeHandler(q) == Cardinality(Handled(q)) < Concurrency

\* A handler takes a delivery while the pool is not draining.
StartHandling(m) ==
    /\ hand[m] = "buffered" /\ FreeHandler(QueueOf[m])
    /\ ~draining[QueueOf[m]]
    /\ hand' = [hand EXCEPT ![m] = "handling"]
    /\ UNCHANGED <<paused, supervisorVars, amqpVars>> /\ NoFault

\* An ack or nack takes effect only on an open channel.
Settle(m, result) ==
    /\ broker' = [broker EXCEPT ![m] = IF live[QueueOf[m]] THEN result ELSE @]
    /\ hand' = [hand EXCEPT ![m] = "none"]
    /\ UNCHANGED <<paused, supervisorVars, connected, live, subscribed>>

\* Defective variant: a draining handler skips the delivery without a nack.
SkipWhileDraining(m) ==
    /\ hand[m] = "buffered" /\ FreeHandler(QueueOf[m])
    /\ draining[QueueOf[m]]
    /\ hand' = [hand EXCEPT ![m] = "none"]
    /\ UNCHANGED <<paused, supervisorVars, amqpVars>> /\ NoFault

\* ... and while it is draining, requeues it.
RequeueWhileDraining(m) ==
    /\ hand[m] = "buffered" /\ FreeHandler(QueueOf[m])
    /\ draining[QueueOf[m]]
    /\ Settle(m, "ready") /\ NoFault

\* handleDelivery settles the message.
FinishHandling(m) ==
    /\ hand[m] = "handling"
    /\ Settle(m, "gone") /\ NoFault

\* Processing fails, as it may once the context is done: requeued.
HandlingFails(m) ==
    /\ hand[m] = "handling"
    /\ IF stopped THEN NoFault ELSE Fault("worker.database")
    /\ Settle(m, "ready")

----------------------------------------------------------------------------
(* Shutdown, lost channels and connections, restart *)

\* SIGTERM: the context of the process is cancelled.
Shutdown ==
    /\ ~stopped /\ Fault("worker.shutdown")
    /\ stopped' = TRUE
    /\ UNCHANGED <<paused, lastPaused, supervisor, reading, draining, amqpVars, hand>>

\* The broker closes the channels of the queues Q: it requeues what is unacked,
\* the client library drops what its handlers have not taken.
CloseChannels(Q) ==
    /\ live' = [q \in Queues |-> live[q] /\ q \notin Q]
    /\ subscribed' = [q \in Queues |-> subscribed[q] /\ q \notin Q]
    /\ RequeueUnacked(Q)
    /\ hand' = [m \in Messages |->
                  IF QueueOf[m] \in Q /\ hand[m] = "buffered" THEN "none" ELSE hand[m]]
    /\ UNCHANGED <<paused, supervisorVars>>

LoseChannel(q) ==
    /\ live[q] /\ Fault("worker.channel")
    /\ CloseChannels({q})
    /\ UNCHANGED connected

LoseConnection ==
    /\ connected /\ Fault("worker.connection")
    /\ CloseChannels(Queues)
    /\ connected' = FALSE

\* Run has returned and the process exited: its successor starts afresh.
Restart ==
    /\ Exited
    /\ lastPaused' = FALSE /\ stopped' = FALSE /\ connected' = TRUE
    /\ supervisor' = [q \in Queues |-> "waiting"]
    /\ reading' = [q \in Queues |-> "nothing"]
    /\ live' = [q \in Queues |-> FALSE]
    /\ subscribed' = [q \in Queues |-> FALSE]
    /\ draining' = [q \in Queues |-> FALSE]
    /\ RequeueUnacked(Queues)
    /\ UNCHANGED <<paused, hand>> /\ NoFault

----------------------------------------------------------------------------

CheckStep(q) == ReadFlag(q) \/ CheckSucceeds(q) \/ CheckFails(q)

SupervisorStep(q) ==
    \/ StopWaiting(q) \/ Subscribe(q) \/ SubscribeFails(q)
    \/ NoticeStop(q) \/ NoticeDead(q)
    \/ CancelConsumer(q) \/ FinishDraining(q)

HandlerStep(m) ==
    \/ StartHandling(m) \/ RequeueWhileDraining(m)
    \/ FinishHandling(m) \/ HandlingFails(m)

Next ==
    \/ SetPaused \/ Shutdown \/ LoseConnection \/ Restart
    \/ \E q \in Queues : CheckStep(q) \/ SupervisorStep(q) \/ LoseChannel(q)
    \/ \E m \in Messages : Push(m) \/ HandlerStep(m)

Spec == Init /\ [][Next]_vars

(***************************************************************************)
(* Goroutines that can step do, the ticker fires, the broker pushes. A      *)
(* supervisor returns to its select, or to that of the wait, after every    *)
(* check; there a done context or pool is ready while the timer mostly is   *)
(* not, and select chooses at random among ready cases. It is therefore     *)
(* taken if it is ready again and again.                                    *)
(***************************************************************************)
Fairness ==
    /\ \A q \in Queues : WF_vars(CheckStep(q)) /\ SF_vars(SupervisorStep(q))
    /\ \A m \in Messages : WF_vars(Push(m)) /\ WF_vars(HandlerStep(m))
    /\ WF_vars(Restart)

FairSpec == Spec /\ Fairness

----------------------------------------------------------------------------
(* Properties *)

\* A supervisor leaves consumeUntilPaused only when its pool is done: while it
\* waits out a pause, or has returned, no handler works on a message and no
\* delivery lies in the buffer (consume.go: <-poolDone before every return).
NothingLeftBehind ==
    \A q \in Queues :
        supervisor[q] \notin {"consuming", "cancelling", "draining"} => InHand(q) = {}

\* Every delivery is settled once: what the broker counts as unacked is in the
\* buffer or with a handler. A drain neither loses a delivery nor settles it twice.
UnackedIsInHand ==
    \A m \in Messages :
        broker[m] = "unacked" <=> hand[m] # "none" /\ live[QueueOf[m]]

\* A pause takes hold: if the flag stays set, in the end no consumer is subscribed
\* and no delivery in hand, though checks fail, answers arrive out of order at the
\* shared lastPaused, and a restarted process begins with lastPaused clear.
PauseTakesHold ==
    <>[]paused => <>[](\A q \in Queues : ~subscribed[q] /\ InHand(q) = {})

\* Nothing stays behind after pauses, restarts and lost channels: if the flag
\* stays clear, every message is settled.
ResumeDelivers ==
    <>[]~paused => <>(\A m \in Messages : broker[m] = "gone")

\* A shutdown, or the failure of one consumer, ends all of Run, also the supervisors
\* that wait out a pause: then the process exits and its successor can subscribe.
StopEndsRun == stopped ~> Exited
=============================================================================
