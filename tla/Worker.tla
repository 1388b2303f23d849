------------------------------- MODULE Worker -------------------------------
(***************************************************************************)
(* The delivery worker, internal/worker: handler goroutines that each take *)
(* one message at a time through claim, rate limiter, provider call,        *)
(* outcome write and settlement (processNotification, handleSendFailure,    *)
(* handleDelivery). Handlers of one process share its AMQP connection.      *)
(*                                                                         *)
(* One action per call that touches the row, the broker or the provider:   *)
(* other handlers, the scheduler and the API interleave between them.       *)
(***************************************************************************)
EXTENDS NotificationStore, Broker, Faults

CONSTANTS
    Handlers,           \* handler goroutines, over all worker processes
    Processes,          \* worker processes
    ProcessOf,          \* the process a handler runs in
    MaxAttempts,        \* MAX_DELIVERY_ATTEMPTS
    NoMessage           \* what an idle handler holds

ASSUME WorkerAssumption ==
    /\ ProcessOf \in [Handlers -> Processes]
    /\ IsFiniteSet(Handlers)
    /\ MaxAttempts \in Nat \ {0}
    /\ NoMessage \notin Notifications

VARIABLES
    at,                 \* where each handler is
    message,            \* the notification its message names
    claimedAttempts,    \* claimed.Attempts, the snapshot its claim returned
    connected,          \* whether each process still has its AMQP connection
    deliveries          \* history: how often the provider accepted each notification

handlerVars == <<at, message, claimedAttempts>>
workerVars == <<handlerVars, connected, deliveries>>

\* Between a successful claim and the write of its outcome.
HoldingClaim ==
    {"throttle", "send", "markSent", "markRetrying", "markFailed"}

\* Between receiving a message and settling it.
Busy == HoldingClaim \cup {"received", "publishRetry", "deadLetter", "ack", "nack"}

WorkerTypeOK ==
    /\ at \in [Handlers -> Busy \cup {"idle"}]
    /\ message \in [Handlers -> Notifications \cup {NoMessage}]
    /\ \A h \in Handlers : at[h] \in Busy => message[h] \in Notifications
    /\ claimedAttempts \in [Handlers -> Nat]
    /\ connected \in [Processes -> BOOLEAN]
    /\ deliveries \in [Notifications -> Nat]

WorkerInit ==
    /\ at = [h \in Handlers |-> "idle"]
    /\ message = [h \in Handlers |-> NoMessage]
    /\ claimedAttempts = [h \in Handlers |-> 0]
    /\ connected = [p \in Processes |-> TRUE]
    /\ deliveries = [n \in Notifications |-> 0]

Connected(h) == connected[ProcessOf[h]]

Holders(n) == {h \in Handlers : at[h] \in HoldingClaim /\ message[h] = n}

\* Handler h goes on to another step with the same message.
Goto(h, step) ==
    /\ at' = [at EXCEPT ![h] = step]
    /\ UNCHANGED <<message, claimedAttempts, connected, deliveries>>

\* Handler h is done with its message and waits for the next one.
Settle(h) ==
    /\ at' = [at EXCEPT ![h] = "idle"]
    /\ message' = [message EXCEPT ![h] = NoMessage]
    /\ claimedAttempts' = [claimedAttempts EXCEPT ![h] = 0]
    /\ UNCHANGED <<connected, deliveries>>

----------------------------------------------------------------------------
(* Claiming *)

\* The broker pushes a ready message to an idle handler.
Receive(h, n) ==
    /\ at[h] = "idle"
    /\ Connected(h)
    /\ Deliver(n)
    /\ at' = [at EXCEPT ![h] = "received"]
    /\ message' = [message EXCEPT ![h] = n]
    /\ UNCHANGED <<claimedAttempts, connected, deliveries>>
    /\ UNCHANGED storeVars /\ NoFault

\* The claim succeeds: h now holds the row, which sits in processing.
Claim(h) ==
    /\ at[h] = "received"
    /\ ClaimForProcessing(message[h])
    /\ at' = [at EXCEPT ![h] = "throttle"]
    /\ claimedAttempts' = [claimedAttempts EXCEPT ![h] = attempts'[message[h]]]
    /\ UNCHANGED <<message, connected, deliveries>>
    /\ UNCHANGED brokerVars /\ NoFault

\* The guard rejects the claim: the message is dropped (acked).
DropUnclaimable(h) ==
    /\ at[h] = "received"
    /\ UpdateRejected(message[h], ClaimableStatuses)
    /\ Goto(h, "ack")
    /\ UNCHANGED brokerVars /\ NoFault

\* The query fails, with the UPDATE committed or not.
ClaimFails(h) ==
    /\ at[h] = "received"
    /\ Fault("worker.database")
    /\ ClaimForProcessing(message[h]) \/ UNCHANGED storeVars
    /\ Goto(h, "nack")
    /\ UNCHANGED brokerVars

----------------------------------------------------------------------------
(* Throttling and sending *)

\* limiter.Wait returns: the provider call starts.
StartSend(h) ==
    /\ at[h] = "throttle"
    /\ Goto(h, "send")
    /\ UNCHANGED <<storeVars, brokerVars>> /\ NoFault

\* limiter.Wait is interrupted: the claim is released to retrying, whatever
\* that write returns, and the message is requeued.
ReleaseThrottled(h) ==
    /\ at[h] = "throttle"
    /\ Fault("worker.shutdown")
    /\ \/ GuardedUpdate(message[h], "retrying", {"processing"})
       \/ UNCHANGED storeVars
    /\ Goto(h, "nack")
    /\ UNCHANGED brokerVars

\* The provider accepts the notification (2xx).
SendAccepted(h) ==
    /\ at[h] = "send"
    /\ deliveries' = [deliveries EXCEPT ![message[h]] = @ + 1]
    /\ at' = [at EXCEPT ![h] = "markSent"]
    /\ UNCHANGED <<message, claimedAttempts, connected>>
    /\ UNCHANGED <<storeVars, brokerVars>> /\ NoFault

\* Defective variant: one attempt too many (<= for <).
AfterFailureOffByOne(h, retryable) ==
    IF retryable /\ claimedAttempts[h] <= MaxAttempts
    THEN "markRetrying" ELSE "markFailed"

\* Where handleSendFailure goes after an error.
AfterFailure(h, retryable) ==
    IF retryable /\ claimedAttempts[h] < MaxAttempts
    THEN "markRetrying" ELSE "markFailed"

\* Defective variant: a non-2xx answer is taken for acceptance.
SendRefusedAsAccepted(h) ==
    /\ at[h] = "send"
    /\ Goto(h, "markSent")
    /\ UNCHANGED <<storeVars, brokerVars>> /\ NoFault

\* The provider refuses: retryable for 429, 5xx and network errors, permanent otherwise.
SendRefused(h) ==
    /\ at[h] = "send"
    /\ \E retryable \in BOOLEAN : Goto(h, AfterFailure(h, retryable))
    /\ UNCHANGED <<storeVars, brokerVars>> /\ NoFault

\* The provider accepted but its answer did not arrive (timeout, reset): a
\* network error like any other for the worker.
SendResponseLost(h) ==
    /\ at[h] = "send"
    /\ Fault("provider.response")
    /\ deliveries' = [deliveries EXCEPT ![message[h]] = @ + 1]
    /\ at' = [at EXCEPT ![h] = AfterFailure(h, TRUE)]
    /\ UNCHANGED <<message, claimedAttempts, connected>>
    /\ UNCHANGED <<storeVars, brokerVars>>

----------------------------------------------------------------------------
(* Writing the outcome *)

\* The status an outcome write sets, and the step after it.
Outcome ==
    [markSent     |-> [status |-> "sent",     next |-> "ack"],
     markRetrying |-> [status |-> "retrying", next |-> "publishRetry"],
     markFailed   |-> [status |-> "failed",   next |-> "deadLetter"]]

\* MarkSent, MarkRetrying or MarkFailed is accepted: the row was in processing.
RecordOutcome(h) ==
    /\ at[h] \in DOMAIN Outcome
    /\ GuardedUpdate(message[h], Outcome[at[h]].status, {"processing"})
    /\ Goto(h, Outcome[at[h]].next)
    /\ UNCHANGED brokerVars /\ NoFault

\* The row changed status concurrently: the message is settled as it is.
OutcomeRejected(h) ==
    /\ at[h] \in DOMAIN Outcome
    /\ UpdateRejected(message[h], {"processing"})
    /\ Goto(h, "ack")
    /\ UNCHANGED brokerVars /\ NoFault

\* The query fails, with the UPDATE committed or not: the message is requeued.
OutcomeFails(h) ==
    /\ at[h] \in DOMAIN Outcome
    /\ Fault("worker.database")
    /\ \/ GuardedUpdate(message[h], Outcome[at[h]].status, {"processing"})
       \/ UNCHANGED storeVars
    /\ Goto(h, "nack")
    /\ UNCHANGED brokerVars

----------------------------------------------------------------------------
(* Publishing the retry or the dead letter *)

PublishRetryMessage(h) ==
    /\ at[h] = "publishRetry"
    /\ Connected(h)
    /\ PublishRetry(message[h])
    /\ Goto(h, "ack")
    /\ UNCHANGED storeVars /\ NoFault

\* Defective variant: the failed publish is logged and the message acked.
PublishRetryFailsAcked(h) ==
    /\ at[h] = "publishRetry"
    /\ \/ Connected(h) /\ Fault("worker.publish") /\ (PublishRetry(message[h]) \/ PublishLost)
       \/ ~Connected(h) /\ NoFault /\ PublishLost
    /\ Goto(h, "ack")
    /\ UNCHANGED storeVars

\* The publish fails: the original message is requeued to recover. Without a
\* connection it cannot do otherwise.
PublishRetryFails(h) ==
    /\ at[h] = "publishRetry"
    /\ \/ Connected(h) /\ Fault("worker.publish") /\ (PublishRetry(message[h]) \/ PublishLost)
       \/ ~Connected(h) /\ NoFault /\ PublishLost
    /\ Goto(h, "nack")
    /\ UNCHANGED storeVars

PublishDeadLetterMessage(h) ==
    /\ at[h] = "deadLetter"
    /\ Connected(h)
    /\ PublishDeadLetter(message[h])
    /\ Goto(h, "ack")
    /\ UNCHANGED storeVars /\ NoFault

\* Defective variant: the publish is repeated until it is confirmed.
PublishDeadLetterFailsRepeated(h) ==
    /\ at[h] = "deadLetter"
    /\ Connected(h) /\ Fault("worker.publish")
    /\ PublishDeadLetter(message[h]) \/ PublishLost
    /\ UNCHANGED <<workerVars, storeVars>>

\* A failed dead-letter publish is logged only.
PublishDeadLetterFails(h) ==
    /\ at[h] = "deadLetter"
    /\ \/ Connected(h) /\ Fault("worker.publish")
          /\ (PublishDeadLetter(message[h]) \/ PublishLost)
       \/ ~Connected(h) /\ NoFault /\ PublishLost
    /\ Goto(h, "ack")
    /\ UNCHANGED storeVars

----------------------------------------------------------------------------
(* Settling the message *)

\* Ack, or an Ack that fails because the connection is gone.
Ack(h) ==
    /\ at[h] = "ack"
    /\ Settle(h)
    /\ UNCHANGED <<storeVars, brokerVars>> /\ NoFault

\* Nack with requeue; without a connection the broker has requeued already.
Nack(h) ==
    /\ at[h] = "nack"
    /\ IF Connected(h) THEN Requeue(message[h]) ELSE UNCHANGED brokerVars
    /\ Settle(h)
    /\ UNCHANGED storeVars /\ NoFault

----------------------------------------------------------------------------
(* The life of a worker process *)

HandlersOf(p) == {h \in Handlers : ProcessOf[h] = p}

\* What the broker requeues when p's connection goes.
Unacked(p) ==
    [n \in Notifications |->
        IF connected[p]
        THEN Cardinality({h \in HandlersOf(p) : at[h] \in Busy /\ message[h] = n})
        ELSE 0]

\* The connection drops. The handlers are not told: each goes on with its
\* message, but can publish, ack and nack no more.
LoseConnection(p) ==
    /\ connected[p]
    /\ Fault("worker.connection")
    /\ RequeueAll(Unacked(p))
    /\ connected' = [connected EXCEPT ![p] = FALSE]
    /\ UNCHANGED <<handlerVars, deliveries, storeVars>>

\* Run has returned because its consumers are dead and its handlers finished:
\* the process exits and the orchestrator starts it again.
Restart(p) ==
    /\ ~connected[p]
    /\ \A h \in HandlersOf(p) : at[h] = "idle"
    /\ connected' = [connected EXCEPT ![p] = TRUE]
    /\ UNCHANGED <<handlerVars, deliveries, storeVars, brokerVars>> /\ NoFault

\* The process dies wherever its handlers are, and is started again.
Crash(p) ==
    /\ Fault("worker.crash")
    /\ RequeueAll(Unacked(p))
    /\ connected' = [connected EXCEPT ![p] = TRUE]
    /\ at' = [h \in Handlers |-> IF ProcessOf[h] = p THEN "idle" ELSE at[h]]
    /\ message' = [h \in Handlers |-> IF ProcessOf[h] = p THEN NoMessage ELSE message[h]]
    /\ claimedAttempts' = [h \in Handlers |-> IF ProcessOf[h] = p THEN 0 ELSE claimedAttempts[h]]
    /\ UNCHANGED <<deliveries, storeVars>>

----------------------------------------------------------------------------

HandlerStep(h) ==
    \/ Claim(h) \/ DropUnclaimable(h) \/ ClaimFails(h)
    \/ StartSend(h) \/ ReleaseThrottled(h)
    \/ SendAccepted(h) \/ SendRefused(h) \/ SendResponseLost(h)
    \/ RecordOutcome(h) \/ OutcomeRejected(h) \/ OutcomeFails(h)
    \/ PublishRetryMessage(h) \/ PublishRetryFails(h)
    \/ PublishDeadLetterMessage(h) \/ PublishDeadLetterFails(h)
    \/ Ack(h) \/ Nack(h)

WorkerNext ==
    \/ \E h \in Handlers, n \in Notifications : Receive(h, n)
    \/ \E h \in Handlers : HandlerStep(h)
    \/ \E p \in Processes : LoseConnection(p) \/ Restart(p) \/ Crash(p)
=============================================================================
