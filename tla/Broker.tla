------------------------------- MODULE Broker -------------------------------
(***************************************************************************)
(* The RabbitMQ queues of internal/queue/rabbit: the work queue, the       *)
(* TTL'd retry tiers and the dead-letter queue, as the number of messages   *)
(* each holds for every notification (a message carries only the ID). The   *)
(* broker keeps no order the properties depend on: priorities, requeues     *)
(* and tier expiry all reorder, so any ready message may be delivered next. *)
(*                                                                         *)
(* A publish waits for the broker's confirm. It either confirms, or it      *)
(* fails, and a failed publish may still have been routed: the confirm, not *)
(* the message, was lost.                                                   *)
(***************************************************************************)
EXTENDS Domain, Naturals

VARIABLES
    work,           \* ready messages in the work queue
    retryTier,      \* messages waiting out a backoff tier
    deadLetter      \* messages in the dead-letter queue

brokerVars == <<work, retryTier, deadLetter>>

BrokerTypeOK ==
    /\ work \in [Notifications -> Nat]
    /\ retryTier \in [Notifications -> Nat]
    /\ deadLetter \in [Notifications -> Nat]

BrokerInit ==
    /\ work = [n \in Notifications |-> 0]
    /\ retryTier = [n \in Notifications |-> 0]
    /\ deadLetter = [n \in Notifications |-> 0]

----------------------------------------------------------------------------
(* Publishing *)

\* PublishCreated: the message reaches the work queue of its channel.
PublishCreated(n) ==
    /\ work' = [work EXCEPT ![n] = @ + 1]
    /\ UNCHANGED <<retryTier, deadLetter>>

\* PublishRetry: the message reaches the backoff tier of the failed attempt.
PublishRetry(n) ==
    /\ retryTier' = [retryTier EXCEPT ![n] = @ + 1]
    /\ UNCHANGED <<work, deadLetter>>

PublishDeadLetter(n) ==
    /\ deadLetter' = [deadLetter EXCEPT ![n] = @ + 1]
    /\ UNCHANGED <<work, retryTier>>

\* The message was never routed.
PublishLost == UNCHANGED brokerVars

----------------------------------------------------------------------------
(* Consuming *)

\* A ready message is pushed to a consumer; it stays unacknowledged there.
Deliver(n) ==
    /\ work[n] > 0
    /\ work' = [work EXCEPT ![n] = @ - 1]
    /\ UNCHANGED <<retryTier, deadLetter>>

\* An unacknowledged message returns to the queue (Nack with requeue).
Requeue(n) ==
    /\ work' = [work EXCEPT ![n] = @ + 1]
    /\ UNCHANGED <<retryTier, deadLetter>>

\* All the unacknowledged messages of a closed channel return at once.
RequeueAll(unacked) ==
    /\ work' = [n \in Notifications |-> work[n] + unacked[n]]
    /\ UNCHANGED <<retryTier, deadLetter>>

\* The tier's TTL ends: dead-lettered back to the work queue of its channel.
ExpireRetryTier(n) ==
    /\ retryTier[n] > 0
    /\ retryTier' = [retryTier EXCEPT ![n] = @ - 1]
    /\ work' = [work EXCEPT ![n] = @ + 1]
    /\ UNCHANGED deadLetter
=============================================================================
