------------------------------- MODULE Service ------------------------------
(***************************************************************************)
(* The API's writes, internal/service/notification.go: Create inserts the   *)
(* row and, unless it is scheduled, publishes its message and then marks    *)
(* the row queued; Cancel is one guarded update. A create request is a      *)
(* process of its own per notification: the row is visible to everybody     *)
(* from the insert on.                                                      *)
(***************************************************************************)
EXTENDS NotificationStore, Broker, Faults

VARIABLE request        \* the create request of each notification

RequestStates == {"none", "publish", "markQueued", "done"}

ServiceTypeOK == request \in [Notifications -> RequestStates]

ServiceInit == request = [n \in Notifications |-> "none"]

RequestGoto(n, step) == request' = [request EXCEPT ![n] = step]

\* Create: the row is inserted; only a pending one is published now.
Create(n, initial) ==
    /\ InsertRow(n, initial)
    /\ RequestGoto(n, IF initial = "pending" THEN "publish" ELSE "done")
    /\ UNCHANGED brokerVars /\ NoFault

\* The insert commits but its answer is lost: the client gets an error, the
\* row exists and nothing has been published for it.
CreateFails(n, initial) ==
    /\ Fault("service.database")
    /\ InsertRow(n, initial)
    /\ RequestGoto(n, "done")
    /\ UNCHANGED brokerVars

\* publishForDelivery, first half.
PublishForDelivery(n) ==
    /\ request[n] = "publish"
    /\ PublishCreated(n)
    /\ RequestGoto(n, "markQueued")
    /\ UNCHANGED storeVars /\ NoFault

\* A failed publish is not an error: the row stays pending for the sweeper.
PublishForDeliveryFails(n) ==
    /\ request[n] = "publish"
    /\ Fault("service.publish")
    /\ PublishCreated(n) \/ PublishLost
    /\ RequestGoto(n, "done")
    /\ UNCHANGED storeVars

\* Defective variant: the queued mark is not guarded by pending.
MarkQueuedUnguarded(n) ==
    /\ request[n] = "markQueued"
    /\ GuardedUpdate(n, "queued", Statuses)
    /\ RequestGoto(n, "done")
    /\ UNCHANGED brokerVars /\ NoFault

\* publishForDelivery, second half: pending -> queued, if it is still pending.
MarkQueued(n) ==
    /\ request[n] = "markQueued"
    /\ \/ GuardedUpdate(n, "queued", {"pending"})
       \/ UpdateRejected(n, {"pending"})
    /\ RequestGoto(n, "done")
    /\ UNCHANGED brokerVars /\ NoFault

MarkQueuedFails(n) ==
    /\ request[n] = "markQueued"
    /\ Fault("service.database")
    /\ GuardedUpdate(n, "queued", {"pending"}) \/ UNCHANGED storeVars
    /\ RequestGoto(n, "done")
    /\ UNCHANGED brokerVars

\* The API process dies in the request, or the client goes and its context ends.
AbandonRequest(n) ==
    /\ request[n] \in {"publish", "markQueued"}
    /\ Fault("service.abandoned")
    /\ RequestGoto(n, "done")
    /\ UNCHANGED <<storeVars, brokerVars>>

\* Cancel: the guarded update takes effect; otherwise nothing changes.
Cancel(n) ==
    /\ GuardedUpdate(n, "cancelled", CancellableStatuses)
    /\ UNCHANGED <<request, brokerVars>> /\ NoFault

\* One step of a create request.
RequestStep(n) ==
    \/ PublishForDelivery(n) \/ PublishForDeliveryFails(n)
    \/ MarkQueued(n) \/ MarkQueuedFails(n)
    \/ AbandonRequest(n)

ServiceNext ==
    \/ \E n \in Notifications, initial \in InitialStatuses :
         Create(n, initial) \/ CreateFails(n, initial)
    \/ \E n \in Notifications : RequestStep(n) \/ Cancel(n)
=============================================================================
