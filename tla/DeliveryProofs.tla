--------------------------- MODULE DeliveryProofs ---------------------------
(***************************************************************************)
(* Theorems about Delivery, for every set of notifications, handlers,       *)
(* processes and schedulers, every MaxAttempts, and every choice of faults. *)
(***************************************************************************)
EXTENDS Delivery, FiniteSetTheorems, TLAPS

----------------------------------------------------------------------------
(* Type correctness *)

\* An update from these statuses to that one takes no row into or out of the
\* statuses of claimed rows.
KeepsClaimed(from, to) ==
    \A s \in from : s \in ClaimedStatuses <=> to \in ClaimedStatuses

LEMMA UpdatesKeepClaimed ==
    /\ \A to \in {"retrying", "sent", "failed"} : KeepsClaimed({"processing"}, to)
    /\ KeepsClaimed({"pending"}, "queued")
    /\ KeepsClaimed(CancellableStatuses, "cancelled")
    /\ ClaimableStatuses \subseteq Statuses
BY DEF KeepsClaimed, ClaimedStatuses, ClaimableStatuses, CancellableStatuses,
       StatusesAllowedInto, CanTransition, transitions, Statuses

\* Every statement of the repository keeps the table well-typed.
LEMMA StoreStatementsType ==
    ASSUME StoreTypeOK, NEW n \in Notifications
    PROVE  /\ \A i \in InitialStatuses : InsertRow(n, i) => StoreTypeOK'
           /\ \A to \in Statuses, from \in SUBSET Statuses :
                KeepsClaimed(from, to) /\ GuardedUpdate(n, to, from) => StoreTypeOK'
           /\ ClaimForProcessing(n) => StoreTypeOK'
           /\ TouchQueued(n) => StoreTypeOK'
           /\ BecomeDue(n) => StoreTypeOK'
           /\ BecomeStale(n) => StoreTypeOK'
<1>1. ASSUME NEW i \in InitialStatuses, InsertRow(n, i) PROVE StoreTypeOK'
  BY <1>1 DEF StoreTypeOK, InsertRow, RowStates, InitialStatuses, Statuses, ClaimedStatuses, Absent
<1>2. ASSUME NEW to \in Statuses, NEW from \in SUBSET Statuses, KeepsClaimed(from, to),
             GuardedUpdate(n, to, from)
      PROVE  StoreTypeOK'
  BY <1>2 DEF StoreTypeOK, GuardedUpdate, RowStates, KeepsClaimed
<1>3. ASSUME ClaimForProcessing(n) PROVE StoreTypeOK'
  BY <1>3 DEF StoreTypeOK, ClaimForProcessing, RowStates, Statuses, ClaimedStatuses
<1>4. ASSUME TouchQueued(n) PROVE StoreTypeOK'
  BY <1>4 DEF StoreTypeOK, TouchQueued
<1>5. ASSUME BecomeDue(n) PROVE StoreTypeOK'
  BY <1>5 DEF StoreTypeOK, BecomeDue
<1>6. ASSUME BecomeStale(n) PROVE StoreTypeOK'
  BY <1>6 DEF StoreTypeOK, BecomeStale
<1> QED BY <1>1, <1>2, <1>3, <1>4, <1>5, <1>6

\* ... the batched statements too.
LEMMA StoreBatchesType ==
    ASSUME StoreTypeOK, NEW S \in SUBSET Notifications
    PROVE  /\ ClaimDueForQueue(S) => StoreTypeOK'
           /\ ListStaleQueued(S) => StoreTypeOK'
           /\ RecoverStaleProcessing(S) => StoreTypeOK'
<1>1. ASSUME NEW T \in SUBSET Notifications, NEW to \in Statuses, UpdateRows(T, to),
             \A n \in T : status[n] \in ClaimedStatuses <=> to \in ClaimedStatuses
      PROVE  StoreTypeOK'
  BY <1>1 DEF StoreTypeOK, UpdateRows, RowStates
<1>2. ASSUME ClaimDueForQueue(S) PROVE StoreTypeOK'
  BY <1>1, <1>2 DEF ClaimDueForQueue, LimitedTo, DueRows, Statuses, ClaimedStatuses
<1>3. ASSUME RecoverStaleProcessing(S) PROVE StoreTypeOK'
  BY <1>1, <1>3
  DEF RecoverStaleProcessing, LimitedTo, StaleProcessingRows, Statuses, ClaimedStatuses
<1>4. ASSUME ListStaleQueued(S) PROVE StoreTypeOK'
  BY <1>4 DEF ListStaleQueued, storeVars, StoreTypeOK
<1> QED BY <1>2, <1>3, <1>4

LEMMA StoreUnchangedType ==
    ASSUME StoreTypeOK, UNCHANGED storeVars
    PROVE  StoreTypeOK'
BY DEF StoreTypeOK, storeVars

\* Every queue operation keeps the message counts natural numbers.
LEMMA BrokerOperationsType ==
    ASSUME BrokerTypeOK, NEW n \in Notifications
    PROVE  /\ PublishCreated(n) => BrokerTypeOK'
           /\ PublishRetry(n) => BrokerTypeOK'
           /\ PublishDeadLetter(n) => BrokerTypeOK'
           /\ Deliver(n) => BrokerTypeOK'
           /\ Requeue(n) => BrokerTypeOK'
           /\ ExpireRetryTier(n) => BrokerTypeOK'
BY DEF BrokerTypeOK, PublishCreated, PublishRetry, PublishDeadLetter, Deliver,
       Requeue, ExpireRetryTier

LEMMA BrokerUnchangedType ==
    ASSUME BrokerTypeOK, UNCHANGED brokerVars
    PROVE  BrokerTypeOK'
BY DEF BrokerTypeOK, brokerVars

\* A process has finitely many unacknowledged messages of a notification.
LEMMA UnackedType ==
    ASSUME NEW p \in Processes, NEW n \in Notifications
    PROVE  Unacked(p)[n] \in Nat
<1> DEFINE H == {h \in HandlersOf(p) : at[h] \in Busy /\ message[h] = n}
<1>1. H \subseteq Handlers
  BY DEF HandlersOf
<1>2. Cardinality(H) \in Nat
  BY <1>1, FS_Subset, FS_CardinalityType, WorkerAssumption
<1> QED BY <1>2 DEF Unacked

LEMMA RequeueAllType ==
    ASSUME BrokerTypeOK, NEW p \in Processes, RequeueAll(Unacked(p))
    PROVE  BrokerTypeOK'
BY UnackedType DEF BrokerTypeOK, RequeueAll

LEMMA FaultsType ==
    ASSUME FaultsTypeOK, NoFault \/ \E k \in AllFaultKinds : Fault(k)
    PROVE  FaultsTypeOK'
BY FaultsAssumption DEF FaultsTypeOK, NoFault, Fault

\* A handler that holds a message goes on with it, or settles it.
LEMMA HandlerMovesType ==
    ASSUME WorkerTypeOK, NEW h \in Handlers, at[h] \in Busy
    PROVE  /\ message[h] \in Notifications
           /\ \A step \in Busy : Goto(h, step) => WorkerTypeOK'
           /\ Settle(h) => WorkerTypeOK'
<1>1. message[h] \in Notifications
  BY DEF WorkerTypeOK
<1>2. ASSUME NEW step \in Busy, Goto(h, step) PROVE WorkerTypeOK'
  BY <1>2 DEF WorkerTypeOK, Goto
<1>3. ASSUME Settle(h) PROVE WorkerTypeOK'
  BY <1>3 DEF WorkerTypeOK, Settle, Busy, HoldingClaim
<1> QED BY <1>1, <1>2, <1>3

\* One step of a handler that keeps the row as it is or writes it by one statement.
LEMMA HandlerStepType ==
    ASSUME TypeOK, NEW h \in Handlers, HandlerStep(h), UNCHANGED <<request, schedulerVars>>
    PROVE  TypeOK'
<1> USE DEF TypeOK
<1>1. ServiceTypeOK' /\ SchedulerTypeOK'
  BY DEF ServiceTypeOK, SchedulerTypeOK, schedulerVars
<1>2. at[h] \in Busy
  BY DEF HandlerStep, Claim, DropUnclaimable, ClaimFails, StartSend, ReleaseThrottled,
         SendAccepted, SendRefused, SendResponseLost, RecordOutcome, OutcomeRejected,
         OutcomeFails, PublishRetryMessage, PublishRetryFails, PublishDeadLetterMessage,
         PublishDeadLetterFails, Ack, Nack, Busy, HoldingClaim, Outcome
<1>3. message[h] \in Notifications
  BY <1>2, HandlerMovesType
<1>4. FaultsTypeOK'
  BY FaultsType
  DEF HandlerStep, Claim, DropUnclaimable, ClaimFails, StartSend, ReleaseThrottled,
      SendAccepted, SendRefused, SendResponseLost, RecordOutcome, OutcomeRejected,
      OutcomeFails, PublishRetryMessage, PublishRetryFails, PublishDeadLetterMessage,
      PublishDeadLetterFails, Ack, Nack, AllFaultKinds
<1>5. CASE Claim(h)
  <2>1. StoreTypeOK' /\ BrokerTypeOK'
    BY <1>3, <1>5, StoreStatementsType, BrokerUnchangedType DEF Claim
  <2>2. WorkerTypeOK'
    BY <1>2, <1>3, <1>5, <2>1 DEF Claim, WorkerTypeOK, StoreTypeOK, Busy, HoldingClaim
  <2> QED BY <1>1, <1>4, <2>1, <2>2
<1>6. CASE DropUnclaimable(h)
  BY <1>1, <1>2, <1>4, <1>6, HandlerMovesType, StoreUnchangedType, BrokerUnchangedType
  DEF DropUnclaimable, UpdateRejected, Busy
<1>7. CASE ClaimFails(h)
  BY <1>1, <1>2, <1>3, <1>4, <1>7, HandlerMovesType, StoreStatementsType,
     StoreUnchangedType, BrokerUnchangedType
  DEF ClaimFails, Busy
<1>8. CASE StartSend(h)
  BY <1>1, <1>2, <1>4, <1>8, HandlerMovesType, StoreUnchangedType, BrokerUnchangedType
  DEF StartSend, Busy, HoldingClaim
<1>9. CASE ReleaseThrottled(h)
  <2>1. /\ "retrying" \in Statuses /\ {"processing"} \in SUBSET Statuses
        /\ KeepsClaimed({"processing"}, "retrying")
    BY UpdatesKeepClaimed DEF Statuses
  <2> QED
    BY <1>1, <1>2, <1>3, <1>4, <1>9, <2>1, HandlerMovesType, StoreStatementsType,
       StoreUnchangedType, BrokerUnchangedType
    DEF ReleaseThrottled, Busy
<1>10. CASE SendAccepted(h)
  <2>1. StoreTypeOK' /\ BrokerTypeOK'
    BY <1>10, StoreUnchangedType, BrokerUnchangedType DEF SendAccepted
  <2>2. WorkerTypeOK'
    BY <1>2, <1>3, <1>10 DEF SendAccepted, WorkerTypeOK, Busy, HoldingClaim
  <2> QED BY <1>1, <1>4, <2>1, <2>2
<1>11. CASE SendRefused(h)
  BY <1>1, <1>2, <1>4, <1>11, HandlerMovesType, StoreUnchangedType, BrokerUnchangedType
  DEF SendRefused, AfterFailure, Busy, HoldingClaim
<1>12. CASE SendResponseLost(h)
  <2>1. StoreTypeOK' /\ BrokerTypeOK'
    BY <1>12, StoreUnchangedType, BrokerUnchangedType DEF SendResponseLost
  <2>2. WorkerTypeOK'
    BY <1>2, <1>3, <1>12 DEF SendResponseLost, AfterFailure, WorkerTypeOK, Busy, HoldingClaim
  <2> QED BY <1>1, <1>4, <2>1, <2>2
<1>13. CASE RecordOutcome(h) \/ OutcomeFails(h)
  <2>1. /\ Outcome[at[h]].status \in Statuses /\ Outcome[at[h]].next \in Busy
        /\ {"processing"} \in SUBSET Statuses
        /\ KeepsClaimed({"processing"}, Outcome[at[h]].status)
    BY <1>13, UpdatesKeepClaimed DEF RecordOutcome, OutcomeFails, Outcome, Statuses, Busy
  <2> QED
    BY <1>1, <1>2, <1>3, <1>4, <1>13, <2>1, HandlerMovesType, StoreStatementsType,
       StoreUnchangedType, BrokerUnchangedType
    DEF RecordOutcome, OutcomeFails, Busy
<1>14. CASE OutcomeRejected(h)
  BY <1>1, <1>2, <1>4, <1>14, HandlerMovesType, StoreUnchangedType, BrokerUnchangedType
  DEF OutcomeRejected, UpdateRejected, Busy
<1>15. CASE PublishRetryMessage(h) \/ PublishRetryFails(h)
  BY <1>1, <1>2, <1>3, <1>4, <1>15, HandlerMovesType, StoreUnchangedType,
     BrokerOperationsType, BrokerUnchangedType
  DEF PublishRetryMessage, PublishRetryFails, PublishLost, Busy
<1>16. CASE PublishDeadLetterMessage(h) \/ PublishDeadLetterFails(h)
  BY <1>1, <1>2, <1>3, <1>4, <1>16, HandlerMovesType, StoreUnchangedType,
     BrokerOperationsType, BrokerUnchangedType
  DEF PublishDeadLetterMessage, PublishDeadLetterFails, PublishLost, Busy
<1>17. CASE Ack(h) \/ Nack(h)
  BY <1>1, <1>2, <1>3, <1>4, <1>17, HandlerMovesType, StoreUnchangedType,
     BrokerOperationsType, BrokerUnchangedType
  DEF Ack, Nack
<1> QED
  BY <1>5, <1>6, <1>7, <1>8, <1>9, <1>10, <1>11, <1>12, <1>13, <1>14, <1>15, <1>16, <1>17
  DEF HandlerStep

\* Receiving a message, and the life of a worker process.
LEMMA WorkerStepType ==
    ASSUME TypeOK, WorkerNext, UNCHANGED <<request, schedulerVars>>
    PROVE  TypeOK'
<1> USE DEF TypeOK
<1>1. ServiceTypeOK' /\ SchedulerTypeOK'
  BY DEF ServiceTypeOK, SchedulerTypeOK, schedulerVars
<1>2. ASSUME NEW h \in Handlers, NEW n \in Notifications, Receive(h, n) PROVE TypeOK'
  <2>1. StoreTypeOK' /\ BrokerTypeOK' /\ FaultsTypeOK'
    BY <1>2, StoreUnchangedType, BrokerOperationsType, FaultsType DEF Receive
  <2>2. WorkerTypeOK'
    BY <1>2 DEF Receive, WorkerTypeOK, Busy
  <2> QED BY <1>1, <2>1, <2>2
<1>3. ASSUME NEW p \in Processes, LoseConnection(p) PROVE TypeOK'
  <2>1. StoreTypeOK' /\ BrokerTypeOK' /\ FaultsTypeOK'
    BY <1>3, StoreUnchangedType, RequeueAllType, FaultsType DEF LoseConnection, AllFaultKinds
  <2>2. WorkerTypeOK'
    BY <1>3 DEF LoseConnection, WorkerTypeOK, handlerVars
  <2> QED BY <1>1, <2>1, <2>2
<1>4. ASSUME NEW p \in Processes, Restart(p) PROVE TypeOK'
  <2>1. StoreTypeOK' /\ BrokerTypeOK' /\ FaultsTypeOK'
    BY <1>4, StoreUnchangedType, BrokerUnchangedType, FaultsType DEF Restart
  <2>2. WorkerTypeOK'
    BY <1>4 DEF Restart, WorkerTypeOK, handlerVars
  <2> QED BY <1>1, <2>1, <2>2
<1>5. ASSUME NEW p \in Processes, Crash(p) PROVE TypeOK'
  <2>1. StoreTypeOK' /\ BrokerTypeOK' /\ FaultsTypeOK'
    BY <1>5, StoreUnchangedType, RequeueAllType, FaultsType DEF Crash, AllFaultKinds
  <2>2. WorkerTypeOK'
    BY <1>5 DEF Crash, WorkerTypeOK, Busy, HoldingClaim
  <2> QED BY <1>1, <2>1, <2>2
<1> QED BY <1>1, <1>2, <1>3, <1>4, <1>5, HandlerStepType DEF WorkerNext

LEMMA SchedulerStepType ==
    ASSUME TypeOK, SchedulerNext, UNCHANGED <<request, workerVars>>
    PROVE  TypeOK'
<1> USE DEF TypeOK
<1>1. ServiceTypeOK' /\ WorkerTypeOK'
  BY DEF ServiceTypeOK, WorkerTypeOK, workerVars, handlerVars
<1> SUFFICES ASSUME NEW s \in Schedulers, TickStep(s) \/ SchedulerCrash(s)
             PROVE  TypeOK'
  BY DEF SchedulerNext
<1>2. ASSUME NEW S \in SUBSET Notifications,
             NEW next \in {"idle", "queueDue", "republishStale", "recoverStale"},
             Enter(s, next, S)
      PROVE  SchedulerTypeOK'
  BY <1>2 DEF Enter, SchedulerTypeOK
<1>3. ASSUME NEW n \in Notifications, Published(s, n) PROVE SchedulerTypeOK'
  BY <1>3 DEF Published, SchedulerTypeOK
<1>4. FaultsTypeOK'
  BY FaultsType
  DEF TickStep, SchedulerCrash, QueueDue, QueueDueFails, RepublishStale, RepublishStaleFails,
      RecoverStale, RecoverStaleFails, FinishTick, RepublishRow, Touch, TouchFails,
      PublishRow, PublishRowFails, AllFaultKinds
<1>5. CASE QueueDue(s) \/ RepublishStale(s) \/ RecoverStale(s)
  BY <1>1, <1>2, <1>4, <1>5, StoreBatchesType, BrokerUnchangedType
  DEF QueueDue, RepublishStale, RecoverStale
<1>6. CASE QueueDueFails(s) \/ RepublishStaleFails(s) \/ RecoverStaleFails(s) \/ FinishTick(s)
  <2>1. StoreTypeOK'
    BY <1>6, StoreBatchesType, StoreUnchangedType
    DEF QueueDueFails, RepublishStaleFails, RecoverStaleFails, FinishTick
  <2>2. BrokerTypeOK'
    BY <1>6, BrokerUnchangedType
    DEF QueueDueFails, RepublishStaleFails, RecoverStaleFails, FinishTick
  <2>3. SchedulerTypeOK'
    BY <1>2, <1>6 DEF QueueDueFails, RepublishStaleFails, RecoverStaleFails, FinishTick
  <2> QED BY <1>1, <1>4, <2>1, <2>2, <2>3
<1>7. ASSUME NEW n \in Notifications, RepublishRow(s, n) PROVE TypeOK'
  <2>1. StoreTypeOK' /\ BrokerTypeOK'
    BY <1>7, StoreUnchangedType, BrokerOperationsType DEF RepublishRow
  <2>2. SchedulerTypeOK'
    BY <1>7 DEF RepublishRow, SchedulerTypeOK
  <2> QED BY <1>1, <1>4, <2>1, <2>2
<1>8. ASSUME NEW n \in Notifications, Touch(s, n) \/ TouchFails(s, n) PROVE TypeOK'
  <2>1. StoreTypeOK' /\ BrokerTypeOK'
    BY <1>8, StoreStatementsType, StoreUnchangedType, BrokerUnchangedType
    DEF Touch, TouchFails, brokerVars
  <2>2. SchedulerTypeOK'
    BY <1>8 DEF Touch, TouchFails, SchedulerTypeOK
  <2> QED BY <1>1, <1>4, <2>1, <2>2
<1>9. ASSUME NEW n \in Notifications, PublishRow(s, n) \/ PublishRowFails(s, n) PROVE TypeOK'
  BY <1>1, <1>3, <1>4, <1>9, StoreUnchangedType, BrokerOperationsType, BrokerUnchangedType
  DEF PublishRow, PublishRowFails, PublishLost
<1>10. CASE SchedulerCrash(s)
  <2>1. StoreTypeOK' /\ BrokerTypeOK'
    BY <1>10, StoreUnchangedType, BrokerUnchangedType DEF SchedulerCrash
  <2>2. SchedulerTypeOK'
    BY <1>10 DEF SchedulerCrash, SchedulerTypeOK
  <2> QED BY <1>1, <1>4, <2>1, <2>2
<1> QED BY <1>5, <1>6, <1>7, <1>8, <1>9, <1>10 DEF TickStep

LEMMA ServiceStepType ==
    ASSUME TypeOK, ServiceNext, UNCHANGED <<schedulerVars, workerVars>>
    PROVE  TypeOK'
<1> USE DEF TypeOK
<1>1. SchedulerTypeOK' /\ WorkerTypeOK'
  BY DEF SchedulerTypeOK, WorkerTypeOK, schedulerVars, workerVars, handlerVars
<1>2. ASSUME NEW n \in Notifications, NEW step \in RequestStates, RequestGoto(n, step)
      PROVE  ServiceTypeOK'
  BY <1>2 DEF RequestGoto, ServiceTypeOK
<1>3. {"none", "publish", "markQueued", "done"} = RequestStates
  BY DEF RequestStates
<1>4. FaultsTypeOK'
  BY FaultsType
  DEF ServiceNext, RequestStep, Create, CreateFails, PublishForDelivery, PublishForDeliveryFails,
      MarkQueued, MarkQueuedFails, AbandonRequest, Cancel, AllFaultKinds
<1>5. ASSUME NEW n \in Notifications, NEW initial \in InitialStatuses,
             Create(n, initial) \/ CreateFails(n, initial)
      PROVE  TypeOK'
  BY <1>1, <1>2, <1>3, <1>4, <1>5, StoreStatementsType, BrokerUnchangedType
  DEF Create, CreateFails
<1>6. ASSUME NEW n \in Notifications, RequestStep(n) \/ Cancel(n) PROVE TypeOK'
  <2>1. /\ "queued" \in Statuses /\ "cancelled" \in Statuses
        /\ {"pending"} \in SUBSET Statuses /\ CancellableStatuses \in SUBSET Statuses
    BY DEF Statuses, CancellableStatuses, StatusesAllowedInto
  <2>2. StoreTypeOK'
    BY <1>6, <2>1, UpdatesKeepClaimed, StoreStatementsType, StoreUnchangedType
    DEF RequestStep, PublishForDelivery, PublishForDeliveryFails, MarkQueued, MarkQueuedFails,
        AbandonRequest, Cancel, UpdateRejected
  <2>3. BrokerTypeOK'
    BY <1>6, BrokerOperationsType, BrokerUnchangedType
    DEF RequestStep, PublishForDelivery, PublishForDeliveryFails, PublishLost, MarkQueued,
        MarkQueuedFails, AbandonRequest, Cancel
  <2>4. ServiceTypeOK'
    BY <1>2, <1>3, <1>6
    DEF RequestStep, PublishForDelivery, PublishForDeliveryFails, MarkQueued, MarkQueuedFails,
        AbandonRequest, Cancel, ServiceTypeOK
  <2> QED BY <1>1, <1>4, <2>2, <2>3, <2>4
<1> QED BY <1>5, <1>6 DEF ServiceNext

LEMMA ClockStepType ==
    ASSUME TypeOK, ClockNext, UNCHANGED <<request, schedulerVars, workerVars>>
    PROVE  TypeOK'
<1> USE DEF TypeOK
<1>1. ServiceTypeOK' /\ SchedulerTypeOK' /\ WorkerTypeOK'
  BY DEF ServiceTypeOK, SchedulerTypeOK, WorkerTypeOK, schedulerVars, workerVars, handlerVars
<1>2. FaultsTypeOK'
  BY FaultsType DEF ClockNext, ClockStep, AgeRow, AgeHeldRow, AllFaultKinds
<1>3. StoreTypeOK' /\ BrokerTypeOK'
  BY StoreStatementsType, StoreUnchangedType, BrokerOperationsType, BrokerUnchangedType
  DEF ClockNext, ClockStep, AgeRow, AgeHeldRow
<1> QED BY <1>1, <1>2, <1>3

LEMMA InitType == Init => TypeOK
<1> SUFFICES ASSUME Init PROVE TypeOK
  OBVIOUS
<1>1. StoreTypeOK
  BY DEF Init, StoreInit, StoreTypeOK, RowStates, Absent, ClaimedStatuses
<1>2. BrokerTypeOK /\ FaultsTypeOK /\ ServiceTypeOK /\ SchedulerTypeOK
  BY FaultsAssumption
  DEF Init, BrokerInit, FaultsInit, ServiceInit, SchedulerInit, BrokerTypeOK, FaultsTypeOK,
      ServiceTypeOK, SchedulerTypeOK, RequestStates
<1>3. WorkerTypeOK
  BY DEF Init, WorkerInit, WorkerTypeOK, Busy, HoldingClaim
<1> QED BY <1>1, <1>2, <1>3 DEF TypeOK

LEMMA StutterType == TypeOK /\ UNCHANGED vars => TypeOK'
BY DEF TypeOK, StoreTypeOK, BrokerTypeOK, FaultsTypeOK, ServiceTypeOK, SchedulerTypeOK,
       WorkerTypeOK, vars, storeVars, brokerVars, schedulerVars, workerVars, handlerVars

LEMMA StepType == TypeOK /\ [Next]_vars => TypeOK'
BY ServiceStepType, SchedulerStepType, WorkerStepType, ClockStepType, StutterType DEF Next

\* Rows, queues, handlers and sweeps keep to their types, and a row has counted
\* an attempt exactly if its status is one of a claimed row: no late queued mark,
\* cancel, sweep or outcome write, and no failed one, takes it across.
THEOREM TypeCorrect == Spec => []TypeOK
BY InitType, StepType, PTL DEF Spec

=============================================================================
