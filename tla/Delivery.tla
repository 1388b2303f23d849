------------------------------ MODULE Delivery ------------------------------
(***************************************************************************)
(* The delivery path as one system: API requests (Service), the scheduler's *)
(* sweeps (Scheduler) and the delivery workers (Worker) around the          *)
(* notifications table (NotificationStore) and the queues (Broker). The     *)
(* components share nothing else: each step is a step of one of them, or of *)
(* the clock.                                                               *)
(***************************************************************************)
EXTENDS Service, Scheduler, Worker

CONSTANT MaxCopies      \* bound: a queued row with this many messages waits unswept

ASSUME DeliveryAssumption == MaxCopies \in Nat \ {0}

vars == <<storeVars, brokerVars, faults, request, schedulerVars, workerVars>>

TypeOK ==
    /\ StoreTypeOK /\ BrokerTypeOK /\ FaultsTypeOK
    /\ ServiceTypeOK /\ SchedulerTypeOK /\ WorkerTypeOK

Init ==
    /\ StoreInit /\ BrokerInit /\ FaultsInit
    /\ ServiceInit /\ SchedulerInit /\ WorkerInit

----------------------------------------------------------------------------
(* The clock *)

\* A row's timestamp passes the cutoff. A handler that holds a claim keeps to
\* the time its timeouts allow, so a claimed row ages only when nobody holds it.
AgeRow(n) ==
    /\ status[n] = "queued" => work[n] + retryTier[n] < MaxCopies
    /\ status[n] = "processing" => Holders(n) = {}
    /\ BecomeStale(n) /\ NoFault
    /\ UNCHANGED brokerVars

\* ... unless the limiter's backlog or PROVIDER_TIMEOUT keeps the handler longer
\* than STALE_PENDING_AFTER: config.go relates none of them to the others.
AgeHeldRow(n) ==
    /\ status[n] = "processing" /\ Holders(n) # {}
    /\ Fault("worker.slow")
    /\ BecomeStale(n)
    /\ UNCHANGED brokerVars

ClockStep(n) ==
    \/ AgeRow(n) \/ AgeHeldRow(n)
    \/ BecomeDue(n) /\ UNCHANGED brokerVars /\ NoFault
    \/ ExpireRetryTier(n) /\ UNCHANGED storeVars /\ NoFault

ClockNext == \E n \in Notifications : ClockStep(n)

----------------------------------------------------------------------------

Next ==
    \/ ServiceNext /\ UNCHANGED <<schedulerVars, workerVars>>
    \/ SchedulerNext /\ UNCHANGED <<request, workerVars>>
    \/ WorkerNext /\ UNCHANGED <<request, schedulerVars>>
    \/ ClockNext /\ UNCHANGED <<request, schedulerVars, workerVars>>

Spec == Init /\ [][Next]_vars

(***************************************************************************)
(* What the scheduling of the program guarantees: a goroutine that can take *)
(* a step takes one, a ready message is pushed to some handler, the         *)
(* scheduler's ticker keeps firing, time passes. Nothing is assumed of      *)
(* faults, of the provider's answers or of clients.                         *)
(***************************************************************************)
WorkerStepOf(h) == HandlerStep(h) /\ UNCHANGED <<request, schedulerVars>>
ReceiveOf(n) ==
    (\E h \in Handlers : Receive(h, n)) /\ UNCHANGED <<request, schedulerVars>>

Fairness ==
    /\ \A n \in Notifications :
         /\ WF_vars(ReceiveOf(n))
         /\ WF_vars(RequestStep(n) /\ UNCHANGED <<schedulerVars, workerVars>>)
         /\ WF_vars(ClockStep(n) /\ UNCHANGED <<request, schedulerVars, workerVars>>)
    /\ \A h \in Handlers : WF_vars(WorkerStepOf(h))
    /\ \A p \in Processes : WF_vars(Restart(p) /\ UNCHANGED <<request, schedulerVars>>)
    /\ \A s \in Schedulers : WF_vars(TickStep(s) /\ UNCHANGED <<request, workerVars>>)

FairSpec == Spec /\ Fairness

----------------------------------------------------------------------------
(* Properties *)

\* Every status change of every process is a legal transition: the guarded
\* statements of the repository implement the domain's table, also where the
\* SQL names its statuses itself (the sweeps, MarkQueuedBulk, recordOutcome).
Abstract == INSTANCE Lifecycle
ImplementsLifecycle == Abstract!Spec

\* Cancel (service/notification.go) promises that a cancelled notification
\* reaches nobody: messages already published for it are dropped by the claim
\* guard, and no handler is on its way to the provider with it.
CancelledNeverDelivered ==
    \A n \in Notifications :
        status[n] = "cancelled" => deliveries[n] = 0 /\ Holders(n) = {}

\* A scheduled notification is neither published nor sent before its time,
\* though sweeps, cancels and clock run concurrently (ClaimDueForQueue).
NothingBeforeDue ==
    \A n \in Notifications :
        ~due[n] => work[n] + retryTier[n] + deliveries[n] = 0 /\ Holders(n) = {}

\* The claim is exclusive: while a handler is between claim and outcome write,
\* the row is in processing, carries that handler's attempt number and no other
\* handler holds it; so the unfenced outcome writes of MarkSent, MarkRetrying
\* and MarkFailed record the holder's own attempt.
ClaimIsExclusive ==
    \A h \in Handlers :
        at[h] \in HoldingClaim =>
            /\ Holders(message[h]) = {h}
            /\ status[message[h]] = "processing"
            /\ attempts[message[h]] = claimedAttempts[h]

\* Delivery is at least once: a notification recorded as sent was accepted by
\* the provider, whichever handler wrote the row.
SentWasDelivered ==
    \A n \in Notifications : status[n] = "sent" => deliveries[n] > 0

\* ... and a second delivery needs a fault: redelivered and duplicate messages,
\* overlapping sweeps and retries never send an accepted notification again.
DuplicatesNeedFaults ==
    \A n \in Notifications : deliveries[n] <= 1 + faults

\* MAX_DELIVERY_ATTEMPTS caps the attempts up to one more per fault: the cap is
\* only looked at after a failed send, so interrupted attempts do not count.
AttemptsCappedUpToFaults ==
    \A n \in Notifications : attempts[n] <= MaxAttempts + faults

\* handleSendFailure writes the row before it publishes: what is on the
\* dead-letter queue reads failed in the table, and is there once.
DeadLetteredOnceFailed ==
    \A n \in Notifications :
        deadLetter[n] <= (IF status[n] = "failed" THEN 1 ELSE 0)

\* No sweep looks at retrying rows, so somebody must always carry a message for
\* one: a queue, a handler that will publish, requeue or claim it, or the
\* scheduler that has just recovered it.
CarriesMessage(n) ==
    \/ work[n] > 0 \/ retryTier[n] > 0
    \/ \E h \in Handlers :
         /\ Connected(h) /\ message[h] = n
         /\ at[h] \in {"received", "publishRetry", "nack"}
    \/ \E s \in Schedulers : phase[s] = "recoverStale" /\ n \in todo[s]

RetryingIsCarried ==
    \A n \in Notifications : status[n] = "retrying" => CarriesMessage(n)

\* Every created notification is eventually sent, failed or cancelled: lost
\* publishes, crashed workers and abandoned requests are all swept up.
EventuallySettled ==
    \A n \in Notifications :
        status[n] # Absent ~> status[n] \in TerminalStatuses

----------------------------------------------------------------------------
(* Claims of the documentation and the comments *)

\* README: "Concurrent workers can never double-deliver": two handlers are never
\* in the provider call of one notification at a time.
NoConcurrentSends ==
    \A g, h \in Handlers :
        at[g] = "send" /\ at[h] = "send" /\ message[g] = message[h] => g = h
=============================================================================
