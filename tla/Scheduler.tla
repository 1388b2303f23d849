------------------------------ MODULE Scheduler -----------------------------
(***************************************************************************)
(* The scheduler loop of the API process, internal/scheduler. One tick runs *)
(* queueDue, republishStale and recoverStaleProcessing in that order. Each  *)
(* is one batched statement and then a loop over the rows it returned, with *)
(* a publish per row; workers and API requests run between any two calls.   *)
(* Every API process runs its own scheduler.                                *)
(***************************************************************************)
EXTENDS NotificationStore, Broker, Faults

CONSTANT Schedulers

VARIABLES
    phase,          \* where each scheduler is in its tick
    todo,           \* rows of its current batch not yet published
    toTouch         \* the row it has republished and not yet touched

schedulerVars == <<phase, todo, toTouch>>

SchedulerTypeOK ==
    /\ phase \in [Schedulers -> {"idle", "queueDue", "republishStale", "recoverStale"}]
    /\ todo \in [Schedulers -> SUBSET Notifications]
    /\ toTouch \in [Schedulers -> SUBSET Notifications]

SchedulerInit ==
    /\ phase = [s \in Schedulers |-> "idle"]
    /\ todo = [s \in Schedulers |-> {}]
    /\ toTouch = [s \in Schedulers |-> {}]

\* Scheduler s enters a phase with the rows its statement returned.
Enter(s, next, rows) ==
    /\ phase' = [phase EXCEPT ![s] = next]
    /\ todo' = [todo EXCEPT ![s] = rows]
    /\ UNCHANGED toTouch

\* The loop of the current phase is finished.
LoopDone(s) == todo[s] = {} /\ toTouch[s] = {}

\* The publish of row n in the current loop is over.
Published(s, n) ==
    /\ todo' = [todo EXCEPT ![s] = @ \ {n}]
    /\ UNCHANGED <<phase, toTouch>>

----------------------------------------------------------------------------
(* queueDue *)

QueueDue(s) ==
    /\ phase[s] = "idle"
    /\ \E S \in SUBSET Notifications :
         ClaimDueForQueue(S) /\ Enter(s, "queueDue", S)
    /\ UNCHANGED brokerVars /\ NoFault

\* The statement fails, committed or not: logged, the tick goes on.
QueueDueFails(s) ==
    /\ phase[s] = "idle"
    /\ Fault("scheduler.database")
    /\ (\E S \in SUBSET Notifications : ClaimDueForQueue(S)) \/ UNCHANGED storeVars
    /\ Enter(s, "queueDue", {})
    /\ UNCHANGED brokerVars

----------------------------------------------------------------------------
(* republishStale *)

RepublishStale(s) ==
    /\ phase[s] = "queueDue" /\ LoopDone(s)
    /\ \E S \in SUBSET Notifications :
         ListStaleQueued(S) /\ Enter(s, "republishStale", S)
    /\ UNCHANGED brokerVars /\ NoFault

RepublishStaleFails(s) ==
    /\ phase[s] = "queueDue" /\ LoopDone(s)
    /\ Fault("scheduler.database")
    /\ Enter(s, "republishStale", {})
    /\ UNCHANGED <<storeVars, brokerVars>>

\* A confirmed republish is followed by TouchQueued before the next row.
RepublishRow(s, n) ==
    /\ phase[s] = "republishStale" /\ toTouch[s] = {}
    /\ n \in todo[s]
    /\ PublishCreated(n)
    /\ todo' = [todo EXCEPT ![s] = @ \ {n}]
    /\ toTouch' = [toTouch EXCEPT ![s] = {n}]
    /\ UNCHANGED <<phase, storeVars>> /\ NoFault

Touch(s, n) ==
    /\ n \in toTouch[s]
    /\ TouchQueued(n) /\ NoFault
    /\ toTouch' = [toTouch EXCEPT ![s] = {}]
    /\ UNCHANGED <<phase, todo, brokerVars>>

TouchFails(s, n) ==
    /\ n \in toTouch[s]
    /\ Fault("scheduler.database")
    /\ TouchQueued(n) \/ UNCHANGED storeVars
    /\ toTouch' = [toTouch EXCEPT ![s] = {}]
    /\ UNCHANGED <<phase, todo, brokerVars>>

----------------------------------------------------------------------------
(* recoverStaleProcessing *)

RecoverStale(s) ==
    /\ phase[s] = "republishStale" /\ LoopDone(s)
    /\ \E S \in SUBSET Notifications :
         RecoverStaleProcessing(S) /\ Enter(s, "recoverStale", S)
    /\ UNCHANGED brokerVars /\ NoFault

\* After a failed statement the rows are not republished, committed or not.
RecoverStaleFails(s) ==
    /\ phase[s] = "republishStale" /\ LoopDone(s)
    /\ Fault("scheduler.database")
    /\ (\E S \in SUBSET Notifications : RecoverStaleProcessing(S)) \/ UNCHANGED storeVars
    /\ Enter(s, "recoverStale", {})
    /\ UNCHANGED brokerVars

FinishTick(s) ==
    /\ phase[s] = "recoverStale" /\ LoopDone(s)
    /\ Enter(s, "idle", {})
    /\ UNCHANGED <<storeVars, brokerVars>> /\ NoFault

----------------------------------------------------------------------------
(* Publishing the rows of a batch *)

\* The loops of queueDue and recoverStaleProcessing: publish and go on.
PublishRow(s, n) ==
    /\ phase[s] \in {"queueDue", "recoverStale"}
    /\ n \in todo[s]
    /\ PublishCreated(n)
    /\ Published(s, n)
    /\ UNCHANGED storeVars /\ NoFault

\* A failed publish is logged and the loop goes on; a republished row is
\* then not touched.
PublishRowFails(s, n) ==
    /\ phase[s] \in {"queueDue", "republishStale", "recoverStale"} /\ toTouch[s] = {}
    /\ n \in todo[s]
    /\ Fault("scheduler.publish")
    /\ PublishCreated(n) \/ PublishLost
    /\ Published(s, n)
    /\ UNCHANGED storeVars

----------------------------------------------------------------------------

\* The process running the scheduler dies; its successor starts a new tick.
SchedulerCrash(s) ==
    /\ Fault("scheduler.crash")
    /\ phase[s] # "idle"
    /\ phase' = [phase EXCEPT ![s] = "idle"]
    /\ todo' = [todo EXCEPT ![s] = {}]
    /\ toTouch' = [toTouch EXCEPT ![s] = {}]
    /\ UNCHANGED <<storeVars, brokerVars>>

\* One step of RunOnce.
TickStep(s) ==
    \/ QueueDue(s) \/ QueueDueFails(s)
    \/ RepublishStale(s) \/ RepublishStaleFails(s)
    \/ RecoverStale(s) \/ RecoverStaleFails(s)
    \/ FinishTick(s)
    \/ \E n \in Notifications :
         \/ RepublishRow(s, n) \/ Touch(s, n) \/ TouchFails(s, n)
         \/ PublishRow(s, n) \/ PublishRowFails(s, n)

SchedulerNext == \E s \in Schedulers : TickStep(s) \/ SchedulerCrash(s)
=============================================================================
