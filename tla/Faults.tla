------------------------------- MODULE Faults -------------------------------
(***************************************************************************)
(* The faults the code is written to survive. Every fault action of the    *)
(* component modules is of one kind and draws on one budget, so that a run  *)
(* says which faults it allows (FaultKinds) and how many (MaxFaults).       *)
(***************************************************************************)
EXTENDS Naturals

CONSTANTS
    FaultKinds,     \* the kinds of fault that may occur
    MaxFaults       \* bound: how many faults occur in one behaviour

\* Every kind of fault the component modules describe.
AllFaultKinds ==
    {"worker.crash",        \* the worker process dies and is restarted
     "worker.connection",   \* its AMQP connection drops; it drains and restarts
     "worker.channel",      \* the broker closes the channel of one consumer
     "worker.shutdown",     \* its context ends while a handler waits for the limiter
     "worker.database",     \* a query of a handler fails, before or after commit
     "worker.publish",      \* a publish of a handler fails, before or after routing
     "worker.slow",         \* a handler holds its claim past STALE_PENDING_AFTER
     "provider.response",   \* the provider accepted, the response was lost
     "service.database", "service.publish",
     "service.abandoned",   \* the API process dies or the client disconnects
     "scheduler.database", "scheduler.publish", "scheduler.crash"}

ASSUME FaultsAssumption == FaultKinds \subseteq AllFaultKinds /\ MaxFaults \in Nat

VARIABLE faults             \* how many faults have occurred

FaultsTypeOK == faults \in 0 .. MaxFaults

FaultsInit == faults = 0

\* One fault of the given kind happens in this step.
Fault(kind) ==
    /\ kind \in FaultKinds
    /\ faults < MaxFaults
    /\ faults' = faults + 1

NoFault == UNCHANGED faults
=============================================================================
