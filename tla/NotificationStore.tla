-------------------------- MODULE NotificationStore -------------------------
(***************************************************************************)
(* The notifications table and the statements of                           *)
(* internal/storage/postgres/repository.go that change it. Each statement  *)
(* is one atomic UPDATE or INSERT: its WHERE clause is the guard.           *)
(*                                                                         *)
(* Time is abstracted to what the statements compare. stale[n] says that   *)
(* the timestamp a sweep looks at (created_at of a pending row, updated_at *)
(* of a queued or processing one) is older than STALE_PENDING_AFTER; every  *)
(* statement that sets updated_at = now() clears it. due[n] says that       *)
(* scheduled_at has passed (an immediate notification is due at once).      *)
(***************************************************************************)
EXTENDS Domain, Naturals, FiniteSets

CONSTANT ClaimBatchLimit    \* LIMIT of the scheduler's batched statements

ASSUME StoreAssumption == ClaimBatchLimit \in Nat \ {0}

VARIABLES status, attempts, stale, due

storeVars == <<status, attempts, stale, due>>

\* Where a row has been claimed at least once, and stays so for good.
ClaimedStatuses == {"processing", "retrying", "sent", "failed"}

\* The types, and status and attempt counter of a row in agreement, which no
\* constraint of the table ensures.
StoreTypeOK ==
    /\ status \in [Notifications -> RowStates]
    /\ attempts \in [Notifications -> Nat]
    /\ stale \in [Notifications -> BOOLEAN]
    /\ due \in [Notifications -> BOOLEAN]
    /\ \A n \in Notifications : attempts[n] > 0 <=> status[n] \in ClaimedStatuses

StoreInit ==
    /\ status = [n \in Notifications |-> Absent]
    /\ attempts = [n \in Notifications |-> 0]
    /\ stale = [n \in Notifications |-> FALSE]
    /\ due = [n \in Notifications |-> FALSE]

----------------------------------------------------------------------------
(* Statements on one row *)

\* Create: the INSERT of a pending or, with a delivery time, scheduled row.
InsertRow(n, initial) ==
    /\ status[n] = Absent
    /\ status' = [status EXCEPT ![n] = initial]
    /\ due' = [due EXCEPT ![n] = (initial = "pending")]
    /\ UNCHANGED <<attempts, stale>>

\* The UPDATE behind UpdateStatus, MarkQueuedBulk, MarkRetrying, MarkFailed
\* and MarkSent when its WHERE clause accepts the row.
GuardedUpdate(n, to, allowedFrom) ==
    /\ status[n] \in allowedFrom
    /\ status' = [status EXCEPT ![n] = to]
    /\ stale' = [stale EXCEPT ![n] = FALSE]
    /\ UNCHANGED <<attempts, due>>

\* ... and when it affects no row: ErrInvalidTransition, nothing written.
UpdateRejected(n, allowedFrom) ==
    /\ status[n] \notin allowedFrom
    /\ UNCHANGED storeVars

\* Defective variant: a claim guard that admits sent rows.
ClaimableEvenSent == Statuses \ {"scheduled", "processing", "cancelled", "failed"}

ClaimableStatuses == StatusesAllowedInto("processing")

\* Defective variant: the claim is an UpdateStatus, which leaves the counter alone.
ClaimUncounted(n) ==
    /\ status[n] \in ClaimableStatuses
    /\ status' = [status EXCEPT ![n] = "processing"]
    /\ stale' = [stale EXCEPT ![n] = FALSE]
    /\ UNCHANGED <<attempts, due>>

\* ClaimForProcessing: guarded transition and attempt counter in one statement.
ClaimForProcessing(n) ==
    /\ status[n] \in ClaimableStatuses
    /\ status' = [status EXCEPT ![n] = "processing"]
    /\ attempts' = [attempts EXCEPT ![n] = @ + 1]
    /\ stale' = [stale EXCEPT ![n] = FALSE]
    /\ UNCHANGED due

\* TouchQueued: refresh updated_at if the row is still queued.
TouchQueued(n) ==
    /\ stale' = [stale EXCEPT ![n] = @ /\ status[n] # "queued"]
    /\ UNCHANGED <<status, attempts, due>>

----------------------------------------------------------------------------
(* Batched statements of the scheduler *)

\* ORDER BY ... LIMIT: as many of the matching rows as the limit admits.
\* Which ones, the timestamps decide; here any choice of that size may be taken.
LimitedTo(matching) ==
    {S \in SUBSET matching :
        \/ S = matching /\ Cardinality(matching) <= ClaimBatchLimit
        \/ Cardinality(S) = ClaimBatchLimit}

\* Defective variants: scheduled_at is not compared; pending rows are not swept.
DueRowsAnyTime ==
    {n \in Notifications :
        status[n] = "scheduled" \/ (status[n] = "pending" /\ stale[n])}
DueRowsScheduledOnly == {n \in Notifications : status[n] = "scheduled" /\ due[n]}

DueRows ==
    {n \in Notifications :
        \/ status[n] = "scheduled" /\ due[n]
        \/ status[n] = "pending" /\ stale[n]}

StaleQueuedRows == {n \in Notifications : status[n] = "queued" /\ stale[n]}

\* Defective variant: updated_at is not compared with the cutoff.
StaleProcessingRowsAnyAge == {n \in Notifications : status[n] = "processing"}

StaleProcessingRows == {n \in Notifications : status[n] = "processing" /\ stale[n]}

\* The batched UPDATE of the rows in S to one status.
UpdateRows(S, to) ==
    /\ status' = [n \in Notifications |-> IF n \in S THEN to ELSE status[n]]
    /\ stale' = [n \in Notifications |-> stale[n] /\ n \notin S]
    /\ UNCHANGED <<attempts, due>>

\* ClaimDueForQueue
ClaimDueForQueue(S) == S \in LimitedTo(DueRows) /\ UpdateRows(S, "queued")

\* ListStaleQueued: a SELECT, it locks and changes nothing.
ListStaleQueued(S) == S \in LimitedTo(StaleQueuedRows) /\ UNCHANGED storeVars

\* RecoverStaleProcessing
RecoverStaleProcessing(S) ==
    S \in LimitedTo(StaleProcessingRows) /\ UpdateRows(S, "retrying")

----------------------------------------------------------------------------
(* The clock *)

\* scheduled_at passes.
BecomeDue(n) ==
    /\ status[n] # Absent
    /\ ~due[n]
    /\ due' = [due EXCEPT ![n] = TRUE]
    /\ UNCHANGED <<status, attempts, stale>>

\* The row's timestamp passes the STALE_PENDING_AFTER cutoff.
BecomeStale(n) ==
    /\ status[n] \in {"pending", "queued", "processing"}
    /\ ~stale[n]
    /\ stale' = [stale EXCEPT ![n] = TRUE]
    /\ UNCHANGED <<status, attempts, due>>
=============================================================================
