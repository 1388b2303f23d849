------------------------------- MODULE Domain -------------------------------
(***************************************************************************)
(* The notification lifecycle of internal/domain/notification.go: the      *)
(* statuses, the table of legal transitions and the sets derived from it.  *)
(* The guarded UPDATEs of the storage layer and the claim of the worker    *)
(* take their allowed-from sets from StatusesAllowedInto.                   *)
(***************************************************************************)

CONSTANT Notifications      \* the notification IDs

\* The values of the Status enum.
Statuses ==
    {"pending", "scheduled", "queued", "processing",
     "retrying", "sent", "failed", "cancelled"}

\* The transitions map: for each status, the statuses it may move to.
transitions ==
    [pending    |-> {"queued", "processing", "cancelled"},
     scheduled  |-> {"queued", "cancelled"},
     queued     |-> {"processing", "cancelled"},
     processing |-> {"sent", "retrying", "failed"},
     retrying   |-> {"processing", "failed"},
     sent       |-> {},
     failed     |-> {},
     cancelled  |-> {}]

CanTransition(from, to) == to \in transitions[from]

StatusesAllowedInto(to) == {from \in Statuses : CanTransition(from, to)}

\* Defective variant: a notification may be cancelled between two attempts.
CancellableEvenRetrying == StatusesAllowedInto("cancelled") \cup {"retrying"}

CancellableStatuses == StatusesAllowedInto("cancelled")

\* Statuses with no way out: the outcome of the notification is settled.
TerminalStatuses == {s \in Statuses : transitions[s] = {}}

\* A notification that has not been inserted yet has no row.
Absent == "absent"
RowStates == Statuses \cup {Absent}

\* newNotification: a row starts as pending or, with a delivery time, as scheduled.
InitialStatuses == {"pending", "scheduled"}
=============================================================================
