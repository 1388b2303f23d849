----------------------------- MODULE Lifecycle ------------------------------
(***************************************************************************)
(* What the system promises about a notification's status, whatever the    *)
(* process that writes it: a row appears in an initial status and then     *)
(* only ever moves along the transitions table. One step may move several   *)
(* rows, as the scheduler's batched UPDATEs do. The detailed model of       *)
(* Delivery.tla is shown to implement this specification.                   *)
(***************************************************************************)
EXTENDS Domain

VARIABLE status

TypeOK == status \in [Notifications -> RowStates]

Init == status = [n \in Notifications |-> Absent]

\* n's row is inserted, keeps its status or makes one legal transition.
Advances(n) ==
    \/ status'[n] = status[n]
    \/ status[n] = Absent /\ status'[n] \in InitialStatuses
    \/ status[n] \in Statuses /\ CanTransition(status[n], status'[n])

Next ==
    /\ status' \in [Notifications -> RowStates]
    /\ \A n \in Notifications : Advances(n)

Spec == Init /\ [][Next]_status
=============================================================================
