-------------------------- MODULE ConfirmedPublish --------------------------
(***************************************************************************)
(* What publisher confirms promise the callers of queue/rabbit/publisher.go *)
(* ("a successful publish means the broker has durably accepted the         *)
(* message"), and all they promise: an answer says success only of an       *)
(* accepted message, comes once, and nothing is submitted after it. The     *)
(* answer may say failure of a message that was accepted, or still will be. *)
(***************************************************************************)
EXTENDS FiniteSets

CONSTANTS Messages

VARIABLES
    submitted,      \* messages handed to the broker
    accepted,       \* messages the broker has durably accepted
    confirmed,      \* messages whose publish was answered with success
    failed          \* ... or with an error, or left out of the confirmed IDs

vars == <<submitted, accepted, confirmed, failed>>

Init == submitted = {} /\ accepted = {} /\ confirmed = {} /\ failed = {}

Unanswered == Messages \ (confirmed \cup failed)

Submit == \E m \in Unanswered \ submitted :
    submitted' = submitted \cup {m} /\ UNCHANGED <<accepted, confirmed, failed>>

Accept == \E m \in submitted \ accepted :
    accepted' = accepted \cup {m} /\ UNCHANGED <<submitted, confirmed, failed>>

\* A call answers all of its messages at once.
Answer == \E M \in SUBSET Unanswered, C \in SUBSET accepted :
    /\ confirmed' = confirmed \cup (C \cap M)
    /\ failed' = failed \cup (M \ C)
    /\ UNCHANGED <<submitted, accepted>>

Next == Submit \/ Accept \/ Answer

Spec == Init /\ [][Next]_vars
=============================================================================
