------------------------ MODULE DeliverySafetyProofs ------------------------
(***************************************************************************)
(* The safety properties of Delivery, for every value of the constants.     *)
(* Everything rests on one fact about the statements of the repository,     *)
(* StepAdvances: a step moves each row along the transitions table, and     *)
(* counts an attempt only when it claims the row.                           *)
(***************************************************************************)
EXTENDS DeliveryProofs

----------------------------------------------------------------------------
(* Every step moves rows along the table *)

\* What one step may do to the rows.
MovesLegally(m) ==
    \/ status'[m] = status[m]
    \/ status[m] = Absent /\ status'[m] \in InitialStatuses
    \/ status[m] \in Statuses /\ CanTransition(status[m], status'[m])

RowsAdvance ==
    \A m \in Notifications :
        /\ MovesLegally(m)
        /\ attempts'[m] = attempts[m] \/ status'[m] = "processing"

LEMMA StatusTable ==
    /\ StatusesAllowedInto("processing") = {"pending", "queued", "retrying"}
    /\ StatusesAllowedInto("cancelled") = {"pending", "scheduled", "queued"}
    /\ StatusesAllowedInto("queued") = {"pending", "scheduled"}
    /\ StatusesAllowedInto("pending") = {} /\ StatusesAllowedInto("scheduled") = {}
    /\ StatusesAllowedInto(Absent) = {}
    /\ StatusesAllowedInto("sent") = {"processing"}
    /\ StatusesAllowedInto("retrying") = {"processing"}
    /\ StatusesAllowedInto("failed") = {"processing", "retrying"}
BY DEF StatusesAllowedInto, CanTransition, transitions, Statuses, Absent

\* The guarded statements, when their guard admits only what the table does.
LEMMA StatementsAdvance ==
    ASSUME StoreTypeOK, NEW n \in Notifications
    PROVE  /\ \A i \in InitialStatuses : InsertRow(n, i) => RowsAdvance
           /\ \A to \in Statuses : \A from \in SUBSET StatusesAllowedInto(to) :
                GuardedUpdate(n, to, from) => RowsAdvance
           /\ ClaimForProcessing(n) => RowsAdvance
           /\ TouchQueued(n) => RowsAdvance
           /\ BecomeDue(n) => RowsAdvance
           /\ BecomeStale(n) => RowsAdvance
           /\ UNCHANGED storeVars => RowsAdvance
<1> USE DEF RowsAdvance, MovesLegally
<1>1. ASSUME NEW i \in InitialStatuses, InsertRow(n, i) PROVE RowsAdvance
  BY <1>1 DEF InsertRow, StoreTypeOK
<1>2. ASSUME NEW to \in Statuses, NEW from \in SUBSET StatusesAllowedInto(to),
             GuardedUpdate(n, to, from)
      PROVE  RowsAdvance
  <2>1. status[n] \in Statuses /\ CanTransition(status[n], to)
    BY <1>2 DEF GuardedUpdate, StatusesAllowedInto
  <2> QED BY <1>2, <2>1 DEF GuardedUpdate, StoreTypeOK
<1>3. ASSUME ClaimForProcessing(n) PROVE RowsAdvance
  <2>1. status[n] \in Statuses /\ CanTransition(status[n], "processing")
    BY <1>3 DEF ClaimForProcessing, ClaimableStatuses, StatusesAllowedInto
  <2> QED BY <1>3, <2>1 DEF ClaimForProcessing, StoreTypeOK
<1>4. ASSUME TouchQueued(n) \/ BecomeDue(n) \/ BecomeStale(n) \/ UNCHANGED storeVars
      PROVE  RowsAdvance
  BY <1>4 DEF TouchQueued, BecomeDue, BecomeStale, storeVars
<1> QED BY <1>1, <1>2, <1>3, <1>4

\* The sweeps name their statuses in SQL; the table admits them all the same.
LEMMA SweepsAdvance ==
    ASSUME StoreTypeOK, NEW S \in SUBSET Notifications
    PROVE  /\ ClaimDueForQueue(S) => RowsAdvance
           /\ ListStaleQueued(S) => RowsAdvance
           /\ RecoverStaleProcessing(S) => RowsAdvance
<1>1. ASSUME NEW T \in SUBSET Notifications, NEW to \in Statuses, UpdateRows(T, to),
             \A m \in T : status[m] \in StatusesAllowedInto(to)
      PROVE  RowsAdvance
  <2>1. \A m \in T : status[m] \in Statuses /\ CanTransition(status[m], to)
    BY <1>1 DEF StatusesAllowedInto
  <2> QED BY <1>1, <2>1 DEF UpdateRows, RowsAdvance, MovesLegally
<1>2. "queued" \in Statuses /\ "retrying" \in Statuses
  BY DEF Statuses
<1>3. ASSUME ClaimDueForQueue(S) PROVE RowsAdvance
  BY <1>1, <1>2, <1>3, StatusTable DEF ClaimDueForQueue, LimitedTo, DueRows
<1>4. ASSUME RecoverStaleProcessing(S) PROVE RowsAdvance
  BY <1>1, <1>2, <1>4, StatusTable DEF RecoverStaleProcessing, LimitedTo, StaleProcessingRows
<1>5. ASSUME ListStaleQueued(S) PROVE RowsAdvance
  BY <1>5 DEF ListStaleQueued, storeVars, RowsAdvance, MovesLegally
<1> QED BY <1>3, <1>4, <1>5

LEMMA StepAdvances ==
    ASSUME TypeOK, [Next]_vars
    PROVE  RowsAdvance
<1>1. StoreTypeOK
  BY DEF TypeOK
<1>2. CASE UNCHANGED storeVars
  BY <1>2 DEF RowsAdvance, MovesLegally, storeVars
<1>3. /\ {"pending"} \in SUBSET StatusesAllowedInto("queued")
      /\ {"processing"} \in SUBSET StatusesAllowedInto("retrying")
      /\ {"processing"} \in SUBSET StatusesAllowedInto("sent")
      /\ {"processing"} \in SUBSET StatusesAllowedInto("failed")
      /\ CancellableStatuses \in SUBSET StatusesAllowedInto("cancelled")
      /\ {"queued", "retrying", "sent", "failed", "cancelled"} \subseteq Statuses
  BY StatusTable DEF CancellableStatuses, Statuses
<1>4. ASSUME ServiceNext PROVE RowsAdvance
  BY <1>1, <1>2, <1>3, <1>4, StatementsAdvance
  DEF ServiceNext, RequestStep, Create, CreateFails, PublishForDelivery, PublishForDeliveryFails,
      MarkQueued, MarkQueuedFails, AbandonRequest, Cancel, UpdateRejected
<1>5. ASSUME SchedulerNext PROVE RowsAdvance
  BY <1>1, <1>2, <1>5, StatementsAdvance, SweepsAdvance
  DEF SchedulerNext, TickStep, SchedulerCrash, QueueDue, QueueDueFails, RepublishStale,
      RepublishStaleFails, RecoverStale, RecoverStaleFails, FinishTick, RepublishRow, Touch,
      TouchFails, PublishRow, PublishRowFails
<1>6. ASSUME NEW h \in Handlers, HandlerStep(h) PROVE RowsAdvance
  <2>1. at[h] \in Busy => message[h] \in Notifications
    BY DEF TypeOK, WorkerTypeOK
  <2>2. CASE Claim(h) \/ ClaimFails(h)
    BY <1>1, <1>2, <2>1, <2>2, StatementsAdvance DEF Claim, ClaimFails, Busy
  <2>3. CASE ReleaseThrottled(h)
    BY <1>1, <1>2, <1>3, <2>1, <2>3, StatementsAdvance DEF ReleaseThrottled, Busy, HoldingClaim
  <2>4. CASE RecordOutcome(h) \/ OutcomeFails(h)
    <3>1. at[h] \in {"markSent", "markRetrying", "markFailed"}
      BY <2>4 DEF RecordOutcome, OutcomeFails, Outcome
    <3>2. message[h] \in Notifications
      BY <2>1, <3>1 DEF Busy, HoldingClaim
    <3>3. /\ Outcome[at[h]].status \in Statuses
          /\ {"processing"} \in SUBSET StatusesAllowedInto(Outcome[at[h]].status)
      BY <1>3, <3>1 DEF Outcome
    <3> QED BY <1>1, <1>2, <2>4, <3>2, <3>3, StatementsAdvance DEF RecordOutcome, OutcomeFails
  <2> QED
    BY <1>2, <1>6, <2>2, <2>3, <2>4
    DEF HandlerStep, DropUnclaimable, StartSend, SendAccepted, SendRefused, SendResponseLost,
        OutcomeRejected, PublishRetryMessage, PublishRetryFails, PublishDeadLetterMessage,
        PublishDeadLetterFails, Ack, Nack, UpdateRejected
<1>7. ASSUME WorkerNext PROVE RowsAdvance
  BY <1>2, <1>6, <1>7 DEF WorkerNext, Receive, LoseConnection, Restart, Crash
<1>8. ASSUME ClockNext PROVE RowsAdvance
  BY <1>1, <1>2, <1>8, StatementsAdvance DEF ClockNext, ClockStep, AgeRow, AgeHeldRow
<1> QED BY <1>2, <1>4, <1>5, <1>7, <1>8 DEF Next, vars

\* The system implements the lifecycle: whatever requests, sweeps, handlers and
\* faults do, a row is inserted as pending or scheduled and then only moves
\* along the domain's transitions table (domain.CanTransition).
THEOREM LifecycleImplemented == Spec => ImplementsLifecycle
<1>1. Init => Abstract!Init
  BY DEF Init, StoreInit, Abstract!Init, Abstract!Absent, Absent
<1>2. ASSUME TypeOK, TypeOK', [Next]_vars PROVE [Abstract!Next]_status
  <2>1. status' \in [Notifications -> Abstract!RowStates]
    BY <1>2
    DEF TypeOK, StoreTypeOK, RowStates, Statuses, Absent, Abstract!RowStates,
        Abstract!Statuses, Abstract!Absent
  <2>2. ASSUME NEW m \in Notifications PROVE Abstract!Advances(m)
    <3>1. MovesLegally(m)
      BY <1>2, StepAdvances DEF RowsAdvance
    <3>2. CASE status[m] = Absent /\ status'[m] \in InitialStatuses
      BY <3>2 DEF Abstract!Advances, Abstract!Absent, Absent, Abstract!InitialStatuses,
                  InitialStatuses
    <3>3. CASE status[m] \in Statuses /\ CanTransition(status[m], status'[m])
      BY <3>3 DEF Abstract!Advances, Abstract!Statuses, Statuses, Abstract!CanTransition,
                  CanTransition, Abstract!transitions, transitions
    <3> QED BY <3>1, <3>2, <3>3 DEF MovesLegally, Abstract!Advances
  <2> QED BY <2>1, <2>2 DEF Abstract!Next
<1> QED BY <1>1, <1>2, TypeCorrect, PTL DEF Spec, ImplementsLifecycle, Abstract!Spec

----------------------------------------------------------------------------
(* Cancelled notifications reach nobody *)

\* What one step may do to the claims and to the provider's history.
HandlersAdvance ==
    /\ \A h \in Handlers :
         at'[h] \in HoldingClaim =>
            \/ at[h] \in HoldingClaim /\ message'[h] = message[h]
            \/ Claim(h)
    /\ \A n \in Notifications :
         \/ deliveries'[n] = deliveries[n]
         \/ \E h \in Handlers : at[h] = "send" /\ message[h] = n

LEMMA StepHandlersAdvance ==
    ASSUME TypeOK, [Next]_vars
    PROVE  HandlersAdvance
<1>1. WorkerTypeOK
  BY DEF TypeOK
<1>2. CASE UNCHANGED workerVars
  BY <1>2 DEF HandlersAdvance, workerVars, handlerVars
<1>3. ASSUME NEW h \in Handlers, HandlerStep(h) PROVE HandlersAdvance
  <2>1. CASE Claim(h)
    BY <1>1, <2>1 DEF Claim, HandlersAdvance, WorkerTypeOK
  <2>2. CASE SendAccepted(h) \/ SendResponseLost(h)
    BY <1>1, <2>2
    DEF SendAccepted, SendResponseLost, AfterFailure, HandlersAdvance, WorkerTypeOK, HoldingClaim
  <2>3. CASE Ack(h) \/ Nack(h)
    BY <1>1, <2>3 DEF Ack, Nack, Settle, HandlersAdvance, WorkerTypeOK, HoldingClaim
  <2>4. ASSUME NEW step, Goto(h, step), step \in HoldingClaim => at[h] \in HoldingClaim
        PROVE  HandlersAdvance
    BY <1>1, <2>4 DEF Goto, HandlersAdvance, WorkerTypeOK
  <2>5. CASE RecordOutcome(h)
    <3>1. Outcome[at[h]].next \notin HoldingClaim
      BY <2>5 DEF RecordOutcome, Outcome, HoldingClaim
    <3> QED BY <2>4, <2>5, <3>1 DEF RecordOutcome
  <2> QED
    BY <1>3, <2>1, <2>2, <2>3, <2>4, <2>5
    DEF HandlerStep, DropUnclaimable, ClaimFails, StartSend, ReleaseThrottled, SendRefused,
        AfterFailure, OutcomeRejected, OutcomeFails, PublishRetryMessage, PublishRetryFails,
        PublishDeadLetterMessage, PublishDeadLetterFails, HoldingClaim
<1>4. ASSUME NEW h \in Handlers, NEW n \in Notifications, Receive(h, n) PROVE HandlersAdvance
  BY <1>1, <1>4 DEF Receive, HandlersAdvance, WorkerTypeOK, HoldingClaim
<1>5. ASSUME NEW p \in Processes, LoseConnection(p) \/ Restart(p) \/ Crash(p)
      PROVE  HandlersAdvance
  BY <1>1, <1>5
  DEF LoseConnection, Restart, Crash, handlerVars, HandlersAdvance, WorkerTypeOK, HoldingClaim
<1> QED BY <1>2, <1>3, <1>4, <1>5 DEF Next, WorkerNext, vars

\* The statuses of a notification nobody has claimed.
Unclaimed == {Absent, "pending", "scheduled", "queued", "cancelled"}

\* An unclaimed row has no attempt, no delivery and no holder. It is what makes
\* a cancel safe: the statuses Cancel accepts are all unclaimed.
UnclaimedIsUntouched ==
    /\ \A n \in Notifications :
         status[n] \in Unclaimed => attempts[n] = 0 /\ deliveries[n] = 0
    /\ \A h \in Handlers :
         at[h] \in HoldingClaim => status[message[h]] \notin Unclaimed

\* No transition of the table leads back to an unclaimed status.
LEMMA UnclaimedIsInitial ==
    ASSUME NEW n \in Notifications, MovesLegally(n), status'[n] \in Unclaimed
    PROVE  status[n] \in Unclaimed
<1>1. CASE status[n] \in Statuses /\ CanTransition(status[n], status'[n])
  <2>1. status[n] \in StatusesAllowedInto(status'[n])
    BY <1>1 DEF StatusesAllowedInto
  <2> QED BY <2>1, StatusTable DEF Unclaimed
<1> QED BY <1>1 DEF MovesLegally, Unclaimed

LEMMA UnclaimedIsUntouchedStep ==
    ASSUME TypeOK, UnclaimedIsUntouched, [Next]_vars
    PROVE  UnclaimedIsUntouched'
<1>1. RowsAdvance /\ HandlersAdvance
  BY StepAdvances, StepHandlersAdvance
<1>2. ASSUME NEW n \in Notifications, status'[n] \in Unclaimed
      PROVE  attempts'[n] = 0 /\ deliveries'[n] = 0
  <2>1. status[n] \in Unclaimed
    BY <1>1, <1>2, UnclaimedIsInitial DEF RowsAdvance
  <2>2. attempts'[n] = attempts[n]
    BY <1>1, <1>2 DEF RowsAdvance, Unclaimed, Absent
  <2>3. deliveries'[n] = deliveries[n]
    BY <1>1, <2>1 DEF HandlersAdvance, UnclaimedIsUntouched, HoldingClaim
  <2> QED BY <2>1, <2>2, <2>3 DEF UnclaimedIsUntouched
<1>3. ASSUME NEW h \in Handlers, at'[h] \in HoldingClaim
      PROVE  status'[message'[h]] \notin Unclaimed
  <2>1. CASE at[h] \in HoldingClaim /\ message'[h] = message[h]
    <3>1. status[message[h]] \notin Unclaimed
      BY <2>1 DEF UnclaimedIsUntouched
    <3>2. message[h] \in Notifications
      BY <2>1 DEF TypeOK, WorkerTypeOK, Busy
    <3> QED BY <1>1, <2>1, <3>1, <3>2, UnclaimedIsInitial DEF RowsAdvance
  <2>2. CASE Claim(h)
    <3>1. message[h] \in Notifications
      BY <2>2 DEF Claim, TypeOK, WorkerTypeOK, Busy
    <3>2. status'[message'[h]] = "processing"
      BY <2>2, <3>1 DEF Claim, ClaimForProcessing, TypeOK, StoreTypeOK
    <3> QED BY <3>2 DEF Unclaimed, Absent
  <2> QED BY <1>1, <1>3, <2>1, <2>2 DEF HandlersAdvance
<1> QED BY <1>2, <1>3 DEF UnclaimedIsUntouched

LEMMA InitUntouched == Init => UnclaimedIsUntouched
BY DEF Init, StoreInit, WorkerInit, UnclaimedIsUntouched, HoldingClaim

\* A cancelled notification was never sent and is held by no handler, whatever
\* messages, sweeps and handlers were under way when Cancel's UPDATE committed.
THEOREM CancelIsSafe == Spec => []CancelledNeverDelivered
<1>1. TypeOK /\ UnclaimedIsUntouched => CancelledNeverDelivered
  BY DEF UnclaimedIsUntouched, CancelledNeverDelivered, Unclaimed, Holders, TypeOK, WorkerTypeOK
<1> QED
  BY <1>1, TypeCorrect, InitUntouched, UnclaimedIsUntouchedStep, PTL DEF Spec

----------------------------------------------------------------------------
(* What is recorded has happened *)

\* Only an outcome write makes a row sent or failed.
LEMMA OutcomesAreWritten ==
    ASSUME TypeOK, [Next]_vars, NEW n \in Notifications, status'[n] \in {"sent", "failed"}
    PROVE  \/ status'[n] = status[n]
           \/ \E h \in Handlers :
                /\ RecordOutcome(h) \/ OutcomeFails(h)
                /\ message[h] = n /\ Outcome[at[h]].status = status'[n]
<1>1. StoreTypeOK /\ WorkerTypeOK
  BY DEF TypeOK
<1>2. ASSUME UNCHANGED storeVars PROVE status'[n] = status[n]
  BY <1>2 DEF storeVars
<1>3. ASSUME NEW m \in Notifications, NEW to, to \notin {"sent", "failed"},
             NEW from, GuardedUpdate(m, to, from)
      PROVE  status'[n] = status[n]
  BY <1>1, <1>3 DEF GuardedUpdate, StoreTypeOK
<1>4. ASSUME NEW m \in Notifications,
             \/ \E i \in InitialStatuses : InsertRow(m, i)
             \/ ClaimForProcessing(m)
             \/ TouchQueued(m) \/ BecomeDue(m) \/ BecomeStale(m)
      PROVE  status'[n] = status[n]
  BY <1>1, <1>4
  DEF InsertRow, InitialStatuses, ClaimForProcessing, TouchQueued, BecomeDue, BecomeStale,
      StoreTypeOK
<1>5. ASSUME NEW S, ClaimDueForQueue(S) \/ ListStaleQueued(S) \/ RecoverStaleProcessing(S)
      PROVE  status'[n] = status[n]
  BY <1>1, <1>5
  DEF ClaimDueForQueue, ListStaleQueued, RecoverStaleProcessing, UpdateRows, storeVars
<1>6. CASE ServiceNext
  BY <1>2, <1>3, <1>4, <1>6
  DEF ServiceNext, RequestStep, Create, CreateFails, PublishForDelivery, PublishForDeliveryFails,
      MarkQueued, MarkQueuedFails, AbandonRequest, Cancel, UpdateRejected
<1>7. CASE SchedulerNext
  BY <1>2, <1>4, <1>5, <1>7
  DEF SchedulerNext, TickStep, SchedulerCrash, QueueDue, QueueDueFails, RepublishStale,
      RepublishStaleFails, RecoverStale, RecoverStaleFails, FinishTick, RepublishRow, Touch,
      TouchFails, PublishRow, PublishRowFails
<1>8. CASE ClockNext
  BY <1>2, <1>4, <1>8 DEF ClockNext, ClockStep, AgeRow, AgeHeldRow
<1>9. ASSUME NEW h \in Handlers, HandlerStep(h)
      PROVE  \/ status'[n] = status[n]
             \/ /\ RecordOutcome(h) \/ OutcomeFails(h)
                /\ message[h] = n /\ Outcome[at[h]].status = status'[n]
  <2>1. at[h] \in Busy => message[h] \in Notifications
    BY <1>1 DEF WorkerTypeOK
  <2>2. CASE Claim(h) \/ ClaimFails(h)
    BY <1>2, <1>4, <2>1, <2>2 DEF Claim, ClaimFails, Busy
  <2>3. CASE ReleaseThrottled(h)
    <3>1. message[h] \in Notifications
      BY <2>1, <2>3 DEF ReleaseThrottled, Busy, HoldingClaim
    <3>2. "retrying" \notin {"sent", "failed"}
      OBVIOUS
    <3> QED BY <1>2, <1>3, <2>3, <3>1, <3>2 DEF ReleaseThrottled
  <2>4. CASE RecordOutcome(h) \/ OutcomeFails(h)
    <3>1. CASE UNCHANGED storeVars
      BY <1>2, <3>1
    <3>2. CASE GuardedUpdate(message[h], Outcome[at[h]].status, {"processing"})
      <4>1. CASE message[h] = n
        <5>1. status'[n] = Outcome[at[h]].status
          BY <1>1, <3>2, <4>1 DEF GuardedUpdate, StoreTypeOK
        <5> QED BY <2>4, <4>1, <5>1
      <4>2. CASE message[h] # n
        BY <1>1, <3>2, <4>2 DEF GuardedUpdate, StoreTypeOK
      <4> QED BY <4>1, <4>2
    <3> QED BY <2>4, <3>1, <3>2 DEF RecordOutcome, OutcomeFails
  <2>5. CASE UNCHANGED storeVars
    BY <1>2, <2>5
  <2> QED
    BY <1>9, <2>2, <2>3, <2>4, <2>5
    DEF HandlerStep, DropUnclaimable, StartSend, SendAccepted, SendRefused, SendResponseLost,
        OutcomeRejected, PublishRetryMessage, PublishRetryFails, PublishDeadLetterMessage,
        PublishDeadLetterFails, Ack, Nack, UpdateRejected
<1>10. CASE WorkerNext
  BY <1>2, <1>9, <1>10 DEF WorkerNext, Receive, LoseConnection, Restart, Crash
<1> QED BY <1>2, <1>6, <1>7, <1>8, <1>10 DEF Next, vars

\* What one step may do to one handler: nothing, its own step, receiving a
\* message, or the death of its process.
HandlerMoves(h) ==
    \/ at'[h] = at[h] /\ message'[h] = message[h] /\ claimedAttempts'[h] = claimedAttempts[h]
    \/ HandlerStep(h)
    \/ \E n \in Notifications : Receive(h, n)
    \/ Crash(ProcessOf[h]) /\ at'[h] = "idle"

LEMMA OthersStay ==
    ASSUME WorkerTypeOK, NEW g \in Handlers, HandlerStep(g), NEW h \in Handlers, h # g
    PROVE  at'[h] = at[h] /\ message'[h] = message[h] /\ claimedAttempts'[h] = claimedAttempts[h]
<1>1. at'[h] = at[h]
  BY DEF HandlerStep, Claim, DropUnclaimable, ClaimFails, StartSend, ReleaseThrottled,
         SendAccepted, SendRefused, SendResponseLost, RecordOutcome, OutcomeRejected,
         OutcomeFails, PublishRetryMessage, PublishRetryFails, PublishDeadLetterMessage,
         PublishDeadLetterFails, Ack, Nack, Goto, Settle, WorkerTypeOK
<1>2. message'[h] = message[h] /\ claimedAttempts'[h] = claimedAttempts[h]
  BY DEF HandlerStep, Claim, DropUnclaimable, ClaimFails, StartSend, ReleaseThrottled,
         SendAccepted, SendRefused, SendResponseLost, RecordOutcome, OutcomeRejected,
         OutcomeFails, PublishRetryMessage, PublishRetryFails, PublishDeadLetterMessage,
         PublishDeadLetterFails, Ack, Nack, Goto, Settle, WorkerTypeOK
<1> QED BY <1>1, <1>2

LEMMA StepHandlerMoves ==
    ASSUME TypeOK, [Next]_vars, NEW h \in Handlers
    PROVE  HandlerMoves(h)
<1>1. WorkerTypeOK
  BY DEF TypeOK
<1>2. CASE UNCHANGED handlerVars
  BY <1>2 DEF HandlerMoves, handlerVars
<1>3. ASSUME NEW g \in Handlers, HandlerStep(g) PROVE HandlerMoves(h)
  BY <1>1, <1>3, OthersStay DEF HandlerMoves
<1>4. ASSUME NEW g \in Handlers, NEW n \in Notifications, Receive(g, n) PROVE HandlerMoves(h)
  BY <1>1, <1>4 DEF Receive, HandlerMoves, WorkerTypeOK
<1>5. ASSUME NEW p \in Processes, Crash(p) PROVE HandlerMoves(h)
  BY <1>1, <1>5 DEF Crash, HandlerMoves, WorkerTypeOK
<1> QED
  BY <1>2, <1>3, <1>4, <1>5 DEF Next, WorkerNext, LoseConnection, Restart, vars, workerVars

\* A handler reaches the outcome write of a success, or the publish of a dead
\* letter, only by the step before it.
LEMMA LateSteps ==
    ASSUME TypeOK, [Next]_vars, NEW h \in Handlers,
           at'[h] \in {"markSent", "deadLetter"}
    PROVE  \/ at[h] = at'[h] /\ message'[h] = message[h]
           \/ at'[h] = "markSent" /\ SendAccepted(h)
           \/ at'[h] = "deadLetter" /\ RecordOutcome(h) /\ at[h] = "markFailed"
<1>1. WorkerTypeOK /\ HandlerMoves(h)
  BY StepHandlerMoves DEF TypeOK
<1>2. ASSUME NEW n \in Notifications, Receive(h, n) PROVE FALSE
  BY <1>1, <1>2 DEF Receive, WorkerTypeOK
<1>3. CASE HandlerStep(h)
  <2>1. CASE RecordOutcome(h)
    BY <1>1, <2>1 DEF RecordOutcome, Outcome, Goto, WorkerTypeOK
  <2>2. CASE SendRefused(h) \/ SendResponseLost(h)
    BY <1>1, <2>2 DEF SendRefused, SendResponseLost, AfterFailure, Goto, WorkerTypeOK
  <2> QED
    BY <1>1, <1>3, <2>1, <2>2
    DEF HandlerStep, Claim, DropUnclaimable, ClaimFails, StartSend, ReleaseThrottled,
        SendAccepted, OutcomeRejected, OutcomeFails, PublishRetryMessage, PublishRetryFails,
        PublishDeadLetterMessage, PublishDeadLetterFails, Ack, Nack, Goto, Settle, WorkerTypeOK
<1> QED BY <1>1, <1>2, <1>3 DEF HandlerMoves

LEMMA DeliveriesGrow ==
    ASSUME TypeOK, [Next]_vars, NEW n \in Notifications
    PROVE  deliveries'[n] \in Nat /\ deliveries'[n] >= deliveries[n]
<1>1. WorkerTypeOK
  BY DEF TypeOK
<1>2. CASE UNCHANGED deliveries
  BY <1>1, <1>2 DEF WorkerTypeOK
<1>3. ASSUME NEW h \in Handlers, SendAccepted(h) \/ SendResponseLost(h)
      PROVE  deliveries'[n] \in Nat /\ deliveries'[n] >= deliveries[n]
  <2>1. deliveries' = [deliveries EXCEPT ![message[h]] = @ + 1]
    BY <1>3 DEF SendAccepted, SendResponseLost
  <2>2. deliveries \in [Notifications -> Nat]
    BY <1>1 DEF WorkerTypeOK
  <2> QED BY <2>1, <2>2
<1> QED
  BY <1>2, <1>3
  DEF Next, WorkerNext, HandlerStep, Receive, Claim, DropUnclaimable, ClaimFails, StartSend,
      ReleaseThrottled, SendRefused, RecordOutcome, OutcomeRejected, OutcomeFails,
      PublishRetryMessage, PublishRetryFails, PublishDeadLetterMessage, PublishDeadLetterFails,
      Ack, Nack, Goto, Settle, LoseConnection, Restart, Crash, vars, workerVars

\* A row reads sent, and a handler is about to write so, only of a notification
\* the provider has accepted.
SentIsBacked ==
    /\ SentWasDelivered
    /\ \A h \in Handlers : at[h] = "markSent" => deliveries[message[h]] > 0

LEMMA SentIsBackedStep ==
    ASSUME TypeOK, SentIsBacked, [Next]_vars
    PROVE  SentIsBacked'
<1>1. WorkerTypeOK /\ StoreTypeOK
  BY DEF TypeOK
<1>2. \A n \in Notifications : deliveries[n] > 0 => deliveries'[n] > 0
  BY <1>1, DeliveriesGrow DEF WorkerTypeOK
<1>3. ASSUME NEW n \in Notifications, status'[n] = "sent" PROVE deliveries'[n] > 0
  <2>1. CASE status[n] = "sent"
    BY <1>2, <2>1 DEF SentIsBacked, SentWasDelivered
  <2>2. CASE status[n] # "sent"
    <3>1. PICK h \in Handlers : message[h] = n /\ Outcome[at[h]].status = "sent"
                               /\ (RecordOutcome(h) \/ OutcomeFails(h))
      BY <1>3, <2>2, OutcomesAreWritten
    <3>2. at[h] = "markSent"
      BY <3>1 DEF RecordOutcome, OutcomeFails, Outcome
    <3> QED BY <1>2, <3>1, <3>2 DEF SentIsBacked
  <2> QED BY <2>1, <2>2
<1>4. ASSUME NEW h \in Handlers, at'[h] = "markSent" PROVE deliveries'[message'[h]] > 0
  <2>1. CASE at[h] = "markSent" /\ message'[h] = message[h]
    BY <1>1, <1>2, <2>1 DEF SentIsBacked, WorkerTypeOK, Busy, HoldingClaim
  <2>2. CASE SendAccepted(h)
    BY <1>1, <2>2 DEF SendAccepted, WorkerTypeOK, Busy, HoldingClaim
  <2> QED BY <1>4, <2>1, <2>2, LateSteps
<1> QED BY <1>3, <1>4 DEF SentIsBacked, SentWasDelivered

LEMMA InitSentIsBacked == Init => SentIsBacked
BY DEF Init, StoreInit, WorkerInit, SentIsBacked, SentWasDelivered, Absent

\* Delivery is at least once: whichever handler wrote sent into the row, and
\* whatever failed around it, the provider had accepted the notification.
THEOREM SentIsTrue == Spec => []SentWasDelivered
<1>1. SentIsBacked => SentWasDelivered
  BY DEF SentIsBacked
<1> QED BY <1>1, TypeCorrect, InitSentIsBacked, SentIsBackedStep, PTL DEF Spec

----------------------------------------------------------------------------
(* The dead-letter queue agrees with the table *)

\* What one step may do to the dead-letter queue.
LEMMA DeadLettersArePublished ==
    ASSUME TypeOK, [Next]_vars, NEW n \in Notifications
    PROVE  \/ deadLetter'[n] = deadLetter[n]
           \/ \E h \in Handlers :
                /\ at[h] = "deadLetter" /\ message[h] = n /\ at'[h] = "ack"
                /\ deadLetter'[n] = deadLetter[n] + 1
<1>1. WorkerTypeOK /\ BrokerTypeOK
  BY DEF TypeOK
<1>2. ASSUME UNCHANGED deadLetter PROVE deadLetter'[n] = deadLetter[n]
  BY <1>2
<1>3. CASE ServiceNext
  BY <1>2, <1>3
  DEF ServiceNext, RequestStep, Create, CreateFails, PublishForDelivery, PublishForDeliveryFails,
      MarkQueued, MarkQueuedFails, AbandonRequest, Cancel, PublishCreated, PublishLost, brokerVars
<1>4. CASE SchedulerNext
  BY <1>2, <1>4
  DEF SchedulerNext, TickStep, SchedulerCrash, QueueDue, QueueDueFails, RepublishStale,
      RepublishStaleFails, RecoverStale, RecoverStaleFails, FinishTick, RepublishRow, Touch,
      TouchFails, PublishRow, PublishRowFails, PublishCreated, PublishLost, brokerVars
<1>5. CASE ClockNext
  BY <1>2, <1>5 DEF ClockNext, ClockStep, AgeRow, AgeHeldRow, ExpireRetryTier, brokerVars
<1>6. ASSUME NEW h \in Handlers, HandlerStep(h)
      PROVE  \/ deadLetter'[n] = deadLetter[n]
             \/ /\ at[h] = "deadLetter" /\ message[h] = n /\ at'[h] = "ack"
                /\ deadLetter'[n] = deadLetter[n] + 1
  <2>1. CASE PublishDeadLetterMessage(h) \/ PublishDeadLetterFails(h)
    <3>1. at[h] = "deadLetter" /\ at'[h] = "ack"
      BY <1>1, <2>1 DEF PublishDeadLetterMessage, PublishDeadLetterFails, Goto, WorkerTypeOK
    <3>2. PublishDeadLetter(message[h]) \/ UNCHANGED brokerVars
      BY <2>1 DEF PublishDeadLetterMessage, PublishDeadLetterFails, PublishLost
    <3> QED BY <1>1, <3>1, <3>2 DEF PublishDeadLetter, BrokerTypeOK, brokerVars
  <2> QED
    BY <1>2, <1>6, <2>1
    DEF HandlerStep, Claim, DropUnclaimable, ClaimFails, StartSend, ReleaseThrottled,
        SendAccepted, SendRefused, SendResponseLost, RecordOutcome, OutcomeRejected,
        OutcomeFails, PublishRetryMessage, PublishRetryFails, Ack, Nack, PublishRetry,
        PublishLost, Requeue, brokerVars
<1>7. CASE WorkerNext
  BY <1>2, <1>6, <1>7
  DEF WorkerNext, Receive, Deliver, LoseConnection, Restart, Crash, RequeueAll, brokerVars
<1> QED BY <1>2, <1>3, <1>4, <1>5, <1>7 DEF Next, vars, brokerVars

\* The handler about to publish a dead letter is the one that wrote the row
\* failed; the queue has no other for it and no other handler is on its way.
DeadLettersAreBacked ==
    /\ DeadLetteredOnceFailed
    /\ \A h \in Handlers :
         at[h] = "deadLetter" =>
            /\ status[message[h]] = "failed"
            /\ deadLetter[message[h]] = 0
            /\ \A g \in Handlers : at[g] = "deadLetter" /\ message[g] = message[h] => g = h

LEMMA FailedIsFinal ==
    ASSUME TypeOK, [Next]_vars, NEW n \in Notifications, status[n] = "failed"
    PROVE  status'[n] = "failed"
<1>1. MovesLegally(n)
  BY StepAdvances DEF RowsAdvance
<1> QED BY <1>1 DEF MovesLegally, CanTransition, transitions, Absent

LEMMA DeadLettersAreBackedStep ==
    ASSUME TypeOK, DeadLettersAreBacked, [Next]_vars
    PROVE  DeadLettersAreBacked'
<1>1. WorkerTypeOK /\ StoreTypeOK /\ BrokerTypeOK
  BY DEF TypeOK
<1>2. \A h \in Handlers : at[h] \in Busy => message[h] \in Notifications
  BY <1>1 DEF WorkerTypeOK
<1>3. ASSUME NEW n \in Notifications
      PROVE  deadLetter'[n] <= (IF status'[n] = "failed" THEN 1 ELSE 0)
  <2>1. deadLetter[n] \in Nat /\ deadLetter[n] <= (IF status[n] = "failed" THEN 1 ELSE 0)
    BY <1>1 DEF BrokerTypeOK, DeadLettersAreBacked, DeadLetteredOnceFailed
  <2>2. status[n] = "failed" => status'[n] = "failed"
    BY FailedIsFinal
  <2>3. CASE deadLetter'[n] = deadLetter[n]
    BY <2>1, <2>2, <2>3
  <2>4. ASSUME NEW h \in Handlers, at[h] = "deadLetter", message[h] = n,
               deadLetter'[n] = deadLetter[n] + 1
        PROVE  deadLetter'[n] <= (IF status'[n] = "failed" THEN 1 ELSE 0)
    BY <2>2, <2>4 DEF DeadLettersAreBacked
  <2> QED BY <2>3, <2>4, DeadLettersArePublished
\* Who arrives at the publish wrote the row, which nobody had before.
<1>4. ASSUME NEW h \in Handlers, at'[h] = "deadLetter", at[h] # "deadLetter"
      PROVE  /\ message'[h] = message[h] /\ message[h] \in Notifications
             /\ status[message[h]] = "processing" /\ status'[message[h]] = "failed"
             /\ UNCHANGED deadLetter
             /\ \A g \in Handlers : g # h => at'[g] = at[g] /\ message'[g] = message[g]
  <2>1. RecordOutcome(h) /\ at[h] = "markFailed"
    BY <1>4, LateSteps
  <2>2. message[h] \in Notifications
    BY <1>2, <2>1 DEF Busy, HoldingClaim
  <2>3. GuardedUpdate(message[h], "failed", {"processing"})
    BY <2>1 DEF RecordOutcome, Outcome
  <2>4. Goto(h, "deadLetter") /\ UNCHANGED deadLetter
    BY <2>1 DEF RecordOutcome, Outcome, brokerVars
  <2> QED BY <1>1, <2>2, <2>3, <2>4 DEF GuardedUpdate, Goto, StoreTypeOK, WorkerTypeOK
\* Who was there stays the only one, and nobody else publishes for the row.
<1>5. ASSUME NEW h \in Handlers, at'[h] = "deadLetter", at[h] = "deadLetter"
      PROVE  /\ message'[h] = message[h] /\ message[h] \in Notifications
             /\ status'[message[h]] = "failed"
             /\ deadLetter'[message[h]] = 0
  <2>1. message'[h] = message[h] /\ message[h] \in Notifications
    BY <1>2, <1>5, LateSteps DEF RecordOutcome, Busy
  <2>2. status'[message[h]] = "failed"
    BY <1>5, <2>1, FailedIsFinal DEF DeadLettersAreBacked
  <2>3. ASSUME NEW g \in Handlers, at[g] = "deadLetter", message[g] = message[h], at'[g] = "ack"
        PROVE  FALSE
    BY <1>5, <2>3 DEF DeadLettersAreBacked
  <2> QED BY <1>5, <2>1, <2>2, <2>3, DeadLettersArePublished DEF DeadLettersAreBacked
<1>6. ASSUME NEW h \in Handlers, at'[h] = "deadLetter"
      PROVE  /\ status'[message'[h]] = "failed"
             /\ deadLetter'[message'[h]] = 0
             /\ \A g \in Handlers : at'[g] = "deadLetter" /\ message'[g] = message'[h] => g = h
  <2>1. CASE at[h] # "deadLetter"
    <3>1. deadLetter[message[h]] = 0
      BY <1>1, <1>4, <1>6, <2>1
      DEF DeadLettersAreBacked, DeadLetteredOnceFailed, BrokerTypeOK
    <3> QED BY <1>4, <1>6, <2>1, <3>1 DEF DeadLettersAreBacked
  <2>2. CASE at[h] = "deadLetter"
    <3>1. ASSUME NEW g \in Handlers, at'[g] = "deadLetter", message'[g] = message'[h]
          PROVE  g = h
      BY <1>4, <1>5, <1>6, <2>2, <3>1 DEF DeadLettersAreBacked
    <3> QED BY <1>5, <1>6, <2>2, <3>1
  <2> QED BY <2>1, <2>2
<1> QED BY <1>3, <1>6 DEF DeadLettersAreBacked, DeadLetteredOnceFailed

LEMMA InitDeadLettersAreBacked == Init => DeadLettersAreBacked
BY DEF Init, StoreInit, BrokerInit, WorkerInit, DeadLettersAreBacked, DeadLetteredOnceFailed,
       Absent

\* What is on the dead-letter queue reads failed in the table and is there once,
\* though the publish follows the write and handlers redo each other's work.
THEOREM DeadLettersAgree == Spec => []DeadLetteredOnceFailed
<1>1. DeadLettersAreBacked => DeadLetteredOnceFailed
  BY DEF DeadLettersAreBacked
<1> QED BY <1>1, TypeCorrect, InitDeadLettersAreBacked, DeadLettersAreBackedStep, PTL DEF Spec

----------------------------------------------------------------------------
(* Scheduled notifications wait for their time *)

\* The statuses of a row whose scheduled_at is still to come.
Undue == {Absent, "scheduled", "cancelled"}

RowsBeforeDue ==
    \A n \in Notifications :
        /\ status[n] = Absent => ~due[n]
        /\ ~due[n] => status[n] \in Undue

\* Nobody has, or is about to make, a message for a row that is not due: no
\* create request, no queue, no handler and no sweep.
QuietBeforeDue ==
    /\ \A n \in Notifications :
         ~due[n] => request[n] \in {"none", "done"} /\ work[n] = 0 /\ retryTier[n] = 0
    /\ \A h \in Handlers : at[h] \in Busy => due[message[h]]
    /\ \A s \in Schedulers : \A n \in todo[s] \cup toTouch[s] : due[n]

DueAdvances ==
    /\ RowsBeforeDue'
    /\ \A m \in Notifications : due[m] => due'[m]

\* Of the statements only a cancel touches a scheduled row before its time.
LEMMA StatementsKeepDue ==
    ASSUME StoreTypeOK, RowsBeforeDue, NEW n \in Notifications
    PROVE  /\ \A i \in InitialStatuses : InsertRow(n, i) => DueAdvances
           /\ GuardedUpdate(n, "cancelled", CancellableStatuses) => DueAdvances
           /\ \A to \in Statuses : \A from :
                GuardedUpdate(n, to, from) /\ from \cap Undue = {} => DueAdvances
           /\ ClaimForProcessing(n) => DueAdvances
           /\ TouchQueued(n) => DueAdvances
           /\ BecomeDue(n) => DueAdvances
           /\ BecomeStale(n) => DueAdvances
           /\ UNCHANGED storeVars => DueAdvances
<1> USE DEF DueAdvances, RowsBeforeDue, StoreTypeOK
<1>1. ASSUME NEW i \in InitialStatuses, InsertRow(n, i) PROVE DueAdvances
  BY <1>1 DEF InsertRow, InitialStatuses, Undue, Absent
<1>2. ASSUME GuardedUpdate(n, "cancelled", CancellableStatuses) PROVE DueAdvances
  BY <1>2, StatusTable DEF GuardedUpdate, CancellableStatuses, Undue, Absent
<1>3. ASSUME NEW to \in Statuses, NEW from, GuardedUpdate(n, to, from), from \cap Undue = {}
      PROVE  DueAdvances
  <2>1. to # Absent
    BY DEF Statuses, Absent
  <2>2. status[n] \notin Undue /\ due[n]
    BY <1>3 DEF GuardedUpdate
  <2> QED BY <1>3, <2>1, <2>2 DEF GuardedUpdate
<1>4. ASSUME ClaimForProcessing(n) PROVE DueAdvances
  <2>1. status[n] \notin Undue /\ due[n]
    BY <1>4, StatusTable DEF ClaimForProcessing, ClaimableStatuses, Undue, Absent
  <2> QED BY <1>4, <2>1 DEF ClaimForProcessing, Absent
<1>5. ASSUME TouchQueued(n) \/ BecomeDue(n) \/ BecomeStale(n) \/ UNCHANGED storeVars
      PROVE  DueAdvances
  BY <1>5 DEF TouchQueued, BecomeDue, BecomeStale, storeVars
<1> QED BY <1>1, <1>2, <1>3, <1>4, <1>5

LEMMA SweepsKeepDue ==
    ASSUME StoreTypeOK, RowsBeforeDue, NEW S \in SUBSET Notifications,
           ClaimDueForQueue(S) \/ ListStaleQueued(S) \/ RecoverStaleProcessing(S)
    PROVE  DueAdvances /\ \A n \in S : due'[n]
<1> USE DEF DueAdvances, RowsBeforeDue, StoreTypeOK
<1>1. \A n \in S : due[n]
  BY DEF ClaimDueForQueue, ListStaleQueued, RecoverStaleProcessing, LimitedTo, DueRows,
         StaleQueuedRows, StaleProcessingRows, Undue, Absent
<1>2. CASE ListStaleQueued(S)
  BY <1>1, <1>2 DEF ListStaleQueued, storeVars
<1>3. CASE ClaimDueForQueue(S) \/ RecoverStaleProcessing(S)
  BY <1>1, <1>3 DEF ClaimDueForQueue, RecoverStaleProcessing, UpdateRows, Absent
<1> QED BY <1>2, <1>3

LEMMA StepKeepsDue ==
    ASSUME TypeOK, RowsBeforeDue, [Next]_vars
    PROVE  DueAdvances
<1>1. StoreTypeOK /\ WorkerTypeOK
  BY DEF TypeOK
<1>2. CASE UNCHANGED storeVars
  BY <1>1, <1>2, StatementsKeepDue DEF RowsBeforeDue, DueAdvances, storeVars
<1>3. /\ {"pending"} \cap Undue = {} /\ {"processing"} \cap Undue = {}
      /\ {"queued", "retrying", "sent", "failed"} \subseteq Statuses
  BY DEF Undue, Absent, Statuses
<1>4. CASE ServiceNext
  BY <1>1, <1>2, <1>3, <1>4, StatementsKeepDue
  DEF ServiceNext, RequestStep, Create, CreateFails, PublishForDelivery, PublishForDeliveryFails,
      MarkQueued, MarkQueuedFails, AbandonRequest, Cancel, UpdateRejected
<1>5. CASE SchedulerNext
  BY <1>1, <1>2, <1>5, StatementsKeepDue, SweepsKeepDue
  DEF SchedulerNext, TickStep, SchedulerCrash, QueueDue, QueueDueFails, RepublishStale,
      RepublishStaleFails, RecoverStale, RecoverStaleFails, FinishTick, RepublishRow, Touch,
      TouchFails, PublishRow, PublishRowFails
<1>6. ASSUME NEW h \in Handlers, HandlerStep(h) PROVE DueAdvances
  <2>1. at[h] \in Busy => message[h] \in Notifications
    BY <1>1 DEF WorkerTypeOK
  <2>2. CASE Claim(h) \/ ClaimFails(h)
    BY <1>1, <1>2, <2>1, <2>2, StatementsKeepDue DEF Claim, ClaimFails, Busy
  <2>3. CASE ReleaseThrottled(h)
    BY <1>1, <1>2, <1>3, <2>1, <2>3, StatementsKeepDue DEF ReleaseThrottled, Busy, HoldingClaim
  <2>4. CASE RecordOutcome(h) \/ OutcomeFails(h)
    <3>1. at[h] \in {"markSent", "markRetrying", "markFailed"}
      BY <2>4 DEF RecordOutcome, OutcomeFails, Outcome
    <3>2. message[h] \in Notifications
      BY <2>1, <3>1 DEF Busy, HoldingClaim
    <3>3. Outcome[at[h]].status \in Statuses
      BY <1>3, <3>1 DEF Outcome
    <3> QED BY <1>1, <1>2, <1>3, <2>4, <3>2, <3>3, StatementsKeepDue DEF RecordOutcome, OutcomeFails
  <2> QED
    BY <1>2, <1>6, <2>2, <2>3, <2>4
    DEF HandlerStep, DropUnclaimable, StartSend, SendAccepted, SendRefused, SendResponseLost,
        OutcomeRejected, PublishRetryMessage, PublishRetryFails, PublishDeadLetterMessage,
        PublishDeadLetterFails, Ack, Nack, UpdateRejected
<1>7. CASE WorkerNext
  BY <1>2, <1>6, <1>7 DEF WorkerNext, Receive, LoseConnection, Restart, Crash
<1>8. CASE ClockNext
  BY <1>1, <1>2, <1>8, StatementsKeepDue DEF ClockNext, ClockStep, AgeRow, AgeHeldRow
<1> QED BY <1>2, <1>4, <1>5, <1>7, <1>8 DEF Next, vars

\* What the quiet of one undue row means for the queues of the next state.
QueuesQuiet(n) == work'[n] = 0 /\ retryTier'[n] = 0

LEMMA BrokerKeepsQuiet ==
    ASSUME BrokerTypeOK, NEW n \in Notifications, work[n] = 0, retryTier[n] = 0
    PROVE  /\ \A m \in Notifications :
                /\ m # n => /\ PublishCreated(m) => QueuesQuiet(n)
                            /\ PublishRetry(m) => QueuesQuiet(n)
                            /\ Requeue(m) => QueuesQuiet(n)
                /\ PublishDeadLetter(m) => QueuesQuiet(n)
                /\ Deliver(m) => QueuesQuiet(n)
                /\ ExpireRetryTier(m) => QueuesQuiet(n)
           /\ UNCHANGED brokerVars => QueuesQuiet(n)
BY DEF BrokerTypeOK, QueuesQuiet, PublishCreated, PublishRetry, Requeue, PublishDeadLetter,
       Deliver, ExpireRetryTier, brokerVars

LEMMA StepKeepsQuiet ==
    ASSUME TypeOK, RowsBeforeDue, QuietBeforeDue, [Next]_vars,
           NEW n \in Notifications, ~due[n], ~due'[n]
    PROVE  request'[n] \in {"none", "done"} /\ QueuesQuiet(n)
<1>1. /\ BrokerTypeOK /\ WorkerTypeOK /\ ServiceTypeOK /\ SchedulerTypeOK
      /\ request[n] \in {"none", "done"} /\ work[n] = 0 /\ retryTier[n] = 0
  BY DEF TypeOK, QuietBeforeDue
<1>2. UNCHANGED brokerVars => QueuesQuiet(n)
  BY <1>1, BrokerKeepsQuiet
<1>3. UNCHANGED request => request'[n] \in {"none", "done"}
  BY <1>1
<1>4. CASE ServiceNext
  <2>1. request'[n] \in {"none", "done"}
    <3>1. ASSUME NEW m \in Notifications, NEW i \in InitialStatuses,
                 Create(m, i) \/ CreateFails(m, i)
          PROVE  request'[n] \in {"none", "done"}
      BY <1>1, <3>1
      DEF Create, CreateFails, InsertRow, RequestGoto, ServiceTypeOK, InitialStatuses,
          TypeOK, StoreTypeOK
    <3>2. ASSUME NEW m \in Notifications, RequestStep(m) \/ Cancel(m)
          PROVE  request'[n] \in {"none", "done"}
      BY <1>1, <3>2
      DEF RequestStep, PublishForDelivery, PublishForDeliveryFails, MarkQueued, MarkQueuedFails,
          AbandonRequest, Cancel, RequestGoto, ServiceTypeOK
    <3> QED BY <1>4, <3>1, <3>2 DEF ServiceNext
  <2>2. QueuesQuiet(n)
    BY <1>1, <1>2, <1>4, BrokerKeepsQuiet
    DEF ServiceNext, RequestStep, Create, CreateFails, PublishForDelivery,
        PublishForDeliveryFails, PublishLost, MarkQueued, MarkQueuedFails, AbandonRequest, Cancel
  <2> QED BY <2>1, <2>2
<1>5. CASE SchedulerNext /\ UNCHANGED request
  <2>1. ASSUME NEW s \in Schedulers, NEW m \in todo[s] PROVE m # n /\ m \in Notifications
    BY <1>1, <2>1 DEF QuietBeforeDue, SchedulerTypeOK
  <2>2. QueuesQuiet(n)
    BY <1>1, <1>2, <1>5, <2>1, BrokerKeepsQuiet
    DEF SchedulerNext, TickStep, SchedulerCrash, QueueDue, QueueDueFails, RepublishStale,
        RepublishStaleFails, RecoverStale, RecoverStaleFails, FinishTick, RepublishRow, Touch,
        TouchFails, PublishRow, PublishRowFails, PublishLost, brokerVars
  <2> QED BY <1>3, <1>5, <2>2
<1>6. ASSUME NEW h \in Handlers, HandlerStep(h) PROVE QueuesQuiet(n)
  <2>1. at[h] \in Busy => message[h] \in Notifications /\ message[h] # n
    BY <1>1 DEF WorkerTypeOK, QuietBeforeDue
  <2> QED
    BY <1>1, <1>2, <1>6, <2>1, BrokerKeepsQuiet
    DEF HandlerStep, Claim, DropUnclaimable, ClaimFails, StartSend, ReleaseThrottled,
        SendAccepted, SendRefused, SendResponseLost, RecordOutcome, OutcomeRejected,
        OutcomeFails, PublishRetryMessage, PublishRetryFails, PublishDeadLetterMessage,
        PublishDeadLetterFails, PublishLost, Ack, Nack, Busy
<1>7. ASSUME NEW p \in Processes, RequeueAll(Unacked(p)) PROVE QueuesQuiet(n)
  <2>1. {h \in HandlersOf(p) : at[h] \in Busy /\ message[h] = n} = {}
    BY DEF QuietBeforeDue, HandlersOf
  <2>2. Unacked(p)[n] = 0
    BY <2>1, FS_EmptySet DEF Unacked
  <2> QED BY <1>1, <1>7, <2>2 DEF RequeueAll, QueuesQuiet
<1>8. CASE WorkerNext /\ UNCHANGED request
  <2>1. QueuesQuiet(n)
    BY <1>1, <1>2, <1>6, <1>7, <1>8, BrokerKeepsQuiet
    DEF WorkerNext, Receive, LoseConnection, Restart, Crash
  <2> QED BY <1>3, <1>8, <2>1
<1>9. CASE ClockNext /\ UNCHANGED request
  <2>1. QueuesQuiet(n)
    BY <1>1, <1>2, <1>9, BrokerKeepsQuiet DEF ClockNext, ClockStep, AgeRow, AgeHeldRow
  <2> QED BY <1>3, <1>9, <2>1
<1>10. CASE UNCHANGED vars
  BY <1>2, <1>3, <1>10 DEF vars
<1> QED BY <1>4, <1>5, <1>8, <1>9, <1>10 DEF Next

LEMMA BeforeDueStep ==
    ASSUME TypeOK, RowsBeforeDue, QuietBeforeDue, [Next]_vars
    PROVE  RowsBeforeDue' /\ QuietBeforeDue'
<1>1. DueAdvances /\ WorkerTypeOK /\ BrokerTypeOK /\ SchedulerTypeOK
  BY StepKeepsDue DEF TypeOK
<1>2. ASSUME NEW n \in Notifications, ~due'[n]
      PROVE  request'[n] \in {"none", "done"} /\ work'[n] = 0 /\ retryTier'[n] = 0
  BY <1>1, <1>2, StepKeepsQuiet DEF DueAdvances, QueuesQuiet
<1>3. ASSUME NEW h \in Handlers, at'[h] \in Busy PROVE due'[message'[h]]
  <2>1. CASE at[h] \in Busy /\ message'[h] = message[h]
    BY <1>1, <2>1 DEF QuietBeforeDue, DueAdvances, WorkerTypeOK
  <2>2. ASSUME NEW n \in Notifications, Receive(h, n) PROVE due'[message'[h]]
    BY <1>1, <2>2 DEF Receive, Deliver, QuietBeforeDue, DueAdvances, WorkerTypeOK, BrokerTypeOK
  <2>3. ASSUME HandlerStep(h) PROVE at[h] \in Busy /\ (at'[h] = "idle" \/ message'[h] = message[h])
    <3>1. at[h] \in Busy
      BY <2>3
      DEF HandlerStep, Claim, DropUnclaimable, ClaimFails, StartSend, ReleaseThrottled,
          SendAccepted, SendRefused, SendResponseLost, RecordOutcome, OutcomeRejected,
          OutcomeFails, PublishRetryMessage, PublishRetryFails, PublishDeadLetterMessage,
          PublishDeadLetterFails, Ack, Nack, Busy, HoldingClaim, Outcome
    <3>2. CASE Ack(h) \/ Nack(h)
      BY <1>1, <3>1, <3>2 DEF Ack, Nack, Settle, WorkerTypeOK
    <3> QED
      BY <2>3, <3>1, <3>2
      DEF HandlerStep, Claim, DropUnclaimable, ClaimFails, StartSend, ReleaseThrottled,
          SendAccepted, SendRefused, SendResponseLost, RecordOutcome, OutcomeRejected,
          OutcomeFails, PublishRetryMessage, PublishRetryFails, PublishDeadLetterMessage,
          PublishDeadLetterFails, Goto
  <2>4. "idle" \notin Busy
    BY DEF Busy, HoldingClaim
  <2> QED BY <1>3, <2>1, <2>2, <2>3, <2>4, StepHandlerMoves DEF HandlerMoves
<1>4. ASSUME NEW s \in Schedulers, NEW n \in todo'[s] \cup toTouch'[s] PROVE due'[n]
  <2>1. CASE n \in todo[s] \cup toTouch[s]
    BY <1>1, <2>1 DEF QuietBeforeDue, DueAdvances, SchedulerTypeOK
  <2>2. ASSUME NEW S \in SUBSET Notifications,
               ClaimDueForQueue(S) \/ ListStaleQueued(S) \/ RecoverStaleProcessing(S)
        PROVE  \A m \in S : due'[m]
    BY <2>2, SweepsKeepDue DEF TypeOK
  <2>3. CASE UNCHANGED schedulerVars
    BY <1>4, <2>1, <2>3 DEF schedulerVars
  <2>4. ASSUME NEW r \in Schedulers,
               \/ QueueDue(r) \/ RepublishStale(r) \/ RecoverStale(r)
        PROVE  due'[n]
    BY <1>1, <1>4, <2>1, <2>2, <2>4
    DEF QueueDue, RepublishStale, RecoverStale, Enter, SchedulerTypeOK
  <2>5. ASSUME NEW r \in Schedulers,
               \/ QueueDueFails(r) \/ RepublishStaleFails(r) \/ RecoverStaleFails(r)
               \/ FinishTick(r) \/ SchedulerCrash(r)
        PROVE  n \in todo[s] \cup toTouch[s]
    BY <1>1, <1>4, <2>5
    DEF QueueDueFails, RepublishStaleFails, RecoverStaleFails, FinishTick, SchedulerCrash, Enter,
        SchedulerTypeOK
  <2>6. ASSUME NEW r \in Schedulers, NEW m \in Notifications,
               \/ RepublishRow(r, m) \/ Touch(r, m) \/ TouchFails(r, m)
               \/ PublishRow(r, m) \/ PublishRowFails(r, m)
        PROVE  n \in todo[s] \cup toTouch[s]
    BY <1>1, <1>4, <2>6
    DEF RepublishRow, Touch, TouchFails, PublishRow, PublishRowFails, Published, SchedulerTypeOK
  <2> QED
    BY <2>1, <2>3, <2>4, <2>5, <2>6 DEF Next, SchedulerNext, TickStep, vars
<1> QED BY <1>1, <1>2, <1>3, <1>4 DEF DueAdvances, QuietBeforeDue

LEMMA InitBeforeDue == Init => RowsBeforeDue /\ QuietBeforeDue
BY DEF Init, StoreInit, BrokerInit, ServiceInit, SchedulerInit, WorkerInit, RowsBeforeDue,
       QuietBeforeDue, Undue, Busy, HoldingClaim

\* A scheduled notification is neither published nor sent nor claimed before its
\* time, though sweeps, cancels and the clock run concurrently.
THEOREM ScheduledWaits == Spec => []NothingBeforeDue
<1>1. TypeOK /\ UnclaimedIsUntouched /\ RowsBeforeDue /\ QuietBeforeDue => NothingBeforeDue
  <2> SUFFICES ASSUME TypeOK, UnclaimedIsUntouched, RowsBeforeDue, QuietBeforeDue,
                      NEW n \in Notifications, ~due[n]
               PROVE  work[n] + retryTier[n] + deliveries[n] = 0 /\ Holders(n) = {}
    BY DEF NothingBeforeDue
  <2>1. work[n] = 0 /\ retryTier[n] = 0
    BY DEF QuietBeforeDue
  <2>2. deliveries[n] = 0
    BY DEF RowsBeforeDue, Undue, UnclaimedIsUntouched, Unclaimed
  <2>3. Holders(n) = {}
    BY DEF QuietBeforeDue, Holders, Busy
  <2> QED BY <2>1, <2>2, <2>3
<1> QED
  BY <1>1, TypeCorrect, InitUntouched, UnclaimedIsUntouchedStep, InitBeforeDue, BeforeDueStep, PTL
  DEF Spec

----------------------------------------------------------------------------
(* Retrying rows have a message on its way *)

\* The faults excluded are those after which a retrying row may be left without a
\* message: a handler that outlives its connection (run connection_loss), and a
\* sweep that recovers a row and then does not publish for it (stranded_retry).
NoCarrierLost ==
    FaultKinds \cap {"worker.connection", "scheduler.publish", "scheduler.crash",
                     "scheduler.database"} = {}

AllConnected == \A p \in Processes : connected[p]

LEMMA AllConnectedStep ==
    ASSUME NoCarrierLost, TypeOK, AllConnected, [Next]_vars
    PROVE  AllConnected'
<1>1. WorkerTypeOK
  BY DEF TypeOK
<1>2. CASE UNCHANGED connected
  BY <1>2 DEF AllConnected
<1>3. ASSUME NEW p \in Processes, LoseConnection(p) PROVE FALSE
  BY <1>3 DEF LoseConnection, Fault, NoCarrierLost
<1>4. ASSUME NEW p \in Processes, Restart(p) \/ Crash(p) PROVE AllConnected'
  BY <1>1, <1>4 DEF Restart, Crash, AllConnected, WorkerTypeOK
<1> QED
  BY <1>2, <1>3, <1>4
  DEF Next, WorkerNext, HandlerStep, Receive, Claim, DropUnclaimable, ClaimFails, StartSend,
      ReleaseThrottled, SendAccepted, SendRefused, SendResponseLost, RecordOutcome,
      OutcomeRejected, OutcomeFails, PublishRetryMessage, PublishRetryFails,
      PublishDeadLetterMessage, PublishDeadLetterFails, Ack, Nack, Goto, Settle, vars, workerVars

\* A message in a queue stays there, is handed out or moves from its tier to the
\* work queue.
LEMMA MessagesStay ==
    ASSUME TypeOK, [Next]_vars, NEW n \in Notifications
    PROVE  /\ work[n] > 0 => work'[n] > 0 \/ \E h \in Handlers : Receive(h, n)
           /\ retryTier[n] > 0 => retryTier'[n] > 0 \/ work'[n] > 0
<1> DEFINE Kept == work'[n] >= work[n] /\ (retryTier'[n] >= retryTier[n] \/ work'[n] > work[n])
<1> DEFINE Follows ==
      /\ work[n] > 0 => work'[n] > 0 \/ \E h \in Handlers : Receive(h, n)
      /\ retryTier[n] > 0 => retryTier'[n] > 0 \/ work'[n] > 0
<1>1. BrokerTypeOK /\ WorkerTypeOK /\ work[n] \in Nat /\ retryTier[n] \in Nat
  BY DEF TypeOK, BrokerTypeOK
<1>2. ASSUME UNCHANGED brokerVars PROVE Kept
  BY <1>1, <1>2 DEF brokerVars
<1>3. ASSUME NEW m \in Notifications,
             \/ PublishCreated(m) \/ PublishRetry(m) \/ PublishDeadLetter(m)
             \/ Requeue(m) \/ ExpireRetryTier(m)
      PROVE  Kept
  BY <1>1, <1>3
  DEF BrokerTypeOK, PublishCreated, PublishRetry, PublishDeadLetter, Requeue, ExpireRetryTier
<1>4. ASSUME NEW p \in Processes, RequeueAll(Unacked(p)) PROVE Kept
  BY <1>1, <1>4, UnackedType DEF RequeueAll
<1>5. ASSUME NEW h \in Handlers, NEW m \in Notifications, Receive(h, m)
      PROVE  m = n \/ Kept
  BY <1>1, <1>5 DEF Receive, Deliver, BrokerTypeOK
<1>6. Kept => Follows
  <2>1. work'[n] \in Nat /\ retryTier'[n] \in Nat
    BY StepType DEF TypeOK, BrokerTypeOK
  <2> QED BY <1>1, <2>1
<1> HIDE DEF Kept, Follows
<1>7. ASSUME ServiceNext PROVE Kept
  BY <1>2, <1>3, <1>7
  DEF ServiceNext, RequestStep, Create, CreateFails, PublishForDelivery, PublishForDeliveryFails,
      PublishLost, MarkQueued, MarkQueuedFails, AbandonRequest, Cancel
<1>8. ASSUME SchedulerNext PROVE Kept
  <2>1. \A s \in Schedulers : todo[s] \subseteq Notifications
    BY DEF TypeOK, SchedulerTypeOK
  <2> QED
    BY <1>2, <1>3, <1>8, <2>1
    DEF SchedulerNext, TickStep, SchedulerCrash, QueueDue, QueueDueFails, RepublishStale,
        RepublishStaleFails, RecoverStale, RecoverStaleFails, FinishTick, RepublishRow, Touch,
        TouchFails, PublishRow, PublishRowFails, PublishLost, brokerVars
<1>9. ASSUME NEW h \in Handlers, HandlerStep(h) PROVE Kept
  <2>1. at[h] \in Busy => message[h] \in Notifications
    BY <1>1 DEF WorkerTypeOK
  <2> QED
    BY <1>2, <1>3, <1>9, <2>1
    DEF HandlerStep, Claim, DropUnclaimable, ClaimFails, StartSend, ReleaseThrottled,
        SendAccepted, SendRefused, SendResponseLost, RecordOutcome, OutcomeRejected,
        OutcomeFails, PublishRetryMessage, PublishRetryFails, PublishDeadLetterMessage,
        PublishDeadLetterFails, PublishLost, Ack, Nack, Busy
<1>10. ASSUME ClockNext PROVE Kept
  BY <1>2, <1>3, <1>10 DEF ClockNext, ClockStep, AgeRow, AgeHeldRow
<1>11. ASSUME UNCHANGED vars PROVE Kept
  BY <1>2, <1>11 DEF vars
<1>12. ASSUME WorkerNext PROVE Follows
  <2>1. ASSUME NEW p \in Processes, LoseConnection(p) \/ Restart(p) \/ Crash(p) PROVE Kept
    BY <1>2, <1>4, <2>1 DEF LoseConnection, Restart, Crash
  <2>2. ASSUME NEW h \in Handlers, Receive(h, n)
        PROVE  UNCHANGED retryTier
    BY <2>2 DEF Receive, Deliver
  <2>3. ASSUME NEW h \in Handlers, Receive(h, n) PROVE Follows
    BY <2>2, <2>3 DEF Follows
  <2> QED BY <1>6, <1>5, <1>9, <1>12, <2>1, <2>3 DEF WorkerNext
<1>13. Follows
  BY <1>6, <1>7, <1>8, <1>10, <1>11, <1>12 DEF Next
<1> QED BY <1>13 DEF Follows

\* Only three writes of a handler and one sweep make a row retrying, and each of
\* them leaves somebody to publish or requeue for it.
LEMMA RetryingStartsCarried ==
    ASSUME NoCarrierLost, TypeOK, AllConnected, [Next]_vars,
           NEW n \in Notifications, status'[n] = "retrying", status[n] # "retrying"
    PROVE  CarriesMessage(n)'
<1>1. StoreTypeOK /\ WorkerTypeOK /\ SchedulerTypeOK
  BY DEF TypeOK
<1>2. ASSUME UNCHANGED storeVars PROVE FALSE
  BY <1>2 DEF storeVars
<1>3. ASSUME NEW m \in Notifications, NEW to, to # "retrying", NEW from, GuardedUpdate(m, to, from)
      PROVE  FALSE
  BY <1>1, <1>3 DEF GuardedUpdate, StoreTypeOK
<1>4. ASSUME NEW m \in Notifications,
             \/ \E i \in InitialStatuses : InsertRow(m, i)
             \/ ClaimForProcessing(m)
             \/ TouchQueued(m) \/ BecomeDue(m) \/ BecomeStale(m)
      PROVE  FALSE
  BY <1>1, <1>4
  DEF InsertRow, InitialStatuses, ClaimForProcessing, TouchQueued, BecomeDue, BecomeStale,
      StoreTypeOK
<1>5. ASSUME NEW S, ClaimDueForQueue(S) \/ ListStaleQueued(S) PROVE FALSE
  BY <1>1, <1>5 DEF ClaimDueForQueue, ListStaleQueued, UpdateRows, storeVars
<1>6. CASE ServiceNext
  BY <1>2, <1>3, <1>4, <1>6
  DEF ServiceNext, RequestStep, Create, CreateFails, PublishForDelivery, PublishForDeliveryFails,
      MarkQueued, MarkQueuedFails, AbandonRequest, Cancel, UpdateRejected
<1>7. CASE SchedulerNext
  <2>1. ASSUME NEW s \in Schedulers, RecoverStale(s) PROVE CarriesMessage(n)'
    <3>1. PICK S \in SUBSET Notifications :
            RecoverStaleProcessing(S) /\ Enter(s, "recoverStale", S)
      BY <2>1 DEF RecoverStale
    <3>2. n \in S
      BY <1>1, <3>1 DEF RecoverStaleProcessing, UpdateRows
    <3> QED BY <1>1, <3>1, <3>2 DEF Enter, CarriesMessage, SchedulerTypeOK
  <2>2. ASSUME NEW s \in Schedulers, RecoverStaleFails(s) PROVE FALSE
    BY <2>2 DEF RecoverStaleFails, Fault, NoCarrierLost
  <2> QED
    BY <1>2, <1>4, <1>5, <1>7, <2>1, <2>2
    DEF SchedulerNext, TickStep, SchedulerCrash, QueueDue, QueueDueFails, RepublishStale,
        RepublishStaleFails, FinishTick, RepublishRow, Touch, TouchFails, PublishRow,
        PublishRowFails
<1>8. CASE ClockNext
  BY <1>2, <1>4, <1>8 DEF ClockNext, ClockStep, AgeRow, AgeHeldRow
<1>9. ASSUME NEW h \in Handlers, HandlerStep(h) PROVE CarriesMessage(n)'
  <2>1. at[h] \in Busy => message[h] \in Notifications
    BY <1>1 DEF WorkerTypeOK
  <2>2. ASSUME Claim(h) \/ ClaimFails(h) PROVE FALSE
    BY <1>2, <1>4, <2>1, <2>2 DEF Claim, ClaimFails, Busy
  <2>3. ASSUME NEW to, NEW from, NEW step \in {"publishRetry", "nack"}, message[h] \in Notifications,
               GuardedUpdate(message[h], to, from), Goto(h, step)
        PROVE  CarriesMessage(n)'
    <3>1. message[h] = n
      BY <1>1, <2>3 DEF GuardedUpdate, StoreTypeOK
    <3>2. at'[h] = step /\ message'[h] = n /\ connected'[ProcessOf[h]]
      BY <1>1, <2>3, <3>1, WorkerAssumption DEF Goto, WorkerTypeOK, AllConnected
    <3> QED BY <3>2 DEF CarriesMessage, Connected
  <2>4. CASE ReleaseThrottled(h)
    <3>1. message[h] \in Notifications
      BY <2>1, <2>4 DEF ReleaseThrottled, Busy, HoldingClaim
    <3> QED BY <1>2, <2>3, <2>4, <3>1 DEF ReleaseThrottled
  <2>5. CASE RecordOutcome(h) \/ OutcomeFails(h)
    <3>1. at[h] \in {"markSent", "markRetrying", "markFailed"}
      BY <2>5 DEF RecordOutcome, OutcomeFails, Outcome
    <3>2. message[h] \in Notifications
      BY <2>1, <3>1 DEF Busy, HoldingClaim
    <3>3. CASE OutcomeFails(h)
      BY <1>2, <2>3, <3>2, <3>3 DEF OutcomeFails
    <3>4. CASE RecordOutcome(h) /\ at[h] = "markRetrying"
      BY <2>3, <3>2, <3>4 DEF RecordOutcome, Outcome
    <3>5. CASE RecordOutcome(h) /\ at[h] \in {"markSent", "markFailed"}
      <4>1. Outcome[at[h]].status # "retrying"
        BY <3>5 DEF Outcome
      <4> QED BY <1>3, <3>2, <3>5, <4>1 DEF RecordOutcome
    <3> QED BY <2>5, <3>1, <3>3, <3>4, <3>5
  <2> QED
    BY <1>2, <1>9, <2>2, <2>4, <2>5
    DEF HandlerStep, DropUnclaimable, StartSend, SendAccepted, SendRefused, SendResponseLost,
        OutcomeRejected, PublishRetryMessage, PublishRetryFails, PublishDeadLetterMessage,
        PublishDeadLetterFails, Ack, Nack, UpdateRejected
<1>10. CASE WorkerNext
  BY <1>2, <1>9, <1>10 DEF WorkerNext, Receive, LoseConnection, Restart, Crash
<1> QED BY <1>2, <1>6, <1>7, <1>8, <1>10 DEF Next, vars

\* The carriers that are handlers: each passes the message on.
LEMMA HandlerCarries ==
    ASSUME TypeOK, AllConnected, AllConnected', [Next]_vars,
           NEW n \in Notifications, status[n] = "retrying", status'[n] = "retrying",
           NEW h \in Handlers, message[h] = n, at[h] \in {"received", "publishRetry", "nack"}
    PROVE  CarriesMessage(n)'
<1>1. StoreTypeOK /\ WorkerTypeOK /\ BrokerTypeOK /\ BrokerTypeOK'
  BY StepType DEF TypeOK
<1>2. work[n] \in Nat /\ retryTier[n] \in Nat /\ ProcessOf[h] \in Processes
  BY <1>1, WorkerAssumption DEF BrokerTypeOK
<1>3. ASSUME at'[h] \in {"received", "publishRetry", "nack"}, message'[h] = n
      PROVE  CarriesMessage(n)'
  BY <1>2, <1>3 DEF CarriesMessage, Connected, AllConnected
<1>4. ASSUME work'[n] > 0 \/ retryTier'[n] > 0 PROVE CarriesMessage(n)'
  BY <1>4 DEF CarriesMessage
<1>5. CASE at'[h] = at[h] /\ message'[h] = message[h]
  BY <1>3, <1>5
<1>6. CASE HandlerStep(h)
  <2>1. ASSUME Claim(h) PROVE FALSE
    BY <1>1, <2>1 DEF Claim, ClaimForProcessing, StoreTypeOK
  <2>2. ASSUME DropUnclaimable(h) PROVE FALSE
    BY <2>2, StatusTable DEF DropUnclaimable, UpdateRejected, ClaimableStatuses
  <2>3. CASE ClaimFails(h) \/ PublishRetryFails(h)
    BY <1>1, <1>3, <2>3 DEF ClaimFails, PublishRetryFails, Goto, WorkerTypeOK
  <2>4. CASE PublishRetryMessage(h)
    BY <1>1, <1>2, <1>4, <2>4 DEF PublishRetryMessage, PublishRetry, BrokerTypeOK
  <2>5. CASE Nack(h)
    BY <1>1, <1>2, <1>4, <2>5 DEF Nack, Requeue, Connected, AllConnected, BrokerTypeOK
  <2> QED
    BY <1>6, <2>1, <2>2, <2>3, <2>4, <2>5
    DEF HandlerStep, StartSend, ReleaseThrottled, SendAccepted, SendRefused, SendResponseLost,
        RecordOutcome, OutcomeRejected, OutcomeFails, PublishDeadLetterMessage,
        PublishDeadLetterFails, Ack, Outcome
<1>7. CASE Crash(ProcessOf[h])
  <2> DEFINE H == {g \in HandlersOf(ProcessOf[h]) : at[g] \in Busy /\ message[g] = n}
  <2>1. h \in H /\ H \subseteq Handlers
    BY DEF HandlersOf, Busy
  <2>2. IsFiniteSet(H)
    BY <2>1, FS_Subset, WorkerAssumption
  <2>3. Cardinality(H) \in Nat /\ Cardinality(H) # 0
    BY <2>1, <2>2, FS_CardinalityType, FS_EmptySet
  <2>4. Unacked(ProcessOf[h])[n] = Cardinality(H)
    BY <1>2 DEF Unacked, AllConnected
  <2>5. work'[n] = work[n] + Cardinality(H)
    BY <1>7, <2>4 DEF Crash, RequeueAll
  <2> QED BY <1>2, <1>4, <2>3, <2>5
<1> QED BY <1>5, <1>6, <1>7, StepHandlerMoves DEF HandlerMoves, Receive

\* The carrier that is a sweep: its loop ends only when it has published.
LEMMA SweepCarries ==
    ASSUME NoCarrierLost, TypeOK, [Next]_vars,
           NEW n \in Notifications, NEW s \in Schedulers, phase[s] = "recoverStale", n \in todo[s]
    PROVE  CarriesMessage(n)'
<1>1. SchedulerTypeOK /\ BrokerTypeOK /\ work[n] \in Nat
  BY DEF TypeOK, BrokerTypeOK
<1>2. ASSUME phase'[s] = "recoverStale", n \in todo'[s] PROVE CarriesMessage(n)'
  BY <1>2 DEF CarriesMessage
<1>3. CASE UNCHANGED schedulerVars
  BY <1>2, <1>3 DEF schedulerVars
<1>4. ASSUME NEW r \in Schedulers,
             \/ QueueDue(r) \/ RepublishStale(r) \/ RecoverStale(r) \/ FinishTick(r)
      PROVE  CarriesMessage(n)'
  BY <1>1, <1>2, <1>4
  DEF QueueDue, RepublishStale, RecoverStale, FinishTick, Enter, LoopDone, SchedulerTypeOK
<1>5. ASSUME NEW r \in Schedulers,
             \/ QueueDueFails(r) \/ RepublishStaleFails(r) \/ RecoverStaleFails(r)
             \/ SchedulerCrash(r)
             \/ \E m \in Notifications : TouchFails(r, m) \/ PublishRowFails(r, m)
      PROVE  FALSE
  BY <1>5
  DEF QueueDueFails, RepublishStaleFails, RecoverStaleFails, SchedulerCrash, TouchFails,
      PublishRowFails, Fault, NoCarrierLost
<1>6. ASSUME NEW r \in Schedulers, NEW m \in Notifications, RepublishRow(r, m) \/ Touch(r, m)
      PROVE  CarriesMessage(n)'
  BY <1>1, <1>2, <1>6 DEF RepublishRow, Touch, SchedulerTypeOK
<1>7. ASSUME NEW r \in Schedulers, NEW m \in Notifications, PublishRow(r, m)
      PROVE  CarriesMessage(n)'
  <2>1. CASE r = s /\ m = n
    <3>1. work'[n] = work[n] + 1
      BY <1>1, <1>7, <2>1 DEF PublishRow, PublishCreated, BrokerTypeOK
    <3> QED BY <1>1, <3>1 DEF CarriesMessage
  <2>2. CASE r # s \/ m # n
    BY <1>1, <1>2, <1>7, <2>2 DEF PublishRow, Published, SchedulerTypeOK
  <2> QED BY <2>1, <2>2
<1> QED
  BY <1>3, <1>4, <1>5, <1>6, <1>7 DEF Next, SchedulerNext, TickStep, vars

LEMMA RetryingIsCarriedStep ==
    ASSUME NoCarrierLost, TypeOK, AllConnected, RetryingIsCarried, [Next]_vars
    PROVE  RetryingIsCarried'
<1>1. AllConnected' /\ WorkerTypeOK
  BY AllConnectedStep DEF TypeOK
<1> SUFFICES ASSUME NEW n \in Notifications, status'[n] = "retrying" PROVE CarriesMessage(n)'
  BY DEF RetryingIsCarried
<1>2. CASE status[n] # "retrying"
  BY <1>2, RetryingStartsCarried
<1>3. CASE status[n] = "retrying"
  <2>1. CarriesMessage(n)
    BY <1>3 DEF RetryingIsCarried
  <2>2. ASSUME NEW h \in Handlers, Receive(h, n) PROVE CarriesMessage(n)'
    <3>1. at'[h] = "received" /\ message'[h] = n /\ connected'[ProcessOf[h]]
      BY <1>1, <2>2, WorkerAssumption DEF Receive, WorkerTypeOK, AllConnected
    <3> QED BY <3>1 DEF CarriesMessage, Connected
  <2>3. CASE work[n] > 0 \/ retryTier[n] > 0
    <3>1. work'[n] > 0 \/ retryTier'[n] > 0 \/ \E h \in Handlers : Receive(h, n)
      BY <2>3, MessagesStay
    <3> QED BY <2>2, <3>1 DEF CarriesMessage
  <2>4. ASSUME NEW h \in Handlers, message[h] = n, at[h] \in {"received", "publishRetry", "nack"}
        PROVE  CarriesMessage(n)'
    BY <1>1, <1>3, <2>4, HandlerCarries
  <2>5. ASSUME NEW s \in Schedulers, phase[s] = "recoverStale", n \in todo[s]
        PROVE  CarriesMessage(n)'
    BY <2>5, SweepCarries
  <2> QED BY <2>1, <2>3, <2>4, <2>5 DEF CarriesMessage
<1> QED BY <1>2, <1>3

LEMMA InitCarried == Init => AllConnected /\ RetryingIsCarried
BY DEF Init, StoreInit, WorkerInit, AllConnected, RetryingIsCarried, Absent

\* No sweep looks at retrying rows, and none needs to: whatever handlers do,
\* crash or fail to write or publish, a message for the row is on its way.
THEOREM RetriesAreCarried == NoCarrierLost => (Spec => []RetryingIsCarried)
<1> SUFFICES ASSUME NoCarrierLost PROVE Spec => []RetryingIsCarried
  OBVIOUS
<1>1. TypeOK /\ AllConnected /\ RetryingIsCarried /\ [Next]_vars
      => AllConnected' /\ RetryingIsCarried'
  BY AllConnectedStep, RetryingIsCarriedStep
<1> QED BY <1>1, TypeCorrect, InitCarried, PTL DEF Spec

=============================================================================
