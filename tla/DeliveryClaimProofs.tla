------------------------- MODULE DeliveryClaimProofs ------------------------
(***************************************************************************)
(* What the claim of the delivery worker is worth, for every value of the   *)
(* constants. To the handler that holds it: exclusiveness, as long as no    *)
(* handler outlives STALE_PENDING_AFTER ("worker.slow" is the one fault     *)
(* these theorems exclude). And to everybody, under all faults: a bound on  *)
(* the deliveries and the attempts of a notification.                       *)
(***************************************************************************)
EXTENDS DeliverySafetyProofs

Punctual == "worker.slow" \notin FaultKinds

Holds(h, n) == at[h] \in HoldingClaim /\ message[h] = n

\* A held row is in processing, fresh, at the holder's attempt, and held once.
\* Freshness is what the sweep looks at: without it the invariant is not
\* preserved by RecoverStaleProcessing.
HeldRows ==
    \A h \in Handlers :
        at[h] \in HoldingClaim =>
            /\ status[message[h]] = "processing"
            /\ ~stale[message[h]]
            /\ attempts[message[h]] = claimedAttempts[h]
            /\ \A g \in Handlers : Holds(g, message[h]) => g = h

\* Nobody but a holder that gives up its claim touches a held row.
RowKept(n) ==
    status'[n] = "processing" /\ ~stale'[n] /\ attempts'[n] = attempts[n]

Released(n) ==
    \E g \in Handlers : Holds(g, n) /\ at'[g] \notin HoldingClaim

LEMMA StatementsKeepProcessing ==
    ASSUME StoreTypeOK, NEW n \in Notifications, status[n] = "processing", ~stale[n],
           NEW m \in Notifications
    PROVE  /\ \A i \in InitialStatuses : InsertRow(m, i) => RowKept(n)
           /\ \A to, from : GuardedUpdate(m, to, from) /\ "processing" \notin from => RowKept(n)
           /\ \A to, from : GuardedUpdate(m, to, from) /\ m # n => RowKept(n)
           /\ ClaimForProcessing(m) => RowKept(n)
           /\ TouchQueued(m) => RowKept(n)
           /\ BecomeDue(m) => RowKept(n)
           /\ UNCHANGED storeVars => RowKept(n)
<1> USE DEF RowKept, StoreTypeOK
<1>1. ASSUME NEW i \in InitialStatuses, InsertRow(m, i) PROVE RowKept(n)
  BY <1>1 DEF InsertRow, Absent
<1>2. ASSUME NEW to, NEW from, GuardedUpdate(m, to, from), "processing" \notin from \/ m # n
      PROVE  RowKept(n)
  BY <1>2 DEF GuardedUpdate
<1>3. ASSUME ClaimForProcessing(m) PROVE RowKept(n)
  <2>1. m # n
    BY <1>3, StatusTable DEF ClaimForProcessing, ClaimableStatuses
  <2> QED BY <1>3, <2>1 DEF ClaimForProcessing
<1>4. ASSUME TouchQueued(m) \/ BecomeDue(m) \/ UNCHANGED storeVars PROVE RowKept(n)
  BY <1>4 DEF TouchQueued, BecomeDue, storeVars
<1> QED BY <1>1, <1>2, <1>3, <1>4

\* The sweeps take no fresh row out of processing.
LEMMA SweepsKeepProcessing ==
    ASSUME StoreTypeOK, NEW n \in Notifications, status[n] = "processing", ~stale[n],
           NEW S \in SUBSET Notifications,
           ClaimDueForQueue(S) \/ ListStaleQueued(S) \/ RecoverStaleProcessing(S)
    PROVE  RowKept(n)
<1>1. CASE ListStaleQueued(S)
  BY <1>1 DEF ListStaleQueued, storeVars, RowKept
<1>2. CASE ClaimDueForQueue(S) \/ RecoverStaleProcessing(S)
  <2>1. n \notin S
    BY <1>2 DEF ClaimDueForQueue, RecoverStaleProcessing, LimitedTo, DueRows, StaleProcessingRows
  <2> QED BY <1>2, <2>1 DEF ClaimDueForQueue, RecoverStaleProcessing, UpdateRows, RowKept
<1> QED BY <1>1, <1>2

LEMMA HeldRowStep ==
    ASSUME TypeOK, [Next]_vars, Punctual, NEW n \in Notifications,
           status[n] = "processing", ~stale[n], NEW h \in Handlers, Holds(h, n)
    PROVE  RowKept(n) \/ Released(n)
<1>1. StoreTypeOK /\ WorkerTypeOK
  BY DEF TypeOK
<1>2. CASE UNCHANGED storeVars
  BY <1>1, <1>2, StatementsKeepProcessing
<1>3. CASE ServiceNext
  BY <1>1, <1>2, <1>3, StatementsKeepProcessing, StatusTable
  DEF ServiceNext, RequestStep, Create, CreateFails, PublishForDelivery, PublishForDeliveryFails,
      MarkQueued, MarkQueuedFails, AbandonRequest, Cancel, UpdateRejected, CancellableStatuses
<1>4. CASE SchedulerNext
  BY <1>1, <1>2, <1>4, StatementsKeepProcessing, SweepsKeepProcessing
  DEF SchedulerNext, TickStep, SchedulerCrash, QueueDue, QueueDueFails, RepublishStale,
      RepublishStaleFails, RecoverStale, RecoverStaleFails, FinishTick, RepublishRow, Touch,
      TouchFails, PublishRow, PublishRowFails
<1>5. CASE ClockNext
  <2>1. Holders(n) # {}
    BY DEF Holders, Holds
  <2>2. ASSUME NEW m \in Notifications, AgeRow(m) PROVE RowKept(n)
    <3>1. m # n
      BY <2>1, <2>2 DEF AgeRow
    <3> QED BY <1>1, <2>2, <3>1 DEF AgeRow, BecomeStale, RowKept, StoreTypeOK
  <2>3. ASSUME NEW m \in Notifications, AgeHeldRow(m) PROVE FALSE
    BY <2>3 DEF AgeHeldRow, Fault, Punctual
  <2> QED BY <1>1, <1>2, <1>5, <2>2, <2>3, StatementsKeepProcessing DEF ClockNext, ClockStep
<1>6. ASSUME NEW g \in Handlers, HandlerStep(g) PROVE RowKept(n) \/ Released(n)
  <2>1. at[g] \in Busy => message[g] \in Notifications
    BY <1>1 DEF WorkerTypeOK
  <2>2. CASE Claim(g) \/ ClaimFails(g)
    BY <1>1, <1>2, <2>1, <2>2, StatementsKeepProcessing DEF Claim, ClaimFails, Busy
  <2>3. CASE ReleaseThrottled(g) \/ RecordOutcome(g) \/ OutcomeFails(g)
    <3>1. at[g] \in {"throttle", "markSent", "markRetrying", "markFailed"}
      BY <2>3 DEF ReleaseThrottled, RecordOutcome, OutcomeFails, Outcome
    <3>2. at[g] \in HoldingClaim /\ message[g] \in Notifications
      BY <2>1, <3>1 DEF HoldingClaim, Busy
    <3>3. at'[g] \notin HoldingClaim
      BY <1>1, <2>3, <3>1
      DEF ReleaseThrottled, RecordOutcome, OutcomeFails, Goto, Outcome, HoldingClaim, WorkerTypeOK
    <3>4. CASE message[g] = n
      BY <3>2, <3>3, <3>4 DEF Released, Holds
    <3>5. CASE message[g] # n
      BY <1>1, <1>2, <2>3, <3>2, <3>5, StatementsKeepProcessing
      DEF ReleaseThrottled, RecordOutcome, OutcomeFails
    <3> QED BY <3>4, <3>5
  <2> QED
    BY <1>2, <1>6, <2>2, <2>3
    DEF HandlerStep, DropUnclaimable, StartSend, SendAccepted, SendRefused, SendResponseLost,
        OutcomeRejected, PublishRetryMessage, PublishRetryFails, PublishDeadLetterMessage,
        PublishDeadLetterFails, Ack, Nack, UpdateRejected
<1>7. CASE WorkerNext
  BY <1>2, <1>6, <1>7 DEF WorkerNext, Receive, LoseConnection, Restart, Crash
<1> QED BY <1>2, <1>3, <1>4, <1>5, <1>7 DEF Next, vars

\* A handler that goes on holding its claim keeps its snapshot of the attempt.
LEMMA SnapshotKept ==
    ASSUME TypeOK, [Next]_vars, NEW h \in Handlers,
           at[h] \in HoldingClaim, at'[h] \in HoldingClaim
    PROVE  message'[h] = message[h] /\ claimedAttempts'[h] = claimedAttempts[h]
<1>1. WorkerTypeOK
  BY DEF TypeOK
<1>2. CASE UNCHANGED handlerVars
  BY <1>2 DEF handlerVars
<1>3. ASSUME NEW g \in Handlers, HandlerStep(g)
      PROVE  message'[h] = message[h] /\ claimedAttempts'[h] = claimedAttempts[h]
  <2>1. CASE Claim(g)
    BY <1>1, <2>1 DEF Claim, WorkerTypeOK, HoldingClaim
  <2>2. CASE Ack(g) \/ Nack(g)
    BY <1>1, <2>2 DEF Ack, Nack, Settle, WorkerTypeOK, HoldingClaim
  <2> QED
    BY <1>3, <2>1, <2>2
    DEF HandlerStep, DropUnclaimable, ClaimFails, StartSend, ReleaseThrottled, SendAccepted,
        SendRefused, SendResponseLost, RecordOutcome, OutcomeRejected, OutcomeFails,
        PublishRetryMessage, PublishRetryFails, PublishDeadLetterMessage,
        PublishDeadLetterFails, Goto
<1>4. ASSUME NEW g \in Handlers, NEW n \in Notifications, Receive(g, n)
      PROVE  message'[h] = message[h] /\ claimedAttempts'[h] = claimedAttempts[h]
  BY <1>1, <1>4 DEF Receive, WorkerTypeOK, HoldingClaim
<1>5. ASSUME NEW p \in Processes, Crash(p)
      PROVE  message'[h] = message[h] /\ claimedAttempts'[h] = claimedAttempts[h]
  BY <1>1, <1>5 DEF Crash, WorkerTypeOK, HoldingClaim
<1> QED
  BY <1>2, <1>3, <1>4, <1>5 DEF Next, WorkerNext, LoseConnection, Restart, vars, workerVars

LEMMA HeldRowsStep ==
    ASSUME TypeOK, HeldRows, Punctual, [Next]_vars
    PROVE  HeldRows'
<1>1. HandlersAdvance
  BY StepHandlersAdvance
<1>2. ASSUME NEW h \in Handlers, at[h] \in HoldingClaim, at'[h] \in HoldingClaim
      PROVE  /\ message'[h] = message[h]
             /\ claimedAttempts'[h] = claimedAttempts[h]
             /\ message[h] \in Notifications
             /\ RowKept(message[h])
  <2>1. message[h] \in Notifications
    BY <1>2 DEF TypeOK, WorkerTypeOK, Busy
  <2>2. ~Released(message[h])
    BY <1>2 DEF Released, HeldRows
  <2>3. RowKept(message[h])
    BY <1>2, <2>1, <2>2, HeldRowStep DEF HeldRows, Holds
  <2> QED BY <1>2, <2>1, <2>3, SnapshotKept
<1>3. ASSUME NEW h \in Handlers, Claim(h)
      PROVE  /\ message'[h] = message[h] /\ message[h] \in Notifications
             /\ status'[message[h]] = "processing" /\ ~stale'[message[h]]
             /\ attempts'[message[h]] = claimedAttempts'[h]
             /\ status[message[h]] # "processing"
             /\ \A g \in Handlers : g # h => at'[g] = at[g]
  <2>1. message[h] \in Notifications
    BY <1>3 DEF Claim, TypeOK, WorkerTypeOK, Busy
  <2>2. status[message[h]] # "processing"
    BY <1>3, StatusTable DEF Claim, ClaimForProcessing, ClaimableStatuses
  <2> QED
    BY <1>3, <2>1, <2>2
    DEF Claim, ClaimForProcessing, TypeOK, StoreTypeOK, WorkerTypeOK
<1>4. ASSUME NEW h \in Handlers, at'[h] \in HoldingClaim
      PROVE  /\ status'[message'[h]] = "processing"
             /\ ~stale'[message'[h]]
             /\ attempts'[message'[h]] = claimedAttempts'[h]
  BY <1>1, <1>2, <1>3, <1>4 DEF HandlersAdvance, HeldRows, RowKept
<1>5. ASSUME NEW h \in Handlers, NEW g \in Handlers, g # h, Claim(h),
             at'[g] \in HoldingClaim
      PROVE  message'[g] # message'[h]
  <2>1. at[g] \in HoldingClaim
    BY <1>3, <1>5
  <2>2. message'[g] = message[g] /\ status[message[g]] = "processing"
    BY <1>2, <1>5, <2>1 DEF HeldRows
  <2> QED BY <1>3, <1>5, <2>2
<1>6. ASSUME NEW h \in Handlers, NEW g \in Handlers,
             at'[h] \in HoldingClaim, at'[g] \in HoldingClaim, message'[g] = message'[h]
      PROVE  g = h
  <2>1. CASE at[h] \in HoldingClaim /\ at[g] \in HoldingClaim
    BY <1>2, <1>6, <2>1 DEF HeldRows, Holds
  <2>2. CASE Claim(h) \/ Claim(g)
    BY <1>5, <1>6, <2>2
  <2> QED BY <1>1, <1>6, <2>1, <2>2 DEF HandlersAdvance
<1> QED BY <1>4, <1>6 DEF HeldRows, Holds

LEMMA InitHeldRows == Init => HeldRows
BY DEF Init, WorkerInit, HeldRows, HoldingClaim

\* While a handler works on a claim, no other handler works on the same
\* notification and the row shows its attempt, so its outcome write, guarded
\* by "processing" alone, cannot overwrite another attempt's.
THEOREM ClaimExclusive == Punctual => (Spec => []ClaimIsExclusive)
<1> SUFFICES ASSUME Punctual PROVE Spec => []ClaimIsExclusive
  OBVIOUS
<1>1. TypeOK /\ HeldRows => ClaimIsExclusive
  BY DEF HeldRows, Holds, ClaimIsExclusive, Holders
<1>2. TypeOK /\ HeldRows /\ [Next]_vars => HeldRows'
  BY HeldRowsStep
<1> QED BY <1>1, <1>2, TypeCorrect, InitHeldRows, PTL DEF Spec

\* In particular no two handlers call the provider for one notification at a time.
\* (With a handler that outlives the cutoff they may: run concurrent_sends.)
THEOREM SendsAreExclusive == Punctual => (Spec => []NoConcurrentSends)
<1> SUFFICES ASSUME Punctual PROVE Spec => []NoConcurrentSends
  OBVIOUS
<1>1. HeldRows => NoConcurrentSends
  BY DEF HeldRows, Holds, NoConcurrentSends, HoldingClaim
<1>2. TypeOK /\ HeldRows /\ [Next]_vars => HeldRows'
  BY HeldRowsStep
<1> QED BY <1>1, <1>2, TypeCorrect, InitHeldRows, PTL DEF Spec

----------------------------------------------------------------------------
(* What faults can add, slow handlers included *)

\* Row n can be claimed, or will be once a sweep has looked at it.
Free(n) ==
    \/ status[n] \in {Absent, "pending", "scheduled", "queued", "retrying"}
    \/ status[n] = "processing" /\ (stale[n] \/ Holders(n) = {})

Chance(n) == IF Free(n) THEN 1 ELSE 0

\* The handlers whose attempt may still be accepted, or tried once more.
Sending(n) == {h \in Handlers : at[h] \in {"throttle", "send", "markRetrying"} /\ message[h] = n}

\* ... and those of them that may lead to another attempt.
Retriable(n) == {h \in Sending(n) : claimedAttempts[h] < MaxAttempts}

\* The attempts of n from the last allowed one on.
AtCap(n) == IF attempts[n] < MaxAttempts THEN 0 ELSE attempts[n] - MaxAttempts + 1

\* Without faults there is one claim to go round: the row has it, or a handler,
\* or it has been spent. Every fault adds at most one.
DeliveriesAccounted ==
    \A n \in Notifications :
        deliveries[n] + Chance(n) + Cardinality(Sending(n)) <= 1 + faults

AttemptsAccounted ==
    \A n \in Notifications :
        AtCap(n) + Chance(n) + Cardinality(Retriable(n)) <= 1 + faults

RetriesBelowCap ==
    \A h \in Handlers : at[h] = "markRetrying" => claimedAttempts[h] < MaxAttempts

LEMMA RetriesBelowCapStep ==
    ASSUME TypeOK, RetriesBelowCap, [Next]_vars
    PROVE  RetriesBelowCap'
<1> SUFFICES ASSUME NEW h \in Handlers, at'[h] = "markRetrying"
             PROVE  claimedAttempts'[h] < MaxAttempts
  BY DEF RetriesBelowCap
<1>1. HandlerMoves(h) /\ WorkerTypeOK
  BY StepHandlerMoves DEF TypeOK
<1>2. CASE at'[h] = at[h] /\ claimedAttempts'[h] = claimedAttempts[h]
  BY <1>2 DEF RetriesBelowCap
<1>3. CASE HandlerStep(h)
  <2>1. CASE SendRefused(h) \/ SendResponseLost(h)
    BY <1>1, <2>1 DEF SendRefused, SendResponseLost, AfterFailure, Goto, WorkerTypeOK
  <2>2. ASSUME RecordOutcome(h) PROVE FALSE
    BY <1>1, <2>2 DEF RecordOutcome, Outcome, Goto, WorkerTypeOK
  <2> QED
    BY <1>1, <1>3, <2>1, <2>2
    DEF HandlerStep, Claim, DropUnclaimable, ClaimFails, StartSend, ReleaseThrottled,
        SendAccepted, OutcomeRejected, OutcomeFails, PublishRetryMessage, PublishRetryFails,
        PublishDeadLetterMessage, PublishDeadLetterFails, Ack, Nack, Goto, Settle, WorkerTypeOK
<1> QED BY <1>1, <1>2, <1>3 DEF HandlerMoves, Receive, WorkerTypeOK

\* The ways a step may change the account of n: it leaves it alone, ...
Quiet(n) ==
    /\ faults' >= faults
    /\ Free(n)' => Free(n)
    /\ Sending(n)' \subseteq Sending(n) /\ Retriable(n)' \subseteq Retriable(n)
    /\ deliveries'[n] = deliveries[n] /\ attempts'[n] = attempts[n]

\* ... is a fault, which frees the row, adds a delivery or wastes a claim, ...
Faulty(n) ==
    /\ faults' = faults + 1
    /\ Sending(n)' \subseteq Sending(n) /\ Retriable(n)' \subseteq Retriable(n)
    /\ \/ deliveries'[n] = deliveries[n] /\ attempts'[n] = attempts[n]
       \/ deliveries'[n] = deliveries[n] /\ attempts'[n] = attempts[n] + 1 /\ Free(n)
       \/ deliveries'[n] = deliveries[n] + 1 /\ attempts'[n] = attempts[n] /\ (Free(n)' => Free(n))

\* ... hands the claim to h, ...
Claims(h, n) ==
    /\ faults' = faults
    /\ Free(n) /\ ~Free(n)'
    /\ Sending(n)' \subseteq Sending(n) \cup {h}
    /\ Retriable(n)' \subseteq Retriable(n) \cup {h}
    /\ attempts'[n] = attempts[n] + 1
    /\ attempts'[n] >= MaxAttempts => Retriable(n)' \subseteq Retriable(n)
    /\ deliveries'[n] = deliveries[n]

\* ... has the provider accept the attempt of h, ...
Delivers(h, n) ==
    /\ faults' = faults
    /\ Free(n)' => Free(n)
    /\ h \in Sending(n) /\ Sending(n)' \subseteq Sending(n) \ {h}
    /\ Retriable(n)' \subseteq Retriable(n)
    /\ deliveries'[n] = deliveries[n] + 1 /\ attempts'[n] = attempts[n]

\* ... or gives the claim of h back for a retry.
Returns(h, n) ==
    /\ faults' = faults
    /\ h \in Retriable(n)
    /\ Sending(n)' \subseteq Sending(n) \ {h} /\ Retriable(n)' \subseteq Retriable(n) \ {h}
    /\ deliveries'[n] = deliveries[n] /\ attempts'[n] = attempts[n]

Accounted(n) ==
    \/ Quiet(n) \/ Faulty(n)
    \/ \E h \in Handlers : Claims(h, n) \/ Delivers(h, n) \/ Returns(h, n)

LEMMA FaultsAdvance ==
    ASSUME TypeOK, [Next]_vars
    PROVE  faults' = faults \/ faults' = faults + 1
<1>1. ServiceNext => faults' = faults \/ faults' = faults + 1
  BY DEF ServiceNext, RequestStep, Create, CreateFails, PublishForDelivery,
         PublishForDeliveryFails, MarkQueued, MarkQueuedFails, AbandonRequest, Cancel, Fault, NoFault
<1>2. SchedulerNext => faults' = faults \/ faults' = faults + 1
  BY DEF SchedulerNext, TickStep, SchedulerCrash, QueueDue, QueueDueFails, RepublishStale,
         RepublishStaleFails, RecoverStale, RecoverStaleFails, FinishTick, RepublishRow, Touch,
         TouchFails, PublishRow, PublishRowFails, Fault, NoFault
<1>3. \A h \in Handlers : HandlerStep(h) => faults' = faults \/ faults' = faults + 1
  BY DEF HandlerStep, Claim, DropUnclaimable, ClaimFails, StartSend, ReleaseThrottled,
         SendAccepted, SendRefused, SendResponseLost, RecordOutcome, OutcomeRejected,
         OutcomeFails, PublishRetryMessage, PublishRetryFails, PublishDeadLetterMessage,
         PublishDeadLetterFails, Ack, Nack, Fault, NoFault
<1>4. WorkerNext => faults' = faults \/ faults' = faults + 1
  BY <1>3 DEF WorkerNext, Receive, LoseConnection, Restart, Crash, Fault, NoFault
<1>5. ClockNext => faults' = faults \/ faults' = faults + 1
  BY DEF ClockNext, ClockStep, AgeRow, AgeHeldRow, Fault, NoFault
<1> QED BY <1>1, <1>2, <1>4, <1>5 DEF Next, vars

LEMMA AccountTypes ==
    ASSUME TypeOK, NEW n \in Notifications
    PROVE  /\ IsFiniteSet(Sending(n)) /\ IsFiniteSet(Retriable(n))
           /\ Cardinality(Sending(n)) \in Nat /\ Cardinality(Retriable(n)) \in Nat
           /\ Chance(n) \in 0 .. 1 /\ AtCap(n) \in Nat
           /\ deliveries[n] \in Nat /\ attempts[n] \in Nat /\ faults \in Nat
<1>1. Sending(n) \subseteq Handlers /\ Retriable(n) \subseteq Handlers
  BY DEF Sending, Retriable
<1>2. IsFiniteSet(Sending(n)) /\ IsFiniteSet(Retriable(n))
  BY <1>1, FS_Subset, WorkerAssumption
<1>3. deliveries[n] \in Nat /\ attempts[n] \in Nat /\ faults \in Nat
  BY FaultsAssumption DEF TypeOK, WorkerTypeOK, StoreTypeOK, FaultsTypeOK
<1>4. AtCap(n) \in Nat
  BY <1>3, WorkerAssumption DEF AtCap
<1>5. Chance(n) \in 0 .. 1
  BY DEF Chance
<1> QED BY <1>2, <1>3, <1>4, <1>5, FS_CardinalityType

LEMMA SetGrows ==
    ASSUME NEW X, IsFiniteSet(X), NEW x, NEW Y, Y \subseteq X \cup {x}
    PROVE  Cardinality(Y) <= Cardinality(X) + 1
<1>1. /\ IsFiniteSet(X \cup {x})
      /\ Cardinality(X \cup {x}) = IF x \in X THEN Cardinality(X) ELSE Cardinality(X) + 1
  BY FS_AddElement
<1>2. IsFiniteSet(Y) /\ Cardinality(Y) <= Cardinality(X \cup {x})
  BY <1>1, FS_Subset
<1>3. Cardinality(X) \in Nat /\ Cardinality(Y) \in Nat
  BY <1>2, FS_CardinalityType
<1> QED BY <1>1, <1>2, <1>3

LEMMA SetShrinks ==
    ASSUME NEW X, IsFiniteSet(X), NEW x \in X, NEW Y, Y \subseteq X \ {x}
    PROVE  Cardinality(Y) <= Cardinality(X) - 1
<1>1. IsFiniteSet(X \ {x}) /\ Cardinality(X \ {x}) = Cardinality(X) - 1
  BY FS_RemoveElement
<1>2. Cardinality(Y) <= Cardinality(X \ {x})
  BY <1>1, FS_Subset
<1> QED BY <1>1, <1>2

\* Terms that do not grow stay within a bound that does not fall.
LEMMA SumKept ==
    \A a, b, c, a1, b1, c1, f, f1 \in Nat :
        a + b + c <= 1 + f /\ a1 <= a /\ b1 <= b /\ c1 <= c /\ f <= f1
            => a1 + b1 + c1 <= 1 + f1
OBVIOUS

LEMMA AccountKept ==
    ASSUME TypeOK, TypeOK', NEW n \in Notifications, Accounted(n),
           deliveries[n] + Chance(n) + Cardinality(Sending(n)) <= 1 + faults,
           AtCap(n) + Chance(n) + Cardinality(Retriable(n)) <= 1 + faults
    PROVE  /\ (deliveries[n] + Chance(n) + Cardinality(Sending(n)) <= 1 + faults)'
           /\ (AtCap(n) + Chance(n) + Cardinality(Retriable(n)) <= 1 + faults)'
<1> DEFINE S == Cardinality(Sending(n))  S1 == Cardinality(Sending(n)')
           R == Cardinality(Retriable(n))  R1 == Cardinality(Retriable(n)')
           C == Chance(n)  C1 == Chance(n)'
           A == AtCap(n)  A1 == AtCap(n)'
<1>1. /\ IsFiniteSet(Sending(n)) /\ IsFiniteSet(Retriable(n))
      /\ S \in Nat /\ R \in Nat /\ C \in 0 .. 1 /\ A \in Nat
      /\ deliveries[n] \in Nat /\ attempts[n] \in Nat /\ faults \in Nat
  BY AccountTypes
<1>2. /\ S1 \in Nat /\ R1 \in Nat /\ C1 \in 0 .. 1 /\ A1 \in Nat
      /\ deliveries'[n] \in Nat /\ attempts'[n] \in Nat /\ faults' \in Nat
  <2>1. Sending(n)' \subseteq Handlers /\ Retriable(n)' \subseteq Handlers
    BY DEF Sending, Retriable
  <2>2. S1 \in Nat /\ R1 \in Nat
    BY <2>1, FS_Subset, FS_CardinalityType, WorkerAssumption
  <2>3. deliveries'[n] \in Nat /\ attempts'[n] \in Nat /\ faults' \in Nat
    BY FaultsAssumption DEF TypeOK, WorkerTypeOK, StoreTypeOK, FaultsTypeOK
  <2>4. A1 \in Nat
    BY <2>3, WorkerAssumption DEF AtCap
  <2>5. C1 \in 0 .. 1
    BY DEF Chance
  <2> QED BY <2>2, <2>3, <2>4, <2>5
<1>3. Sending(n)' \subseteq Sending(n) => S1 <= S
  BY <1>1, FS_Subset
<1>4. Retriable(n)' \subseteq Retriable(n) => R1 <= R
  BY <1>1, FS_Subset
<1>5. (Free(n)' => Free(n)) => C1 <= C
  BY DEF Chance
<1>6. /\ attempts'[n] = attempts[n] => A1 = A
      /\ attempts'[n] = attempts[n] + 1 =>
            A1 = IF attempts'[n] < MaxAttempts THEN A ELSE A + 1
  BY <1>1, <1>2, WorkerAssumption DEF AtCap
<1>7. SUFFICES deliveries'[n] + C1 + S1 <= 1 + faults' /\ A1 + C1 + R1 <= 1 + faults'
  OBVIOUS
<1> HIDE DEF S, S1, R, R1, C, C1, A, A1
<1>8. deliveries[n] + C + S <= 1 + faults /\ A + C + R <= 1 + faults
  BY DEF S, R, C, A
<1>9. CASE Quiet(n)
  <2>1. S1 <= S /\ R1 <= R /\ C1 <= C /\ A1 = A /\ deliveries'[n] = deliveries[n]
        /\ faults' >= faults
    BY <1>3, <1>4, <1>5, <1>6, <1>9 DEF Quiet
  <2>2. deliveries'[n] + C1 + S1 <= 1 + faults'
    BY <1>1, <1>2, <1>8, <2>1, SumKept
  <2>3. A1 + C1 + R1 <= 1 + faults'
    <3>1. /\ A \in Nat /\ C \in Nat /\ R \in Nat /\ faults \in Nat
          /\ A1 \in Nat /\ C1 \in Nat /\ R1 \in Nat /\ faults' \in Nat
      BY <1>1, <1>2
    <3>2. A1 <= A
      BY <2>1, <3>1
    <3> QED BY <1>8, <2>1, <3>1, <3>2, SumKept
  <2> QED BY <2>2, <2>3
<1>10. CASE Faulty(n)
  <2>1. S1 <= S /\ R1 <= R /\ faults' = faults + 1
    BY <1>3, <1>4, <1>10 DEF Faulty
  <2>2. CASE deliveries'[n] = deliveries[n] /\ attempts'[n] = attempts[n]
    BY <1>1, <1>2, <1>6, <1>8, <2>1, <2>2
  <2>3. CASE deliveries'[n] = deliveries[n] /\ attempts'[n] = attempts[n] + 1 /\ Free(n)
    <3>1. C = 1
      BY <2>3 DEF C, Chance
    <3>2. A1 <= A + 1
      BY <1>1, <1>2, <1>6, <2>3
    <3> QED BY <1>1, <1>2, <1>8, <2>1, <2>3, <3>1, <3>2
  <2>4. CASE deliveries'[n] = deliveries[n] + 1 /\ attempts'[n] = attempts[n] /\ (Free(n)' => Free(n))
    BY <1>1, <1>2, <1>5, <1>6, <1>8, <2>1, <2>4
  <2> QED BY <1>10, <2>2, <2>3, <2>4 DEF Faulty
<1>11. ASSUME NEW h \in Handlers, Claims(h, n)
       PROVE  deliveries'[n] + C1 + S1 <= 1 + faults' /\ A1 + C1 + R1 <= 1 + faults'
  <2>1. C = 1 /\ C1 = 0
    BY <1>11 DEF Claims, C, C1, Chance
  <2>2. S1 <= S + 1
    BY <1>1, <1>11, SetGrows DEF Claims, S, S1
  <2>3. R1 <= R + 1
    BY <1>1, <1>11, SetGrows DEF Claims, R, R1
  <2>4. A1 + R1 <= A + R + 1
    BY <1>1, <1>2, <1>4, <1>6, <1>11, <2>3, WorkerAssumption DEF Claims
  <2> QED BY <1>1, <1>2, <1>8, <1>11, <2>1, <2>2, <2>4 DEF Claims
<1>12. ASSUME NEW h \in Handlers, Delivers(h, n)
       PROVE  deliveries'[n] + C1 + S1 <= 1 + faults' /\ A1 + C1 + R1 <= 1 + faults'
  <2>1. S1 <= S - 1
    BY <1>1, <1>12, SetShrinks DEF Delivers, S, S1
  <2> QED BY <1>1, <1>2, <1>4, <1>5, <1>6, <1>8, <1>12, <2>1 DEF Delivers
<1>13. ASSUME NEW h \in Handlers, Returns(h, n)
       PROVE  deliveries'[n] + C1 + S1 <= 1 + faults' /\ A1 + C1 + R1 <= 1 + faults'
  <2>1. h \in Sending(n)
    BY <1>13 DEF Returns, Retriable
  <2>2. S1 <= S - 1 /\ R1 <= R - 1
    BY <1>1, <1>13, <2>1, SetShrinks DEF Returns, S, S1, R, R1
  <2> QED BY <1>1, <1>2, <1>6, <1>8, <1>13, <2>2 DEF Returns
<1> QED BY <1>9, <1>10, <1>11, <1>12, <1>13 DEF Accounted

\* Requests, sweeps and the clock free no row by themselves.
LEMMA StatementsKeepAccount ==
    ASSUME StoreTypeOK, NEW n \in Notifications, NEW m \in Notifications, UNCHANGED handlerVars
    PROVE  /\ \A i \in InitialStatuses : InsertRow(m, i) => (Free(n)' => Free(n))
           /\ \A to : \A from \in SUBSET {"pending", "scheduled", "queued"} :
                GuardedUpdate(m, to, from) => (Free(n)' => Free(n))
           /\ TouchQueued(m) \/ BecomeDue(m) \/ UNCHANGED storeVars => (Free(n)' => Free(n))
           /\ BecomeStale(m) /\ (status[m] = "processing" => Holders(m) = {})
                => (Free(n)' => Free(n))
           /\ \A S \in SUBSET Notifications :
                ClaimDueForQueue(S) \/ ListStaleQueued(S) \/ RecoverStaleProcessing(S)
                => (Free(n)' => Free(n))
<1> USE DEF Free, StoreTypeOK
<1>1. Holders(n)' = {} <=> Holders(n) = {}
  BY DEF Holders, handlerVars
<1>2. ASSUME NEW i \in InitialStatuses, InsertRow(m, i) PROVE Free(n)' => Free(n)
  BY <1>1, <1>2 DEF InsertRow
<1>3. ASSUME NEW to, NEW from \in SUBSET {"pending", "scheduled", "queued"}, GuardedUpdate(m, to, from)
      PROVE  Free(n)' => Free(n)
  BY <1>1, <1>3 DEF GuardedUpdate
<1>4. ASSUME TouchQueued(m) \/ BecomeDue(m) \/ UNCHANGED storeVars PROVE Free(n)' => Free(n)
  BY <1>1, <1>4 DEF TouchQueued, BecomeDue, storeVars
<1>5. ASSUME BecomeStale(m), status[m] = "processing" => Holders(m) = {} PROVE Free(n)' => Free(n)
  <2>1. CASE m = n
    BY <1>1, <1>5, <2>1 DEF BecomeStale
  <2>2. CASE m # n
    BY <1>1, <1>5, <2>2 DEF BecomeStale
  <2> QED BY <2>1, <2>2
<1>6. ASSUME NEW S \in SUBSET Notifications,
             ClaimDueForQueue(S) \/ ListStaleQueued(S) \/ RecoverStaleProcessing(S)
      PROVE  Free(n)' => Free(n)
  <2>1. CASE ListStaleQueued(S)
    BY <1>1, <2>1 DEF ListStaleQueued, storeVars
  <2>2. CASE n \notin S
    BY <1>1, <1>6, <2>2
    DEF ClaimDueForQueue, ListStaleQueued, RecoverStaleProcessing, UpdateRows, storeVars
  <2>3. CASE n \in S /\ (ClaimDueForQueue(S) \/ RecoverStaleProcessing(S))
    BY <2>3 DEF ClaimDueForQueue, RecoverStaleProcessing, LimitedTo, DueRows, StaleProcessingRows
  <2> QED BY <1>6, <2>1, <2>2, <2>3
<1> QED BY <1>2, <1>3, <1>4, <1>5, <1>6

\* Nor do they count an attempt.
LEMMA OnlyClaimsCount ==
    (ServiceNext \/ SchedulerNext \/ ClockNext) => UNCHANGED attempts
<1>1. ServiceNext => UNCHANGED attempts
  BY DEF ServiceNext, RequestStep, Create, CreateFails, PublishForDelivery,
         PublishForDeliveryFails, MarkQueued, MarkQueuedFails, AbandonRequest, Cancel,
         UpdateRejected, GuardedUpdate, InsertRow, storeVars
<1>2. SchedulerNext => UNCHANGED attempts
  BY DEF SchedulerNext, TickStep, SchedulerCrash, QueueDue, QueueDueFails, RepublishStale,
         RepublishStaleFails, RecoverStale, RecoverStaleFails, FinishTick, RepublishRow, Touch,
         TouchFails, PublishRow, PublishRowFails, ClaimDueForQueue, ListStaleQueued,
         RecoverStaleProcessing, UpdateRows, TouchQueued, storeVars
<1>3. ClockNext => UNCHANGED attempts
  BY DEF ClockNext, ClockStep, AgeRow, AgeHeldRow, BecomeDue, BecomeStale, storeVars
<1> QED BY <1>1, <1>2, <1>3

LEMMA OutsideAccounted ==
    ASSUME TypeOK, [Next]_vars, ServiceNext \/ SchedulerNext \/ ClockNext, UNCHANGED workerVars,
           NEW n \in Notifications
    PROVE  Accounted(n)
<1>1. StoreTypeOK /\ UNCHANGED handlerVars /\ UNCHANGED attempts /\ UNCHANGED deliveries
  BY OnlyClaimsCount DEF TypeOK, workerVars
<1>2. Sending(n)' \subseteq Sending(n) /\ Retriable(n)' \subseteq Retriable(n)
  BY <1>1 DEF Sending, Retriable, handlerVars
<1>3. faults' \in {faults, faults + 1} /\ faults' >= faults
  BY FaultsAdvance, FaultsAssumption DEF TypeOK, FaultsTypeOK
<1>4. CASE Free(n)' => Free(n)
  BY <1>1, <1>2, <1>3, <1>4 DEF Accounted, Quiet
<1>5. ASSUME UNCHANGED storeVars PROVE Free(n)' => Free(n)
  BY <1>1, <1>5, StatementsKeepAccount
<1>6. CASE ServiceNext
  <2>1. /\ {"pending"} \in SUBSET {"pending", "scheduled", "queued"}
        /\ CancellableStatuses \in SUBSET {"pending", "scheduled", "queued"}
    BY StatusTable DEF CancellableStatuses
  <2>2. Free(n)' => Free(n)
    BY <1>1, <1>5, <1>6, <2>1, StatementsKeepAccount
    DEF ServiceNext, RequestStep, Create, CreateFails, PublishForDelivery,
        PublishForDeliveryFails, MarkQueued, MarkQueuedFails, AbandonRequest, Cancel,
        UpdateRejected
  <2> QED BY <1>4, <2>2
<1>7. CASE SchedulerNext
  <2>1. Free(n)' => Free(n)
    BY <1>1, <1>5, <1>7, StatementsKeepAccount
    DEF SchedulerNext, TickStep, SchedulerCrash, QueueDue, QueueDueFails, RepublishStale,
        RepublishStaleFails, RecoverStale, RecoverStaleFails, FinishTick, RepublishRow, Touch,
        TouchFails, PublishRow, PublishRowFails
  <2> QED BY <1>4, <2>1
<1>8. ASSUME NEW m \in Notifications, ClockStep(m) PROVE Accounted(n)
  <2>1. CASE AgeHeldRow(m)
    <3>1. faults' = faults + 1
      BY <2>1 DEF AgeHeldRow, Fault
    <3> QED BY <1>1, <1>2, <3>1 DEF Accounted, Faulty
  <2>2. CASE ~AgeHeldRow(m)
    <3>1. Free(n)' => Free(n)
      BY <1>1, <1>5, <1>8, <2>2, StatementsKeepAccount DEF ClockStep, AgeRow
    <3> QED BY <1>4, <3>1
  <2> QED BY <2>1, <2>2
<1> QED BY <1>6, <1>7, <1>8 DEF ClockNext

\* A handler's step concerns the row of its message alone.
LEMMA OtherRowsAccounted ==
    ASSUME TypeOK, NEW h \in Handlers, HandlerStep(h), [Next]_vars,
           NEW n \in Notifications, message[h] # n
    PROVE  Quiet(n)
<1>1. StoreTypeOK /\ WorkerTypeOK
  BY DEF TypeOK
<1>2. \A g \in Handlers : g # h =>
        at'[g] = at[g] /\ message'[g] = message[g] /\ claimedAttempts'[g] = claimedAttempts[g]
  BY <1>1, OthersStay
<1>3. message'[h] # n
  BY <1>1, WorkerAssumption
  DEF HandlerStep, Claim, DropUnclaimable, ClaimFails, StartSend, ReleaseThrottled,
      SendAccepted, SendRefused, SendResponseLost, RecordOutcome, OutcomeRejected,
      OutcomeFails, PublishRetryMessage, PublishRetryFails, PublishDeadLetterMessage,
      PublishDeadLetterFails, Ack, Nack, Goto, Settle, WorkerTypeOK
<1>4. /\ Sending(n)' \subseteq Sending(n) /\ Retriable(n)' \subseteq Retriable(n)
      /\ Holders(n)' = {} => Holders(n) = {}
  BY <1>2, <1>3 DEF Sending, Retriable, Holders
<1>5. deliveries'[n] = deliveries[n]
  BY <1>1
  DEF HandlerStep, Claim, DropUnclaimable, ClaimFails, StartSend, ReleaseThrottled,
      SendAccepted, SendRefused, SendResponseLost, RecordOutcome, OutcomeRejected,
      OutcomeFails, PublishRetryMessage, PublishRetryFails, PublishDeadLetterMessage,
      PublishDeadLetterFails, Ack, Nack, Goto, Settle, WorkerTypeOK
<1>6. status'[n] = status[n] /\ stale'[n] = stale[n] /\ attempts'[n] = attempts[n]
  BY <1>1
  DEF HandlerStep, Claim, DropUnclaimable, ClaimFails, StartSend, ReleaseThrottled,
      SendAccepted, SendRefused, SendResponseLost, RecordOutcome, OutcomeRejected,
      OutcomeFails, PublishRetryMessage, PublishRetryFails, PublishDeadLetterMessage,
      PublishDeadLetterFails, Ack, Nack, ClaimForProcessing, UpdateRejected, GuardedUpdate,
      storeVars, StoreTypeOK
<1>7. faults' >= faults
  BY FaultsAdvance, FaultsAssumption DEF TypeOK, FaultsTypeOK
<1> QED BY <1>4, <1>5, <1>6, <1>7 DEF Quiet, Free

LEMMA OwnRowAccounted ==
    ASSUME TypeOK, RetriesBelowCap, NEW h \in Handlers, HandlerStep(h), [Next]_vars,
           NEW n \in Notifications, message[h] = n
    PROVE  Accounted(n)
<1>1. StoreTypeOK /\ WorkerTypeOK
  BY DEF TypeOK
<1>2. \A g \in Handlers : g # h =>
        at'[g] = at[g] /\ message'[g] = message[g] /\ claimedAttempts'[g] = claimedAttempts[g]
  BY <1>1, OthersStay
<1>3. faults' \in {faults, faults + 1} /\ faults' >= faults
  BY FaultsAdvance, FaultsAssumption DEF TypeOK, FaultsTypeOK
\* Unless h claims, it is the one handler whose part in the account may end.
<1>4. ASSUME at'[h] = "idle" \/ (message'[h] = n /\ claimedAttempts'[h] = claimedAttempts[h]),
             at'[h] \in {"throttle", "send", "markRetrying"} =>
                at[h] \in {"throttle", "send", "markRetrying"}
      PROVE  Sending(n)' \subseteq Sending(n) /\ Retriable(n)' \subseteq Retriable(n)
  BY <1>2, <1>4 DEF Sending, Retriable
<1>5. ASSUME (at'[h] \in HoldingClaim /\ message'[h] = n) \/ status[n] # "processing"
      PROVE  UNCHANGED storeVars => (Free(n)' => Free(n))
  BY <1>5 DEF Free, Holders, storeVars
<1>6. CASE Claim(h)
  <2>1. /\ at'[h] = "throttle" /\ message'[h] = n /\ at[h] = "received"
        /\ claimedAttempts'[h] = attempts'[n] /\ attempts'[n] = attempts[n] + 1
        /\ status'[n] = "processing" /\ ~stale'[n] /\ status[n] \in ClaimableStatuses
        /\ deliveries'[n] = deliveries[n] /\ faults' = faults
    BY <1>1, <1>6 DEF Claim, ClaimForProcessing, StoreTypeOK, WorkerTypeOK, NoFault
  <2>2. Free(n)
    BY <2>1, StatusTable DEF Free, ClaimableStatuses
  <2>3. ~Free(n)'
    BY <2>1 DEF Free, Holders, HoldingClaim, Absent
  <2>4. Sending(n)' \subseteq Sending(n) \cup {h} /\ Retriable(n)' \subseteq Retriable(n) \cup {h}
    BY <1>2 DEF Sending, Retriable
  <2>5. ASSUME attempts'[n] >= MaxAttempts PROVE Retriable(n)' \subseteq Retriable(n)
    <3>1. ~(claimedAttempts'[h] < MaxAttempts)
      BY <1>1, <2>1, <2>5, WorkerAssumption DEF StoreTypeOK
    <3> QED BY <1>2, <3>1 DEF Sending, Retriable
  <2>6. Claims(h, n)
    BY <2>1, <2>2, <2>3, <2>4, <2>5 DEF Claims
  <2> QED BY <2>6 DEF Accounted
<1>7. CASE DropUnclaimable(h) \/ OutcomeRejected(h)
  <2>1. /\ at'[h] = "ack" /\ message'[h] = n /\ claimedAttempts'[h] = claimedAttempts[h]
        /\ UNCHANGED storeVars /\ UNCHANGED deliveries
        /\ at[h] = "received" \/ status[n] # "processing"
    BY <1>1, <1>7 DEF DropUnclaimable, OutcomeRejected, UpdateRejected, Goto, WorkerTypeOK
  <2>2. Free(n)' => Free(n)
    <3>1. CASE at[h] = "received"
      BY <1>2, <2>1, <3>1 DEF Free, Holders, HoldingClaim, storeVars
    <3> QED BY <1>5, <2>1, <3>1
  <2> QED BY <1>3, <1>4, <2>1, <2>2 DEF Accounted, Quiet, storeVars
<1>8. CASE ClaimFails(h)
  <2>1. /\ at'[h] = "nack" /\ message'[h] = n /\ claimedAttempts'[h] = claimedAttempts[h]
        /\ UNCHANGED deliveries /\ faults' = faults + 1
        /\ \/ UNCHANGED storeVars
           \/ attempts'[n] = attempts[n] + 1 /\ status[n] \in ClaimableStatuses
    BY <1>1, <1>8 DEF ClaimFails, ClaimForProcessing, Goto, Fault, WorkerTypeOK, StoreTypeOK
  <2>2. status[n] \in ClaimableStatuses => Free(n)
    BY StatusTable DEF Free, ClaimableStatuses
  <2> QED BY <1>4, <2>1, <2>2 DEF Accounted, Faulty, storeVars
<1>9. CASE StartSend(h) \/ SendRefused(h)
  <2>1. /\ at[h] \in {"throttle", "send"} /\ at'[h] \in {"send", "markRetrying", "markFailed"}
        /\ message'[h] = n /\ claimedAttempts'[h] = claimedAttempts[h]
        /\ UNCHANGED storeVars /\ UNCHANGED deliveries
    BY <1>1, <1>9 DEF StartSend, SendRefused, AfterFailure, Goto, WorkerTypeOK
  <2>2. Free(n)' => Free(n)
    BY <1>5, <2>1 DEF HoldingClaim
  <2> QED BY <1>3, <1>4, <2>1, <2>2 DEF Accounted, Quiet, storeVars
<1>10. CASE ReleaseThrottled(h) \/ OutcomeFails(h)
  <2>1. /\ at'[h] = "nack" /\ message'[h] = n /\ claimedAttempts'[h] = claimedAttempts[h]
        /\ UNCHANGED attempts /\ UNCHANGED deliveries /\ faults' = faults + 1
    BY <1>1, <1>10
    DEF ReleaseThrottled, OutcomeFails, GuardedUpdate, Goto, Fault, WorkerTypeOK, storeVars
  <2> QED BY <1>4, <2>1 DEF Accounted, Faulty
<1>11. CASE SendAccepted(h)
  <2>1. /\ at[h] = "send" /\ at'[h] = "markSent" /\ message'[h] = n
        /\ claimedAttempts'[h] = claimedAttempts[h]
        /\ UNCHANGED storeVars /\ faults' = faults /\ deliveries'[n] = deliveries[n] + 1
    BY <1>1, <1>11 DEF SendAccepted, WorkerTypeOK, NoFault
  <2>2. Free(n)' => Free(n)
    BY <1>5, <2>1 DEF HoldingClaim
  <2>3. h \in Sending(n) /\ Sending(n)' \subseteq Sending(n) \ {h}
    BY <1>2, <2>1 DEF Sending
  <2>4. Delivers(h, n)
    BY <1>4, <2>1, <2>2, <2>3 DEF Delivers, storeVars
  <2> QED BY <2>4 DEF Accounted
<1>12. CASE SendResponseLost(h)
  <2>1. /\ at[h] = "send" /\ at'[h] \in {"markRetrying", "markFailed"} /\ message'[h] = n
        /\ claimedAttempts'[h] = claimedAttempts[h]
        /\ UNCHANGED storeVars /\ faults' = faults + 1 /\ deliveries'[n] = deliveries[n] + 1
    BY <1>1, <1>12 DEF SendResponseLost, AfterFailure, WorkerTypeOK, Fault
  <2>2. Free(n)' => Free(n)
    BY <1>5, <2>1 DEF HoldingClaim
  <2> QED BY <1>4, <2>1, <2>2 DEF Accounted, Faulty, storeVars
<1>13. CASE RecordOutcome(h)
  <2>1. /\ at[h] \in {"markSent", "markRetrying", "markFailed"}
        /\ at'[h] = Outcome[at[h]].next /\ message'[h] = n
        /\ claimedAttempts'[h] = claimedAttempts[h]
        /\ status'[n] = Outcome[at[h]].status
        /\ UNCHANGED attempts /\ UNCHANGED deliveries /\ faults' = faults
    BY <1>1, <1>13
    DEF RecordOutcome, GuardedUpdate, Goto, WorkerTypeOK, StoreTypeOK, NoFault, Outcome
  <2>2. CASE at[h] = "markRetrying"
    <3>1. at'[h] = "publishRetry" /\ claimedAttempts[h] < MaxAttempts
      BY <2>1, <2>2 DEF Outcome, RetriesBelowCap
    <3>2. /\ h \in Retriable(n)
          /\ Sending(n)' \subseteq Sending(n) \ {h} /\ Retriable(n)' \subseteq Retriable(n) \ {h}
      BY <1>2, <2>1, <2>2, <3>1 DEF Sending, Retriable
    <3>3. Returns(h, n)
      BY <2>1, <3>2 DEF Returns
    <3> QED BY <3>3 DEF Accounted
  <2>3. CASE at[h] \in {"markSent", "markFailed"}
    <3>1. at'[h] \in {"ack", "deadLetter"} /\ status'[n] \in {"sent", "failed"}
      BY <2>1, <2>3 DEF Outcome
    <3>2. ~Free(n)'
      BY <3>1 DEF Free, Absent
    <3>3. Sending(n)' \subseteq Sending(n) /\ Retriable(n)' \subseteq Retriable(n)
      BY <1>4, <2>1, <3>1
    <3> QED BY <1>3, <2>1, <3>2, <3>3 DEF Accounted, Quiet
  <2> QED BY <2>1, <2>2, <2>3
<1>14. CASE \/ PublishRetryMessage(h) \/ PublishRetryFails(h)
            \/ PublishDeadLetterMessage(h) \/ PublishDeadLetterFails(h)
            \/ Ack(h) \/ Nack(h)
  <2>1. /\ at[h] \notin HoldingClaim /\ at'[h] \in {"ack", "nack", "idle"}
        /\ UNCHANGED storeVars /\ UNCHANGED deliveries
    BY <1>1, <1>14
    DEF PublishRetryMessage, PublishRetryFails, PublishDeadLetterMessage, PublishDeadLetterFails,
        Ack, Nack, Goto, Settle, WorkerTypeOK, HoldingClaim
  <2>2. at'[h] = "idle" \/ (message'[h] = n /\ claimedAttempts'[h] = claimedAttempts[h])
    BY <1>1, <1>14
    DEF PublishRetryMessage, PublishRetryFails, PublishDeadLetterMessage, PublishDeadLetterFails,
        Ack, Nack, Goto, Settle, WorkerTypeOK
  <2>3. Free(n)' => Free(n)
    BY <1>2, <2>1 DEF Free, Holders, HoldingClaim, storeVars
  <2>4. Sending(n)' \subseteq Sending(n) /\ Retriable(n)' \subseteq Retriable(n)
    BY <1>4, <2>1, <2>2
  <2> QED BY <1>3, <2>1, <2>3, <2>4 DEF Accounted, Quiet, storeVars
<1> QED
  BY <1>6, <1>7, <1>8, <1>9, <1>10, <1>11, <1>12, <1>13, <1>14 DEF HandlerStep

LEMMA StepAccounted ==
    ASSUME TypeOK, RetriesBelowCap, [Next]_vars, NEW n \in Notifications
    PROVE  Accounted(n)
<1>1. StoreTypeOK /\ WorkerTypeOK /\ faults \in Nat
  BY FaultsAssumption DEF TypeOK, FaultsTypeOK
<1>2. CASE (ServiceNext \/ SchedulerNext \/ ClockNext) /\ UNCHANGED workerVars
  BY <1>2, OutsideAccounted
<1>3. ASSUME NEW h \in Handlers, HandlerStep(h) PROVE Accounted(n)
  BY <1>3, OtherRowsAccounted, OwnRowAccounted DEF Accounted
\* The rest leaves the rows alone.
<1>4. ASSUME UNCHANGED storeVars, UNCHANGED deliveries
      PROVE  status'[n] = status[n] /\ stale'[n] = stale[n] /\ attempts'[n] = attempts[n]
             /\ deliveries'[n] = deliveries[n]
  BY <1>4 DEF storeVars
<1>5. ASSUME UNCHANGED handlerVars, UNCHANGED storeVars, UNCHANGED deliveries, faults' >= faults
      PROVE  Accounted(n)
  BY <1>4, <1>5 DEF Accounted, Quiet, Free, Holders, Sending, Retriable, handlerVars
<1>6. ASSUME NEW h \in Handlers, NEW m \in Notifications, Receive(h, m) PROVE Accounted(n)
  <2>1. /\ at[h] = "idle" /\ at'[h] = "received" /\ claimedAttempts' = claimedAttempts
        /\ \A g \in Handlers : g # h => at'[g] = at[g] /\ message'[g] = message[g]
        /\ UNCHANGED storeVars /\ UNCHANGED deliveries /\ faults' = faults
    BY <1>1, <1>6 DEF Receive, WorkerTypeOK, NoFault
  <2>2. Sending(n)' \subseteq Sending(n) /\ Retriable(n)' \subseteq Retriable(n)
    BY <2>1 DEF Sending, Retriable
  <2>3. Free(n)' => Free(n)
    BY <1>4, <2>1 DEF Free, Holders, HoldingClaim
  <2> QED BY <1>1, <1>4, <2>1, <2>2, <2>3 DEF Accounted, Quiet
<1>7. ASSUME NEW p \in Processes, Crash(p) PROVE Accounted(n)
  <2>1. /\ UNCHANGED storeVars /\ UNCHANGED deliveries /\ faults' = faults + 1
        /\ \A g \in Handlers :
             \/ at'[g] = "idle"
             \/ at'[g] = at[g] /\ message'[g] = message[g] /\ claimedAttempts'[g] = claimedAttempts[g]
    BY <1>1, <1>7 DEF Crash, WorkerTypeOK, Fault
  <2>2. Sending(n)' \subseteq Sending(n) /\ Retriable(n)' \subseteq Retriable(n)
    BY <2>1 DEF Sending, Retriable
  <2> QED BY <1>4, <2>1, <2>2 DEF Accounted, Faulty
<1>8. ASSUME NEW p \in Processes, LoseConnection(p) \/ Restart(p) PROVE Accounted(n)
  BY <1>1, <1>5, <1>8, FaultsAdvance DEF LoseConnection, Restart
<1>9. CASE WorkerNext
  BY <1>3, <1>6, <1>7, <1>8, <1>9 DEF WorkerNext
<1>10. CASE UNCHANGED vars
  BY <1>1, <1>5, <1>10 DEF vars, workerVars
<1> QED BY <1>2, <1>9, <1>10 DEF Next

LEMMA AccountsStep ==
    ASSUME TypeOK, RetriesBelowCap, DeliveriesAccounted, AttemptsAccounted, [Next]_vars
    PROVE  DeliveriesAccounted' /\ AttemptsAccounted'
<1>1. TypeOK'
  BY StepType
<1>2. ASSUME NEW n \in Notifications
      PROVE  /\ (deliveries[n] + Chance(n) + Cardinality(Sending(n)) <= 1 + faults)'
             /\ (AtCap(n) + Chance(n) + Cardinality(Retriable(n)) <= 1 + faults)'
  BY <1>1, StepAccounted, AccountKept DEF DeliveriesAccounted, AttemptsAccounted
<1> QED BY <1>2 DEF DeliveriesAccounted, AttemptsAccounted

LEMMA InitAccounted == Init => RetriesBelowCap /\ DeliveriesAccounted /\ AttemptsAccounted
<1> SUFFICES ASSUME Init PROVE RetriesBelowCap /\ DeliveriesAccounted /\ AttemptsAccounted
  OBVIOUS
<1>1. RetriesBelowCap
  BY DEF Init, WorkerInit, RetriesBelowCap
<1>2. ASSUME NEW n \in Notifications
      PROVE  /\ Sending(n) = {} /\ Retriable(n) = {} /\ Chance(n) = 1 /\ AtCap(n) = 0
             /\ deliveries[n] = 0 /\ faults = 0
  BY WorkerAssumption
  DEF Init, WorkerInit, StoreInit, FaultsInit, Sending, Retriable, Chance, Free, AtCap
<1>3. Cardinality({}) = 0
  BY FS_EmptySet
<1> QED BY <1>1, <1>2, <1>3 DEF DeliveriesAccounted, AttemptsAccounted

\* A notification the provider accepted is sent again only if a fault forced it:
\* redelivered and duplicate messages, overlapping sweeps, retries and requeues
\* hand out one claim at a time, and a claim is good for one delivery.
THEOREM DuplicatesCostFaults == Spec => []DuplicatesNeedFaults
<1>1. TypeOK /\ DeliveriesAccounted => DuplicatesNeedFaults
  <2> SUFFICES ASSUME TypeOK, DeliveriesAccounted, NEW n \in Notifications
               PROVE  deliveries[n] <= 1 + faults
    BY DEF DuplicatesNeedFaults
  <2>1. deliveries[n] + Chance(n) + Cardinality(Sending(n)) <= 1 + faults
    BY DEF DeliveriesAccounted
  <2> QED BY <2>1, AccountTypes
<1>2. TypeOK /\ RetriesBelowCap /\ DeliveriesAccounted /\ AttemptsAccounted /\ [Next]_vars
      => RetriesBelowCap' /\ DeliveriesAccounted' /\ AttemptsAccounted'
  BY RetriesBelowCapStep, AccountsStep
<1> QED BY <1>1, <1>2, TypeCorrect, InitAccounted, PTL DEF Spec

\* MAX_DELIVERY_ATTEMPTS caps the attempts up to one more per fault, though the
\* cap is only looked at after a failed send.
THEOREM AttemptsCapped == Spec => []AttemptsCappedUpToFaults
<1>1. TypeOK /\ AttemptsAccounted => AttemptsCappedUpToFaults
  <2> SUFFICES ASSUME TypeOK, AttemptsAccounted, NEW n \in Notifications
               PROVE  attempts[n] <= MaxAttempts + faults
    BY DEF AttemptsCappedUpToFaults
  <2>1. AtCap(n) + Chance(n) + Cardinality(Retriable(n)) <= 1 + faults
    BY DEF AttemptsAccounted
  <2>2. AtCap(n) <= 1 + faults
    BY <2>1, AccountTypes
  <2> QED BY <2>2, AccountTypes, WorkerAssumption DEF AtCap
<1>2. TypeOK /\ RetriesBelowCap /\ DeliveriesAccounted /\ AttemptsAccounted /\ [Next]_vars
      => RetriesBelowCap' /\ DeliveriesAccounted' /\ AttemptsAccounted'
  BY RetriesBelowCapStep, AccountsStep
<1> QED BY <1>1, <1>2, TypeCorrect, InitAccounted, PTL DEF Spec

=============================================================================
