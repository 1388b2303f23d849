# Formal verification of notifier

TLA+ models of the notification service in this repository, model-checked with
TLC and proved with TLAPS. The models are translations of the Go code and its
SQL; file and line of every definition are in `PROJECT.json` ("map").

## The system

A client asks for notifications over HTTP. A notification is one row in
Postgres; RabbitMQ carries only its ID. Everything that decides is a guarded
statement on the row.

| Component | State it keeps | Operations | Talks to |
|---|---|---|---|
| Lifecycle (`domain/notification.go`) | the transitions table | `CanTransition`, `StatusesAllowedInto` | used by everybody |
| Table (`storage/postgres/repository.go`) | status, attempts, timestamps, idempotency key | insert, COPY, guarded updates, claim, sweeps | atomic statements |
| Queues (`queue/rabbit`) | work queue per channel, TTL'd retry tiers, DLQ | confirmed publishes, expiry | publishers, consumers |
| Service (`service/notification.go`, `batch.go`) | request in progress | `Create`, `CreateBatch`, `Cancel` | table, then queues, then table |
| Scheduler (`scheduler/scheduler.go`) | rows of the current sweep | `queueDue`, `republishStale`, `recoverStaleProcessing` | table, then queues |
| Worker (`worker/worker.go`) | per handler: message and claimed row | `processNotification`, `handleSendFailure`, ack/nack | queue, table, provider, table, queue |
| Consumer supervision (`worker/consume.go`) | per queue: AMQP channel, `draining` flag; `lastPaused` | subscribe, poll the pause flag, drain, give up | queue, pause flag |
| Publisher (`queue/rabbit/publisher.go`) | mutex, confirmed channel, deferred confirms; a second mutex and channel for events; one connection for both | single publish, burst, event | every caller of the process, the broker |
| Send path (`worker.go`, `delivery/switchable.go`) | a token bucket per channel; cached override, its age, a mutex | wait, look up the override, call | handlers, table, provider |
| Runtime control (`control.go`, `dashboard.go`) | pause flag, provider override | read and set | worker |
| Live view (`api/hub.go`, `events.go`) | events queue, hub buffer, map of clients, send channel per client | register, fan out, drop, unregister, stop | every status change, best effort |
| HTTP API, templates, metrics, mock provider, configuration | – | – | – |

What makes it hard: no two of the steps "database, queue, provider" are one
transaction. Between any two of them another handler, a sweep, a cancel or a
crash may act; messages are redelivered and republished, so there are often
more messages than notifications; a confirm or an answer may be lost after the
effect took place; cutoffs on timestamps decide that somebody is dead who may be
slow. What must hold nevertheless:

- the lifecycle: every status change is legal, a cancelled row stays cancelled;
- the claim: one handler at a time holds a notification, so that the outcome it
  writes (the statements are not fenced by the attempt) is about its own attempt;
- delivery: sent implies accepted by the provider; accepted twice only after a
  fault; cancelled implies never accepted; nothing before its time;
- retries: bounded attempts; a retrying row always has a message on its way;
- progress: every notification ends sent, failed or cancelled;
- intake: one row per idempotency key, atomic batches, truthful answers;
- supervision: pausing and stopping lose no delivery and settle none twice, a pause
  takes hold, and no process lives on with a dead consumer;
- publishing: success is reported only of what the broker accepted, and a broker that
  stays silent holds up no more than it must;
- the send path: the provider sees a bounded number of calls in any window, a provider
  switch is followed within the cache's time, and handlers get through;
- live view: no panic on a closed channel, no gap in a stream, no handler left behind,
  and no slow client in the way of the others.

`PROJECT.json` lists the hazards at their lines.

## Modules

```
Domain ── NotificationStore ─┬─ Service ───┐
   │      Broker ────────────┼─ Scheduler ─┼─ Delivery ── MCDelivery
   │      Faults ────────────┴─ Worker ────┘      └─ DeliveryProofs ── DeliverySafetyProofs
   ├─ Lifecycle (abstract) <···· implemented by        └─ DeliveryClaimProofs
   └─ Intake ─┬─ MCIntake          Faults ── Consumers ─┬─ MCConsumers
              └─ IntakeProofs                           └─ ConsumersProofs

LiveView ─┬─ MCLiveView      RateLimiter ────┬─ SendPath ─┬─ MCSendPath
          └─ LiveViewProofs  ProviderTarget ─┘            └─ SendPathProofs

ConfirmedPublish (abstract) <···· implemented by Publisher ─┬─ MCPublisher
                                                            └─ PublisherProofs
```

- **Domain** is `domain/notification.go`: statuses, transitions, derived sets.
- **Lifecycle** is the promise: each row is inserted as pending or scheduled and
  then moves along the table only. Nothing else of the system appears in it.
- **NotificationStore** has one operator per statement that changes rows. The
  `WHERE` clause is the guard. Time is kept as what the statements compare:
  `stale[n]` (the row's `created_at` or `updated_at` is past
  `STALE_PENDING_AFTER`; any `updated_at = now()` clears it) and `due[n]`
  (`scheduled_at` has passed). A `LIMIT` takes any subset of its size, which
  includes the one the `ORDER BY` picks.
- **Broker** counts the messages per notification in work queue, tiers and DLQ.
  It keeps no order: priorities, requeues and tier expiry reorder anyway. A failed
  publish has either been routed or not.
- **Faults** names the kinds of fault the code is written to survive. Every fault
  action draws on one budget; a run says which kinds and how many.
- **Worker** follows `processNotification` and `handleSendFailure` call by call:

  | `at[h]` | the handler is before | code |
  |---|---|---|
  | `received` | the claim | worker.go:163 |
  | `throttle` | the limiter | worker.go:180 |
  | `send` | the provider's answer | worker.go:194 |
  | `markSent`, `markRetrying`, `markFailed` | the outcome write | 212, 244, 262 |
  | `publishRetry`, `deadLetter` | the publish | 251, 273 |
  | `ack`, `nack` | settling | consume.go:243, 249 |

  `LoseConnection` leaves the handlers running with a connection on which they can
  neither publish nor settle, `Restart` is the exit and restart after they finished,
  `Crash` stops a process anywhere. `deliveries` is a history variable.
- **Scheduler** runs `RunOnce`: `phase` is the sweep it is in, `todo` the rows it
  has still to publish, `toTouch` the row published but not yet touched. A failed
  call is logged and the tick goes on, as in the code.
- **Service** is `Create`, `publishForDelivery` and `Cancel`; the request is a
  process per notification, so its queued mark races with everybody.
- **Delivery** composes the three around table and queues, adds the clock and
  states the properties. A claimed row becomes stale only when nobody holds it,
  unless `worker.slow` is among the faults: then a live claim outlives the cutoff.
- **Intake** is creation in detail: idempotency keys, `CreateBatch` with its
  pre-check, decisions, COPY, collective publish and bulk mark. Of an item it
  keeps the key and whether it resolves, validates and is scheduled; a template
  lookup that fails for any reason makes an item unresolvable, as `template.go`
  does. A message is in the work queue or taken; workers and cancels only move rows.

- **Consumers** is one worker process seen from `consume.go`: `supervisor[q]` is the
  place in `superviseQueue` (`waiting` is `waitWhilePaused`; `consuming` the select of
  the supervise loop; `cancelling` lies between `draining.Store` and the end of
  `Cancel`; `draining` is `<-poolDone`). A check of the pause flag is two steps, the
  read (`reading[q]`) and the answer, so that it may be overtaken; `lastPaused` is
  shared by all supervisors, as in the code. A message has the broker's view (`broker`)
  and the client's (`hand`: in the delivery buffer or with a handler); a channel that
  the broker closes loses the buffer, not the handlers at work. What a handler does in
  between is in Worker. The module is not composed with Delivery: they meet in the
  settling of a message, which both have. That a handler ends is assumed here; what it
  rests on is in Worker and SendPath (see Fairness). An open channel or a subscription
  outside `consumeUntilPaused` is excluded by `TypeOK` (`ChannelIsSupervised`).

- **ConfirmedPublish** is what a publisher confirm promises: messages are submitted,
  accepted and answered; an answer says success only of an accepted message, and
  nothing is submitted after its answer.
- **Publisher** implements it, goroutine by goroutine: `at[c]` is the place of a
  caller, `holder` has `publisher.mu`, `sent[c]` and `settled[c]` are the loop indices of a
  burst (a single publish is a burst of one that keeps the mutex). `eventHolder` has
  `eventMu`, and an emitter's lock and its write are two steps. `connection` is what the
  confirmed channel and the event channel share: while it is `blocked`, as RabbitMQ does
  to publishing connections under a memory or disk alarm, a write waits with its mutex
  held; when it is `lost`, writes fail and pending confirms are resolved as nacks. The
  callers of one of the `Rounds` have just called, the others are `idle`; when each gets
  to run is open. A wait for a mutex ignores the context, as `sync.Mutex` does, and so
  does amqp091's publish. A deadline is a step that may be taken in any wait for a
  confirm; the scheduler's context (`Patient`) ends only when the process is stopped.
  Broker counts a publish as one step; the promise is why it may. An event
  channel that closes alone is left out: its emitters would only fail sooner.
- **RateLimiter** is the token bucket in ticks of one token. Wait reserves a token at
  once, a future one if need be. That a cancelled reservation gives its token back is left
  out: waits are only cancelled at shutdown, after which nobody reserves.
- **ProviderTarget** is the override row and the sender's cache of it. Time goes by the
  same ticks; `since[u]` is a history of how long ago `u` was in force. An answer of the
  database takes at most `Transit` ticks, but the database may leave a lookup without one.
- **SendPath** composes the two with the handlers of one channel: `waiting` is in
  `limiter.Wait` or before the sender's mutex, `looking` in `lookup.ProviderOverride` with
  the mutex, `sending` in the provider call. The limiter is one per channel and the mutex one
  per process: the handlers of the other channels, who contend for the mutex too, are left
  out. They would hold it as these do, for a read of the cache or for one lookup. `calls[w]` counts the calls begun in the
  current tick and the `w` before it.
- **LiveView** is one API process's event stream: the exclusive queue with
  `ConsumeEvents`, the hub's buffer and goroutine, and per client the handler `serveWS`
  with its channel. An unbuffered channel is a joint step of handler and hub. Closing is
  counted (`closes`), since closing twice or sending after it would panic. `handled` and
  `written` are histories.

Definitions called "defective variant" stand next to the definition they
alter; no specification uses them. They are bugs a change of the code could
plausibly introduce, and each is found by the property it is listed with.

## Runs

Passing runs:

| Run | Instance | Shows |
|---|---|---|
| `delivery_faults` | 1 notification, 2 handlers in 2 processes, 1 scheduler, 2 faults of any kind but `worker.slow` | claim exclusive; cancelled never delivered; sent was delivered; duplicates and attempts beyond the cap bounded by the faults |
| `delivery_batches` | 2 notifications, 2 schedulers, `LIMIT` 1, 1 handler, `MaxAttempts` 1, no faults | nothing before its time; every step implements Lifecycle |
| `delivery_settles` | `FairSpec`, 1 notification, 2 handlers in 2 processes, 1 fault of the kinds in its cfg, `worker.slow` included | every notification is eventually settled; until then a retrying row has a message; a dead letter belongs to one failed row |
| `intake` | 2 requests, single or batches of up to 2 items, 1 key, 1 fault | keys unique, answers name rows, batches atomic, no phantom messages, legal moves |
| `consumers` | `FairSpec`, 2 queues, 2 messages on one of them, prefetch 2, 1 handler per queue, 2 faults | a drain loses and repeats nothing; nothing is left when a supervisor waits or returns; a pause takes hold; a cleared flag delivers all; a stop ends the process |
| `publisher` | `FairSpec`; of the scheduler, a request, a burst of 2 and two emitters: scheduler, burst and an emitter; request and burst; scheduler, request and both emitters | confirms are honest (refinement); unless the connection stays blocked, only the scheduler's endless wait can block the others, a stop ends it, and events wait for each other and the connection only |
| `send_path` | `FairSpec`, 2 handlers, 1 token per second, 1 override URL, TTL 2 ticks | calls per window are bounded; calls follow a switch; only a hung lookup holds handlers up |
| `live_view` | `FairSpec`, 2 clients, one of them filtered, 2 notifications, 2 events, buffers of 1 | nothing is closed twice; no gaps; slow clients stall nobody; disconnect and shutdown return every handler |

Runs that find a statement of the repository not to hold:

| Run | Statement | What happens |
|---|---|---|
| `stranded_retry` | "the next tick retries" (scheduler.go:84), "rescues … rows stranded in `processing`" (README) | the recovered row is set to retrying, its publish fails, and no sweep selects retrying rows |
| `connection_loss` | "nack-redelivery of the original message recovers this" (worker.go:252) | the connection's end requeues the message; another worker drops it while the row is in processing; then the row becomes retrying and nobody carries it |
| `concurrent_sends` | "Concurrent workers can never double-deliver" (README), "Waiting after the claim is safe" (worker.go:178) | a claim held past `STALE_PENDING_AFTER` is recovered and sent by a second handler at the same time |
| `batch_existing_id` | "ExistingID points at the earlier notification" (batch.go:42) | the key of an item that fails validation is kept, so the next item with it is called a duplicate of a notification that does not exist |

Three statements of the README hold only in a weaker form, which is what the
passing runs check. "Attempts cap at 4": an attempt that a crash interrupts is
recovered without a look at the cap, so it is the cap and one more per fault
(`AttemptsCappedUpToFaults`). Duplicate messages "find the row already claimed, sent,
or cancelled and are dropped": one may also claim a retrying row before its backoff is
over, but without a fault never a second delivery comes of it (`DuplicatesNeedFaults`).
"Caps deliveries at 100/s": the bucket's burst is the rate, so after an idle second the
provider may see twice the rate in a second, and one call more per handler that was
held up by a lookup (`CallsAreBounded`; the bound is reached).

### Bounds

- One notification suffices for the races of `delivery_faults` and
  `delivery_settles`: two notifications share no state but the `LIMIT` of a sweep
  and the handlers, and `delivery_batches` has both. Two handlers and up to two
  messages per notification give every race of a duplicate with a holder.
- `MaxFaults` 2: one fault to create a duplicate or a stranded row, one to hit its
  recovery. The documented failures above need one or two.
- `MaxAttempts` 2 has a retry and an exhaustion; the code only compares with it.
- `MaxCopies` bounds how often a queued row is swept again while its messages wait.
  It is the only guard that is not in the code; without it the work queue grows
  without end. A larger bound adds messages that behave like the ones there are.
- `MaxItems` 2 and one key: two items share a key or not; every decision of a batch
  looks at one earlier item. Two requests race for a key; a third one would lose
  to the winner in the same way.
- Consumers: with prefetch 2 and one handler, one message is handled while the next
  lies in the buffer, which is what a drain has to tell apart. The second queue is
  the sibling whose failure stops the first and whose answers overtake on
  `lastPaused`; it needs no message for that. The flag flips without bound.
- Publisher: two single callers, of which one has no deadline, and a burst of 2, which
  has a message before and one after a failure. They meet in pairs (`Encounters`), since
  one caller holds the mutex and the others wait for it alike; all of them together have
  too many states for liveness. The connection is blocked and unblocked without bound.
  Two emitters contend for `eventMu`, beside two callers that contend for `publisher.mu`.
- SendPath: with one token a second, the second of two handlers waits, and a third
  reservation waits for longer. `TTL` 2 separates fresh from expired by more than the time
  of an answer (`Transit` 1). Histories are capped where the properties no longer tell
  values apart. `Window` 2 is longer than a second of this bucket.
- LiveView: a buffer of 1 is full after one event and a second event overflows it,
  at the client as at the hub; `MaxEvents` 2 does both. A filtered client sees what the
  other does not.

### Fairness

`FairSpec` assumes of the program what its runtime gives: a goroutine that can
step does; a ready message is pushed to some handler; the ticker fires; timestamps
pass cutoffs and tiers expire; a process that has exited is restarted
(`restart: unless-stopped`). Weak fairness is enough for each. Nothing is assumed of
faults, clients and the provider: refused for ever, a notification ends failed.
`delivery_settles` allows one fault of the kinds its cfg lists; `stranded_retry`
shows the pair of faults that defeats it.

In `consumers` a supervisor needs strong fairness for its way out of a select: each
check takes it out of the select and back, and each time a done context or a done pool
is ready. Go chooses at random among ready cases, so it is taken in the end.

That a handler ends, which `ResumeDelivers`, `StopEndsRun` and `EventuallySettled` need, is
the assumption with the widest reach. The provider call and the outcome write end by a
timeout; the claim (worker.go:163) and the override lookup (switchable.go:60) end with the
process's context, so a query that hangs holds its handler until a stop, and a hung lookup
holds every handler of the process (`HandlersGetThrough` names that case); the publishes
and the ack wait as long as the connection stays blocked (`BlockedForEver`). In these cases
the three properties promise nothing.

In `publisher` and `send_path` a wait for a mutex has strong fairness: Go's mutex turns
to order of arrival once somebody has waited for a millisecond. In `publisher` so does a
write: it keeps what has been written and goes on whenever the connection takes more. That
the connection ever does is not assumed: the three liveness properties name a connection
that stays blocked (`BlockedForEver`) as the exception, because amqp091's write
ends by no context. Deadlines pass, and the provider call ends by its timeout. The broker
may stay silent, and the database leave a lookup open: the properties say what happens then. In `live_view` a goroutine that can
step does, the hub's select takes the done context in the end, and a write ends within
its timeout; nothing is assumed of clients, publishers and the broker's stream.

Three runs use symmetry: `delivery_faults` (handlers with their processes),
`delivery_batches` (schedulers, notifications) and `intake` (requests); they check
safety only.

## Proofs

The theorems about Delivery hold for every set of notifications, handlers, processes and
schedulers, every `MaxAttempts`, `ClaimBatchLimit`, `MaxCopies`, and every
`FaultKinds` and `MaxFaults`, under the named assumptions on constants
(`StoreAssumption`, `FaultsAssumption`, `WorkerAssumption`, `DeliveryAssumption`).

- **TypeCorrect** (DeliveryProofs): `Spec => []TypeOK`. TypeOK relates status and attempts
  of a row: it has counted an attempt exactly when its status is one that follows a claim
  (`ClaimedStatuses`). It is inductive because every other statement keeps a row on its
  side of that line (`KeepsClaimed`); the proof goes component by component, one step per
  action.
- **LifecycleImplemented** (DeliverySafetyProofs): `Spec => ImplementsLifecycle`, a
  refinement in which `status` is mapped to itself. The lemma `StepAdvances` says
  that every step moves each row legally or leaves it; the batched statements are
  the cases to watch, because their SQL names statuses itself and no derived set
  ties them to the transitions table.
- **CancelIsSafe** (DeliverySafetyProofs): `Spec => []CancelledNeverDelivered`. The
  property is not inductive: a holder could stand on a row that may still be
  cancelled. The invariant says that a row nobody has claimed yet, and a cancelled
  one, has no deliveries and no holder; legal moves (`StepAdvances`) never lead
  from a claimed status to a cancellable one.
- **SentIsTrue** (DeliverySafetyProofs): `Spec => []SentWasDelivered`. Inductive with
  `SentIsBacked`: also a handler about to write `sent` has an accepted delivery behind
  it, and deliveries are never taken back.
- **DeadLettersAgree** (DeliverySafetyProofs): `Spec => []DeadLetteredOnceFailed`. The
  write and the publish are two steps, so `DeadLettersAreBacked` speaks of the handler
  between them: its row reads `failed`, nothing is on the queue yet, and no other
  handler is on the way there with the same row.
- **ScheduledWaits** (DeliverySafetyProofs): `Spec => []NothingBeforeDue`. The property
  only sees queues and handlers. The invariant adds what can lead to them:
  `RowsBeforeDue` (such a row is absent, scheduled or cancelled) and `QuietBeforeDue`
  (no create request has one to publish and no sweep has one on its list).
- **RetriesAreCarried** (DeliverySafetyProofs):
  `NoCarrierLost => (Spec => []RetryingIsCarried)`, where `NoCarrierLost` excludes
  `worker.connection`, `scheduler.publish`, `scheduler.crash` and `scheduler.database`.
  Each of them can leave a retrying row without a message (`connection_loss`,
  `stranded_retry`); the theorem says that no other fault does: crashes
  and shutdowns of workers, closed channels, failed writes and publishes of handlers,
  slow handlers and lost responses are all covered. `delivery_settles` checks the
  property on an instance that satisfies the assumption.
- **ClaimExclusive** (DeliveryClaimProofs): `Punctual => (Spec => []ClaimIsExclusive)`,
  where `Punctual` says that `worker.slow` is not among the faults. The invariant
  adds `HeldRows`: a row that somebody holds is not stale, so no sweep takes it
  from its holder. **SendsAreExclusive** concludes `NoConcurrentSends` from it;
  `concurrent_sends` shows that the assumption is needed.
- **DuplicatesCostFaults**, **AttemptsCapped** (DeliveryClaimProofs):
  `DuplicatesNeedFaults` and `AttemptsCappedUpToFaults`, here with slow handlers. Both
  compare a count with the faults, which is not inductive: a claim under way adds to
  the count later and nothing has been paid for it yet. The invariants are accounts. In
  `DeliveriesAccounted`, the deliveries, the chance of another claim and the handlers
  that may still deliver are together at most one more than the faults; in
  `AttemptsAccounted` the same is said of the attempts from the last allowed one on.
  The proof sorts the steps by what they do to the account of a row: a claim moves the
  chance to a handler, a delivery spends it, a failure below the cap returns it, a
  fault may add one, and every other step leaves it.
- **IntakeTypeCorrect**, **KeysYieldOneRow**, **AnswersAreTrue**, **BatchesAreAtomic**,
  **ConflictsAreRaces**, **MessagesHaveRows**, **IntakeMovesLegally** (IntakeProofs),
  under `IntakeAssumption`, for any requests, keys, sizes of a batch and failures. Apart
  from the types, none of the properties is inductive without `Progress`, which says of each step of a
  request what it has done: until it inserts it has neither rows nor an answer, what it
  publishes is in the table, and the rows of a batch are those its decision accepted or
  none. It holds because the decision (`ToInsert`) depends on the items and on the
  snapshot only, and neither changes after the pre-check (`DecisionStands`). One row
  per key is `KeysUnique`, which the partial unique index keeps; that a row keeps its
  key needs `Progress` again. `AcceptedKeysDiffer` proves that one batch never accepts
  a key twice, so that what its COPY conflicts with is another request's row.
- **ConsumersTypeCorrect**, **PoolsAreDrained**, **DrainSettlesOnce** (ConsumersProofs):
  `TypeOK`, `NothingLeftBehind` and `UnackedIsInHand` under `ConsumersAssumption`, for all sets of queues and
  messages, every prefetch and concurrency and all faults. The part `ChannelIsSupervised` of
  `TypeOK` (only a supervisor inside `consumeUntilPaused` has an open channel, so nothing
  is pushed to one that waits) carries the drain; the invariant adds `CheckIsAwaited` (a
  check is under way only in a wait or a select, so its answer finds nobody in a drain).

- **SendPathTypes**, **CallsBounded**, **SwitchesAreFollowed** (SendPathProofs), under
  `SendPathAssumption`, for every rate, window, TTL, set of handlers and of URLs.
  `CallsAreBounded` is not inductive: a handler that has its token has not called yet,
  and one that sleeps for its token will get it later. The invariant is an account,
  `CallsArePaidFor`: the calls of a window, the handlers about to call and the tokens
  left are together at most a bucket, a token per tick and one per handler. With it,
  `SleepersInOrder`: the tokens promised ahead fall due one at a time, so that a tick
  lets one sleeper through at most. For `SendsAreRecent` the invariant relates three
  clocks: the age of the cached sender, the time an answer has been under way and the
  time since each provider was in force.
- **PublisherTypes**, **ConfirmsHonest** (PublisherProofs), under `PublisherAssumption`,
  for any callers and any size of burst: `Spec => Promise!Spec`, a refinement of
  ConfirmedPublish. A publish is a submission, the broker's acceptance an acceptance,
  and the return of a call the answer for all its messages; every other step stutters.
  The invariant `AcksAreFounded` says that confirmations and the callers' lists name
  accepted messages only and that the broker knows no message before it was published.
- **LiveViewTypes**, **HubSafe**, **ClientsAreReleased**, **StreamsHaveNoGaps** (LiveViewProofs), under
  `LiveViewAssumption`, for any clients, filters, buffer capacities and `MaxEvents`.
  The invariant `ClientLife` follows a client: its channel is open while it is on the
  map and has not been closed before it registers, it is on the map only while its
  handler serves or leaves, and a hub that no longer runs has an empty map.
  `StreamHasNoGaps` compares the elements and the order of two sequences, without a
  filter over a sequence, which is recursive and out of the prover's reach. Its
  invariant adds `Pipeline` (the events handled, in the hub's buffer and in the queue
  are each in order and come one after the other, also when the buffer drops one) and
  `Served` (a client starts with nothing, and is on the map while its channel is open).

Only model-checked: the liveness properties (`EventuallySettled`, `PauseTakesHold`,
`ResumeDelivers`, `StopEndsRun`, `ShutdownReturnsHandlers`, `DisconnectReturnsHandler`,
`SlowClientsStallNobody`, `StopFreesPublishers`, `OnlyThePatientBlock`,
`EventsNeverWait`, `HandlersGetThrough`), because the prover does not handle ENABLED.
`DuplicatesNameRows` and `EventuallySettled` under all faults are refuted by their runs.
Every other property of a run is a theorem; three of them under an assumption on the
faults, as said above.

## Plan

1. The retry tier that `TierForAttempt` chooses, and its TTLs.
2. Paging through a list that changes (`List` and its cursor).

## Not modelled

Text and wire formats (templates, JSON, cursors), routing and middleware, metrics,
logging, the mock provider and the dashboard pages: no state of the delivery path
depends on them. Read-only queries. The order of status events against the rows: they
are best effort, and the batch emits `queued` after a worker may have emitted `sent`;
nothing in the code promises otherwise. Configuration parsing and start-up order:
values are constants. `MAX_DELIVERY_ATTEMPTS` is not validated by the code; with 0
or less every notification gets one attempt, which is the model's value 1. The API
role does not restart when its RabbitMQ connection closes (it has no consumer whose
end is fatal); this is a matter of deployment, not of a step in the model.
