------------------------------- MODULE Intake -------------------------------
(***************************************************************************)
(* Concurrent create requests: single creates and batches                   *)
(* (service/notification.go, service/batch.go) that share idempotency keys. *)
(* A batch reads the keys that exist, decides every item on that snapshot,  *)
(* inserts the accepted ones in one COPY, publishes them and marks the      *)
(* confirmed ones queued; other requests, workers and cancels run between   *)
(* any two of these steps.                                                  *)
(*                                                                         *)
(* What the requests decide on is kept of an item: its key, and whether its *)
(* template resolves, it validates, and it is scheduled.                    *)
(***************************************************************************)
EXTENDS Naturals, FiniteSets, Sequences

CONSTANTS
    Requests,       \* create requests
    Keys,           \* idempotency keys
    NoKey,          \* an item without one
    MaxItems,       \* bound: items in a batch
    MaxFaults       \* bound: database and publish failures in one behaviour

ASSUME IntakeAssumption ==
    NoKey \notin Keys /\ MaxItems \in Nat \ {0} /\ MaxFaults \in Nat

Kinds == {"immediate", "scheduled", "invalid", "unresolvable"}
Items == [key : Keys \cup {NoKey}, kind : Kinds]

\* Every item gets an ID of its own (uuid.New): its request and its index.
Ids == Requests \X (1 .. MaxItems)
NoId == <<>>

INSTANCE Domain WITH Notifications <- Ids

VARIABLES
    step,           \* where each request is
    mode,           \* "single" or "batch"
    items,          \* what each request asks for
    existingKeys,   \* per request: the keys found by the pre-check, with their IDs
    confirmed,      \* per request: the IDs whose publish was confirmed
    answer,         \* per request: what it answers for each item, <<>> for an error
    rows,           \* the table: the IDs with a row
    status,         \* ... and their status
    messages,       \* IDs with a message in the work queue
    faults

requestVars == <<step, mode, items, existingKeys, confirmed, answer>>
vars == <<requestVars, rows, status, messages, faults>>

Steps == {"new", "insert", "publish", "mark", "precheck", "copy", "publishAll", "markAll", "done"}
Answers ==
    [result : {"accepted", "rejected", "duplicate", "replayed"}, id : Ids \cup {NoId}]

TypeOK ==
    /\ step \in [Requests -> Steps]
    /\ mode \in [Requests -> {"single", "batch"}]
    /\ \A r \in Requests :
         /\ items[r] \in Seq(Items) /\ Len(items[r]) <= MaxItems
         /\ DOMAIN existingKeys[r] \subseteq Keys
         /\ \A k \in DOMAIN existingKeys[r] : existingKeys[r][k] \in Ids
         /\ answer[r] \in Seq(Answers)
    /\ confirmed \in [Requests -> SUBSET Ids]
    /\ rows \subseteq Ids
    /\ status \in [Ids -> RowStates]
    /\ \A id \in Ids : id \in rows <=> status[id] # Absent
    /\ messages \subseteq Ids
    /\ faults \in 0 .. MaxFaults

Init ==
    /\ step = [r \in Requests |-> "new"]
    /\ mode = [r \in Requests |-> "single"]
    /\ items = [r \in Requests |-> <<>>]
    /\ existingKeys = [r \in Requests |-> <<>>]
    /\ confirmed = [r \in Requests |-> {}]
    /\ answer = [r \in Requests |-> <<>>]
    /\ rows = {}
    /\ status = [id \in Ids |-> Absent]
    /\ messages = {}
    /\ faults = 0

Goto(r, next) == step' = [step EXCEPT ![r] = next]
Answer(r, a) == answer' = [answer EXCEPT ![r] = a]

Fault == faults < MaxFaults /\ faults' = faults + 1
NoFault == UNCHANGED faults

----------------------------------------------------------------------------
(* The table *)

Item(id) == items[id[1]][id[2]]
KeyOf(id) == Item(id).key

\* render: no such template or a failed lookup, another channel, a body that does
\* not parse, a missing variable; or content and template are both given.
Unresolvable(item) == item.kind = "unresolvable"

\* ValidateNew: the channel, priority, recipient or content, or a time in the past.
Invalid(item) == item.kind = "invalid"

\* newNotification
InitialStatus(item) == IF item.kind = "scheduled" THEN "scheduled" ELSE "pending"

RowsWithKey(k) == {id \in rows : KeyOf(id) = k}

\* Defective variant: no unique index on idempotency_key.
InsertableAlways(S) == TRUE

\* The partial unique index on idempotency_key admits the rows S together.
Insertable(S) ==
    \A id \in S :
        KeyOf(id) # NoKey =>
            RowsWithKey(KeyOf(id)) = {} /\ \A other \in S : KeyOf(other) = KeyOf(id) => other = id

InsertRows(S) ==
    /\ rows' = rows \cup S
    /\ status' = [id \in Ids |-> IF id \in S THEN InitialStatus(Item(id)) ELSE status[id]]

TableUnchanged == UNCHANGED <<rows, status>>

\* UpdateStatus(queued, from pending) and MarkQueuedBulk: rows that have moved on
\* are left alone.
MarkQueuedIfPending(S) ==
    /\ status' = [id \in Ids |-> IF id \in S /\ status[id] = "pending" THEN "queued" ELSE status[id]]
    /\ UNCHANGED rows

----------------------------------------------------------------------------
(* Submitting *)

SubmitSingle(r, item) ==
    /\ step[r] = "new"
    /\ items' = [items EXCEPT ![r] = <<item>>]
    /\ Goto(r, "insert")
    /\ UNCHANGED <<mode, existingKeys, confirmed, answer, rows, status, messages>> /\ NoFault

SubmitBatch(r, batch) ==
    /\ step[r] = "new"
    /\ mode' = [mode EXCEPT ![r] = "batch"]
    /\ items' = [items EXCEPT ![r] = batch]
    /\ Goto(r, "precheck")
    /\ UNCHANGED <<existingKeys, confirmed, answer, rows, status, messages>> /\ NoFault

----------------------------------------------------------------------------
(* Create *)

\* The content does not resolve or the input is invalid: rejected before the insert.
RejectSingle(r) ==
    /\ step[r] = "insert"
    /\ Unresolvable(items[r][1]) \/ Invalid(items[r][1])
    /\ Answer(r, <<[result |-> "rejected", id |-> NoId]>>)
    /\ Goto(r, "done")
    /\ TableUnchanged /\ UNCHANGED <<mode, items, existingKeys, confirmed, messages>> /\ NoFault

InsertSingle(r) ==
    /\ step[r] = "insert"
    /\ items[r][1].kind \in {"immediate", "scheduled"}
    /\ Insertable({<<r, 1>>})
    /\ InsertRows({<<r, 1>>})
    /\ Answer(r, <<[result |-> "accepted", id |-> <<r, 1>>]>>)
    /\ Goto(r, IF items[r][1].kind = "immediate" THEN "publish" ELSE "done")
    /\ UNCHANGED <<mode, items, existingKeys, confirmed, messages>> /\ NoFault

\* Defective variant: the replay answers with the ID generated for this request.
ReplayOwnId(r) ==
    /\ step[r] = "insert"
    /\ items[r][1].kind \in {"immediate", "scheduled"}
    /\ ~Insertable({<<r, 1>>})
    /\ Answer(r, <<[result |-> "replayed", id |-> <<r, 1>>]>>)
    /\ Goto(r, "done")
    /\ TableUnchanged /\ UNCHANGED <<mode, items, existingKeys, confirmed, messages>> /\ NoFault

\* The key exists: the notification that has it is replayed. Rows are never
\* deleted, so the lookup after the violation finds it.
Replay(r) ==
    /\ step[r] = "insert"
    /\ items[r][1].kind \in {"immediate", "scheduled"}
    /\ ~Insertable({<<r, 1>>})
    /\ \E id \in RowsWithKey(items[r][1].key) :
         Answer(r, <<[result |-> "replayed", id |-> id]>>)
    /\ Goto(r, "done")
    /\ TableUnchanged /\ UNCHANGED <<mode, items, existingKeys, confirmed, messages>> /\ NoFault

\* The lookup of the notification to replay fails: the client gets an error.
ReplayFails(r) ==
    /\ step[r] = "insert"
    /\ items[r][1].kind \in {"immediate", "scheduled"}
    /\ ~Insertable({<<r, 1>>})
    /\ Fault
    /\ Goto(r, "done")
    /\ TableUnchanged /\ UNCHANGED <<mode, items, existingKeys, confirmed, answer, messages>>

\* The insert fails, committed or not: the client gets an error.
InsertSingleFails(r) ==
    /\ step[r] = "insert"
    /\ items[r][1].kind \in {"immediate", "scheduled"}
    /\ Fault
    /\ \/ Insertable({<<r, 1>>}) /\ InsertRows({<<r, 1>>})
       \/ TableUnchanged
    /\ Goto(r, "done")
    /\ UNCHANGED <<mode, items, existingKeys, confirmed, answer, messages>>

\* publishForDelivery. A failed publish may still have been routed; the row
\* then stays pending and the request succeeds all the same.
PublishSingle(r) ==
    /\ step[r] = "publish"
    /\ \/ messages' = messages \cup {<<r, 1>>} /\ Goto(r, "mark") /\ NoFault
       \/ /\ Fault /\ Goto(r, "done")
          /\ messages' = messages \cup {<<r, 1>>} \/ UNCHANGED messages
    /\ TableUnchanged /\ UNCHANGED <<mode, items, existingKeys, confirmed, answer>>

MarkSingle(r) ==
    /\ step[r] = "mark"
    /\ \/ MarkQueuedIfPending({<<r, 1>>}) /\ NoFault
       \/ TableUnchanged /\ Fault
    /\ Goto(r, "done")
    /\ UNCHANGED <<mode, items, existingKeys, confirmed, answer, messages>>

----------------------------------------------------------------------------
(* CreateBatch: deciding the items *)

\* Item i reaches the duplicate check, which precedes validation.
Resolves(r, i) == ~Unresolvable(items[r][i])

\* The key of item i was recorded in existingKeys by an item before it.
EarlierWithKey(r, i) ==
    {j \in 1 .. i - 1 : Resolves(r, j) /\ items[r][j].key = items[r][i].key}

\* Defective variant: keys are not tracked within the request.
IsDuplicateOfTable(r, i) ==
    Resolves(r, i) /\ items[r][i].key \in DOMAIN existingKeys[r]

IsDuplicate(r, i) ==
    /\ Resolves(r, i) /\ items[r][i].key # NoKey
    /\ items[r][i].key \in DOMAIN existingKeys[r] \/ EarlierWithKey(r, i) # {}

\* The notification existingKeys names for a duplicate: the row of the
\* pre-check, or the first item of this request that recorded the key.
ExistingID(r, i) ==
    IF items[r][i].key \in DOMAIN existingKeys[r]
    THEN existingKeys[r][items[r][i].key]
    ELSE <<r, CHOOSE j \in EarlierWithKey(r, i) : \A l \in EarlierWithKey(r, i) : j <= l>>

IsAccepted(r, i) == Resolves(r, i) /\ ~IsDuplicate(r, i) /\ ~Invalid(items[r][i])

ToInsert(r) == {<<r, i>> : i \in {j \in DOMAIN items[r] : IsAccepted(r, j)}}

ItemAnswer(r, i) ==
    IF IsDuplicate(r, i) THEN [result |-> "duplicate", id |-> ExistingID(r, i)]
    ELSE IF IsAccepted(r, i) THEN [result |-> "accepted", id |-> <<r, i>>]
    ELSE [result |-> "rejected", id |-> NoId]

BatchAnswer(r) == [i \in DOMAIN items[r] |-> ItemAnswer(r, i)]

----------------------------------------------------------------------------
(* CreateBatch: its steps *)

RequestKeys(r) == {items[r][i].key : i \in DOMAIN items[r]}

\* Which notification each of the keys K has, of those that have one.
Owners(K) ==
    LET found == {id \in rows : KeyOf(id) \in K}
    IN [k \in {KeyOf(id) : id \in found} |-> CHOOSE id \in found : KeyOf(id) = k]

\* Defective variant: rows without a key match items without one.
PrecheckMatchingNull(r) ==
    /\ step[r] = "precheck"
    /\ existingKeys' = [existingKeys EXCEPT ![r] = Owners(RequestKeys(r))]
    /\ Goto(r, "copy")
    /\ TableUnchanged /\ UNCHANGED <<mode, items, confirmed, answer, messages>> /\ NoFault

\* existingKeysFor: one query over the keys of the request.
Precheck(r) ==
    /\ step[r] = "precheck"
    /\ existingKeys' = [existingKeys EXCEPT ![r] = Owners(RequestKeys(r) \ {NoKey})]
    /\ Goto(r, "copy")
    /\ TableUnchanged /\ UNCHANGED <<mode, items, confirmed, answer, messages>> /\ NoFault

PrecheckFails(r) ==
    /\ step[r] = "precheck"
    /\ Fault
    /\ Goto(r, "done")
    /\ TableUnchanged
    /\ UNCHANGED <<mode, items, existingKeys, confirmed, answer, messages>>

\* Defective variant: rows whose key is taken are skipped (ON CONFLICT DO NOTHING).
CopySkippingConflicts(r) ==
    /\ step[r] = "copy"
    /\ InsertRows({id \in ToInsert(r) : Insertable({id})})
    /\ Answer(r, BatchAnswer(r))
    /\ Goto(r, "publishAll")
    /\ UNCHANGED <<mode, items, existingKeys, confirmed, messages>> /\ NoFault

\* The COPY commits: all the accepted items have rows.
Copy(r) ==
    /\ step[r] = "copy"
    /\ Insertable(ToInsert(r))
    /\ InsertRows(ToInsert(r))
    /\ Answer(r, BatchAnswer(r))
    /\ Goto(r, "publishAll")
    /\ UNCHANGED <<mode, items, existingKeys, confirmed, messages>> /\ NoFault

\* Defective variant: a rolled back batch is published all the same.
CopyConflictIgnored(r) ==
    /\ step[r] = "copy"
    /\ ~Insertable(ToInsert(r))
    /\ Answer(r, BatchAnswer(r))
    /\ Goto(r, "publishAll")
    /\ TableUnchanged
    /\ UNCHANGED <<mode, items, existingKeys, confirmed, messages>> /\ NoFault

\* A key was taken since the pre-check: the whole insert rolls back.
CopyConflicts(r) ==
    /\ step[r] = "copy"
    /\ ~Insertable(ToInsert(r))
    /\ Goto(r, "done")
    /\ TableUnchanged
    /\ UNCHANGED <<mode, items, existingKeys, confirmed, answer, messages>> /\ NoFault

\* The transaction fails, committed or not: the request answers with an error.
CopyFails(r) ==
    /\ step[r] = "copy"
    /\ Fault
    /\ \/ Insertable(ToInsert(r)) /\ InsertRows(ToInsert(r))
       \/ TableUnchanged
    /\ Goto(r, "done")
    /\ UNCHANGED <<mode, items, existingKeys, confirmed, answer, messages>>

\* The accepted items that are not scheduled.
ToPublish(r) == {id \in ToInsert(r) : Item(id).kind = "immediate"}

\* PublishCreatedAll: the burst goes out and every confirm arrives.
PublishAll(r) ==
    /\ step[r] = "publishAll"
    /\ messages' = messages \cup ToPublish(r)
    /\ confirmed' = [confirmed EXCEPT ![r] = ToPublish(r)]
    /\ Goto(r, "markAll")
    /\ TableUnchanged /\ UNCHANGED <<mode, items, existingKeys, answer>> /\ NoFault

\* It stops at a publish that fails, or some confirms do not arrive: the
\* broker has at least what it confirmed.
PublishSome(r) ==
    /\ step[r] = "publishAll"
    /\ Fault
    /\ \E routed \in SUBSET ToPublish(r) : \E acked \in SUBSET routed :
         /\ messages' = messages \cup routed
         /\ confirmed' = [confirmed EXCEPT ![r] = acked]
    /\ Goto(r, "markAll")
    /\ TableUnchanged /\ UNCHANGED <<mode, items, existingKeys, answer>>

\* Defective variant: the bulk update is not guarded by pending.
MarkAllUnguarded(r) ==
    /\ step[r] = "markAll"
    /\ status' = [id \in Ids |-> IF id \in confirmed[r] THEN "queued" ELSE status[id]]
    /\ Goto(r, "done")
    /\ UNCHANGED <<mode, items, existingKeys, confirmed, answer, rows, messages>> /\ NoFault

\* MarkQueuedBulk of the confirmed IDs; the batch is answered whether or not it succeeds.
MarkAll(r) ==
    /\ step[r] = "markAll"
    /\ \/ MarkQueuedIfPending(confirmed[r]) /\ NoFault
       \/ TableUnchanged /\ Fault
    /\ Goto(r, "done")
    /\ UNCHANGED <<mode, items, existingKeys, confirmed, answer, messages>>

----------------------------------------------------------------------------
(* The rest of the system, as far as it moves these rows *)

\* The service dies, or the client goes away, between two steps of a request.
AbandonRequest(r) ==
    /\ step[r] \notin {"new", "done"}
    /\ Fault
    /\ Goto(r, "done")
    /\ TableUnchanged /\ UNCHANGED <<mode, items, existingKeys, confirmed, answer, messages>>

\* A worker takes the message and claims the row, or drops it unclaimed.
WorkerTakes(id) ==
    /\ id \in messages
    /\ messages' = messages \ {id}
    /\ status' = [status EXCEPT ![id] =
                    IF @ \in StatusesAllowedInto("processing") THEN "processing" ELSE @]
    /\ UNCHANGED <<requestVars, rows>> /\ NoFault

CancelRow(id) ==
    /\ status[id] \in CancellableStatuses
    /\ status' = [status EXCEPT ![id] = "cancelled"]
    /\ UNCHANGED <<requestVars, rows, messages>> /\ NoFault

----------------------------------------------------------------------------

SingleStep(r) ==
    \/ RejectSingle(r) \/ InsertSingle(r) \/ InsertSingleFails(r)
    \/ Replay(r) \/ ReplayFails(r)
    \/ PublishSingle(r) \/ MarkSingle(r)

BatchStep(r) ==
    \/ Precheck(r) \/ PrecheckFails(r)
    \/ Copy(r) \/ CopyConflicts(r) \/ CopyFails(r)
    \/ PublishAll(r) \/ PublishSome(r) \/ MarkAll(r)

Batches == UNION {[1 .. n -> Items] : n \in 1 .. MaxItems}

Next ==
    \/ \E r \in Requests :
         \/ \E item \in Items : SubmitSingle(r, item)
         \/ \E batch \in Batches : SubmitBatch(r, batch)
         \/ SingleStep(r) \/ BatchStep(r) \/ AbandonRequest(r)
    \/ \E id \in Ids : WorkerTakes(id) \/ CancelRow(id)

Spec == Init /\ [][Next]_vars

----------------------------------------------------------------------------
(* Properties *)

Finished(r) == step[r] = "done"

\* An idempotency key never yields two notifications, however creates, batches
\* and their retries with the same key interleave.
OneRowPerKey ==
    \A k \in Keys : Cardinality(RowsWithKey(k)) <= 1

\* Create's contract: what an answer calls accepted or replayed is a row of the
\* table, with the key the client sent.
AnswersNameRows ==
    \A r \in Requests : \A i \in DOMAIN answer[r] :
        answer[r][i].result \in {"accepted", "replayed"} =>
            /\ answer[r][i].id \in rows
            /\ KeyOf(answer[r][i].id) = items[r][i].key

\* "All or nothing" (CreateBatch of the repository): of a batch, the table has
\* all the items the decision accepted or none, also when the client got an error.
BatchIsAtomic ==
    \A r \in Requests :
        mode[r] = "batch" /\ Finished(r) =>
            {id \in rows : id[1] = r} \in {{}, ToInsert(r)}

\* Keys repeated within one request are reported per item and do not fail the
\* batch: a conflict in the COPY means that another request took a key after
\* the pre-check.
ConflictNeedsRace ==
    \A r \in Requests :
        step[r] = "copy" /\ ~Insertable(ToInsert(r)) =>
            \E id \in rows :
                id[1] # r /\ KeyOf(id) # NoKey /\ KeyOf(id) \notin DOMAIN existingKeys[r]

\* "A rollback must not leave phantom messages" (batch.go): every message in the
\* work queue names a row.
NoPhantomMessages == messages \subseteq rows

\* The queued marks of requests never pull a row back that a worker or a cancel
\* has moved on: every status change is legal.
RowsMoveLegally ==
    [][\A id \in Ids :
          \/ status'[id] = status[id]
          \/ status[id] = Absent /\ status'[id] \in InitialStatuses
          \/ status[id] # Absent /\ CanTransition(status[id], status'[id])]_vars

\* batch.go: ExistingID "points at the earlier notification a duplicate
\* idempotency key collided with".
DuplicatesNameRows ==
    \A r \in Requests : \A i \in DOMAIN answer[r] :
        answer[r][i].result = "duplicate" => answer[r][i].id \in rows
=============================================================================
