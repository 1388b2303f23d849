---------------------------- MODULE IntakeProofs ----------------------------
(***************************************************************************)
(* The safety properties of Intake, for every set of requests and keys,     *)
(* every size of a batch and every number of failures. They rest on what    *)
(* Progress says of a request at each of its steps: which of its rows the   *)
(* table has, and that the decision it made on its snapshot still stands.   *)
(***************************************************************************)
EXTENDS Intake, FiniteSetTheorems, SequenceTheorems, WellFoundedInduction, TLAPS

----------------------------------------------------------------------------
(* The decision on a batch *)

\* What TypeOK says of each request, as the types of the functions.
Shape ==
    /\ items \in [Requests -> Seq(Items)]
    /\ existingKeys \in [Requests -> UNION {[K -> Ids] : K \in SUBSET Keys}]
    /\ answer \in [Requests -> Seq(Answers)]

LEMMA ItemsOfRequest ==
    ASSUME TypeOK, NEW r \in Requests, NEW i \in DOMAIN items[r]
    PROVE  items[r][i] \in Items /\ i \in 1 .. MaxItems /\ <<r, i>> \in Ids
<1>1. items[r] \in Seq(Items) /\ Len(items[r]) <= MaxItems
  BY DEF TypeOK
<1>2. /\ Len(items[r]) \in Nat /\ DOMAIN items[r] = 1 .. Len(items[r])
      /\ items[r] \in [1 .. Len(items[r]) -> Items]
  BY <1>1, LenProperties
<1>3. items[r][i] \in Items /\ i \in 1 .. MaxItems
  BY <1>1, <1>2, IntakeAssumption
<1> QED BY <1>3 DEF Ids

LEMMA AcceptedIds ==
    ASSUME TypeOK, NEW r \in Requests
    PROVE  ToInsert(r) \subseteq Ids /\ ToPublish(r) \subseteq ToInsert(r)
BY ItemsOfRequest DEF ToInsert, ToPublish

\* Of some indices of a batch there is a first.
LEMMA FirstIndex ==
    ASSUME NEW S \in SUBSET Nat, S # {}
    PROVE  \E j \in S : \A l \in S : j <= l
<1>1. PICK j \in S : \A l \in S : <<l, j>> \notin OpToRel(<, Nat)
  BY WFMin, NatLessThanWellFounded, Zenon
<1>2. \A l \in S : ~(l < j)
  BY <1>1, Zenon DEF OpToRel
<1>3. \A l \in S : j <= l
  BY <1>2
<1> QED BY <1>3

\* A duplicate is answered with an ID: of a row the pre-check found, or of an
\* earlier item of the request.
LEMMA ExistingIDType ==
    ASSUME TypeOK, NEW r \in Requests, NEW i \in DOMAIN items[r], IsDuplicate(r, i)
    PROVE  ExistingID(r, i) \in Ids
<1>1. CASE items[r][i].key \in DOMAIN existingKeys[r]
  BY <1>1 DEF ExistingID, TypeOK
<1>2. CASE items[r][i].key \notin DOMAIN existingKeys[r]
  <2> DEFINE E == EarlierWithKey(r, i)
             j == CHOOSE x \in E : \A l \in E : x <= l
  <2>1. E # {} /\ E \subseteq 1 .. i - 1 /\ i \in 1 .. MaxItems
    BY <1>2, ItemsOfRequest DEF IsDuplicate, EarlierWithKey
  <2>2. E \in SUBSET Nat
    BY <2>1, IntakeAssumption
  <2>3. j \in E
    <3>1. \E x \in E : \A l \in E : x <= l
      BY <2>1, <2>2, FirstIndex
    <3> QED BY <3>1
  <2>4. <<r, j>> \in Ids
    <3> HIDE DEF E, j
    <3>1. j \in 1 .. MaxItems
      BY <2>1, <2>3, IntakeAssumption
    <3> QED BY <3>1 DEF Ids
  <2> QED BY <1>2, <2>4 DEF ExistingID
<1> QED BY <1>1, <1>2

LEMMA BatchAnswerType ==
    ASSUME TypeOK, NEW r \in Requests
    PROVE  /\ BatchAnswer(r) \in Seq(Answers)
           /\ DOMAIN BatchAnswer(r) = DOMAIN items[r]
<1>1. ASSUME NEW i \in DOMAIN items[r] PROVE ItemAnswer(r, i) \in Answers
  BY <1>1, ExistingIDType, ItemsOfRequest DEF ItemAnswer, Answers
<1>2. Len(items[r]) \in Nat /\ DOMAIN items[r] = 1 .. Len(items[r])
  BY LenProperties DEF TypeOK
<1>3. BatchAnswer(r) \in [1 .. Len(items[r]) -> Answers]
  BY <1>1, <1>2 DEF BatchAnswer
<1> QED BY <1>2, <1>3, SeqDef DEF BatchAnswer

----------------------------------------------------------------------------
(* Types *)

Typed == TypeOK /\ Shape

\* The pre-check names a row for each key it finds.
LEMMA OwnersType ==
    ASSUME Typed, NEW K \in SUBSET Keys
    PROVE  /\ DOMAIN Owners(K) \subseteq Keys
           /\ \A k \in DOMAIN Owners(K) : Owners(K)[k] \in rows /\ KeyOf(Owners(K)[k]) = k
           /\ Owners(K) \in UNION {[L -> Ids] : L \in SUBSET Keys}
<1> DEFINE found == {id \in rows : KeyOf(id) \in K}
           L == {KeyOf(id) : id \in found}
           owner(k) == CHOOSE id \in found : KeyOf(id) = k
<1>1. L \in SUBSET Keys /\ found \subseteq Ids
  BY DEF Typed, TypeOK
<1>2. Owners(K) = [k \in L |-> owner(k)]
  BY DEF Owners
<1>3. \A k \in L : owner(k) \in found /\ KeyOf(owner(k)) = k
  OBVIOUS
<1>4. \A k \in L : owner(k) \in rows /\ owner(k) \in Ids
  BY <1>1, <1>3
<1> HIDE DEF L, owner
<1>5. Owners(K) \in [L -> Ids]
  BY <1>2, <1>4
<1> QED BY <1>1, <1>2, <1>3, <1>4, <1>5

\* Inserting rows, marking them, or leaving the table alone keeps it typed, and
\* each status change is one the lifecycle allows.
TableType ==
    /\ rows \subseteq Ids
    /\ status \in [Ids -> RowStates]
    /\ \A id \in Ids : id \in rows <=> status[id] # Absent

MovesLegally ==
    \A id \in Ids :
        \/ status'[id] = status[id]
        \/ status[id] = Absent /\ status'[id] \in InitialStatuses
        \/ status[id] # Absent /\ CanTransition(status[id], status'[id])

LEMMA InsertRowsType ==
    ASSUME TableType, NEW S \in SUBSET Ids, InsertRows(S)
    PROVE  TableType' /\ (S \cap rows = {} => MovesLegally)
<1>1. \A id \in Ids :
        status'[id] = IF id \in S THEN InitialStatus(Item(id)) ELSE status[id]
  BY DEF InsertRows
<1>2. \A id \in Ids : InitialStatus(Item(id)) \in InitialStatuses
  BY DEF InitialStatus, InitialStatuses
<1>3. InitialStatuses \subseteq RowStates /\ Absent \notin InitialStatuses
  BY DEF InitialStatuses, RowStates, Statuses, Absent
<1>4. rows' = rows \cup S /\ DOMAIN status' = Ids
  BY DEF InsertRows
<1>5. status' \in [Ids -> RowStates]
  BY <1>2, <1>3 DEF InsertRows, TableType
<1> QED BY <1>1, <1>2, <1>3, <1>4, <1>5 DEF TableType, MovesLegally

LEMMA MarkQueuedType ==
    ASSUME TableType, NEW S, MarkQueuedIfPending(S)
    PROVE  TableType' /\ MovesLegally
<1>1. "queued" \in Statuses /\ Absent \notin Statuses /\ "pending" # Absent
      /\ CanTransition("pending", "queued")
  BY DEF Statuses, Absent, CanTransition, transitions
<1>2. status' \in [Ids -> RowStates] /\ rows' = rows
  BY <1>1 DEF MarkQueuedIfPending, TableType, RowStates
<1>3. \A id \in Ids :
        status'[id] = IF id \in S /\ status[id] = "pending" THEN "queued" ELSE status[id]
  BY DEF MarkQueuedIfPending
<1> QED BY <1>1, <1>2, <1>3 DEF TableType, MovesLegally, RowStates

LEMMA TableUnchangedType ==
    ASSUME TableType, TableUnchanged
    PROVE  TableType' /\ MovesLegally
BY DEF TableType, TableUnchanged, MovesLegally

RowStep(id) == WorkerTakes(id) \/ CancelRow(id)

LEMMA RowStepType ==
    ASSUME TableType, NEW id \in Ids, RowStep(id)
    PROVE  TableType' /\ MovesLegally
<1>1. /\ StatusesAllowedInto("processing") \subseteq Statuses
      /\ CancellableStatuses \subseteq Statuses
      /\ {"processing", "cancelled"} \subseteq Statuses
      /\ Absent \notin Statuses
  BY DEF StatusesAllowedInto, CancellableStatuses, Statuses, Absent
<1>2. /\ \A from \in StatusesAllowedInto("processing") : CanTransition(from, "processing")
      /\ \A from \in CancellableStatuses : CanTransition(from, "cancelled")
  BY DEF StatusesAllowedInto, CancellableStatuses
<1>3. \A other \in Ids \ {id} : status'[other] = status[other]
  BY DEF RowStep, WorkerTakes, CancelRow, TableType
<1>4. \/ status'[id] = status[id]
      \/ /\ status[id] \in Statuses /\ status'[id] \in Statuses
         /\ CanTransition(status[id], status'[id])
  BY <1>1, <1>2 DEF RowStep, WorkerTakes, CancelRow, TableType
<1>5. DOMAIN status' = Ids /\ rows' = rows
  BY DEF RowStep, WorkerTakes, CancelRow, TableType
<1>6. status' \in [Ids -> RowStates]
  <2>1. status' = [i \in Ids |-> status'[i]]
    BY <1>5 DEF RowStep, WorkerTakes, CancelRow, TableType
  <2>2. \A i \in Ids : status'[i] \in RowStates
    BY <1>3, <1>4 DEF TableType, RowStates
  <2> QED BY <2>1, <2>2
<1> QED BY <1>1, <1>3, <1>4, <1>5, <1>6 DEF TableType, MovesLegally

\* The variables of the requests, typed; what a request does to them.
RequestType ==
    /\ step \in [Requests -> Steps]
    /\ mode \in [Requests -> {"single", "batch"}]
    /\ Shape
    /\ \A r \in Requests : Len(items[r]) <= MaxItems
    /\ confirmed \in [Requests -> SUBSET Ids]

LEMMA TypedInParts ==
    Typed <=> /\ RequestType /\ TableType
              /\ messages \subseteq Ids
              /\ faults \in 0 .. MaxFaults
<1>1. Shape => \A r \in Requests :
        /\ items[r] \in Seq(Items)
        /\ DOMAIN existingKeys[r] \subseteq Keys
        /\ \A k \in DOMAIN existingKeys[r] : existingKeys[r][k] \in Ids
        /\ answer[r] \in Seq(Answers)
  BY DEF Shape
<1> QED BY <1>1 DEF Typed, TypeOK, RequestType, TableType

LEMMA BatchesAreSequences ==
    ASSUME NEW batch \in Batches
    PROVE  batch \in Seq(Items) /\ Len(batch) <= MaxItems
<1>1. PICK n \in 1 .. MaxItems : batch \in [1 .. n -> Items]
  BY DEF Batches
<1>2. n \in Nat /\ n <= MaxItems
  BY <1>1, IntakeAssumption
<1>3. batch \in Seq(Items)
  BY <1>1, <1>2, SeqDef
<1>4. Len(batch) = n
  BY <1>1, <1>2, <1>3, LenProperties
<1> QED BY <1>2, <1>3, <1>4

RequestStep(r) ==
    \/ \E item \in Items : SubmitSingle(r, item)
    \/ \E batch \in Batches : SubmitBatch(r, batch)
    \/ SingleStep(r) \/ BatchStep(r) \/ AbandonRequest(r)

\* A request changes its own variables only.
OthersStay(r) ==
    \A s \in Requests \ {r} :
        /\ step'[s] = step[s] /\ mode'[s] = mode[s] /\ items'[s] = items[s]
        /\ existingKeys'[s] = existingKeys[s] /\ answer'[s] = answer[s]

LEMMA RequestStepOthers ==
    ASSUME RequestType, NEW r \in Requests, RequestStep(r)
    PROVE  OthersStay(r)
<1> USE DEF RequestType, Shape, Goto, Answer, OthersStay
<1>1. CASE \E item \in Items : SubmitSingle(r, item)
  BY <1>1 DEF SubmitSingle
<1>2. CASE \E batch \in Batches : SubmitBatch(r, batch)
  BY <1>2 DEF SubmitBatch
<1>3. CASE SingleStep(r)
  BY <1>3 DEF SingleStep, RejectSingle, InsertSingle, InsertSingleFails, Replay, ReplayFails,
              PublishSingle, MarkSingle
<1>4. CASE BatchStep(r)
  BY <1>4 DEF BatchStep, Precheck, PrecheckFails, Copy, CopyConflicts, CopyFails,
              PublishAll, PublishSome, MarkAll
<1>5. CASE AbandonRequest(r)
  BY <1>5 DEF AbandonRequest
<1> QED BY <1>1, <1>2, <1>3, <1>4, <1>5 DEF RequestStep

LEMMA FaultsType ==
    ASSUME faults \in 0 .. MaxFaults, NoFault \/ Fault
    PROVE  faults' \in 0 .. MaxFaults
BY IntakeAssumption DEF NoFault, Fault

\* The same for the variables of the request itself.
LEMMA SubmitType ==
    ASSUME RequestType, NEW r \in Requests,
           \/ \E item \in Items : SubmitSingle(r, item)
           \/ \E batch \in Batches : SubmitBatch(r, batch)
    PROVE  RequestType'
<1> USE DEF RequestType, Shape, Goto, Steps
<1>1. ASSUME NEW item \in Items, SubmitSingle(r, item) PROVE RequestType'
  <2>1. <<item>> \in Seq(Items) /\ Len(<<item>>) = 1 /\ 1 <= MaxItems
    BY IntakeAssumption
  <2>2. items' \in [Requests -> Seq(Items)]
        /\ \A s \in Requests : Len(items'[s]) <= MaxItems
    BY <1>1, <2>1 DEF SubmitSingle
  <2> QED BY <1>1, <2>2 DEF SubmitSingle
<1>2. ASSUME NEW batch \in Batches, SubmitBatch(r, batch) PROVE RequestType'
  <2>1. batch \in Seq(Items) /\ Len(batch) <= MaxItems
    BY BatchesAreSequences
  <2>2. items' \in [Requests -> Seq(Items)]
        /\ \A s \in Requests : Len(items'[s]) <= MaxItems
    BY <1>2, <2>1 DEF SubmitBatch
  <2> QED BY <1>2, <2>2 DEF SubmitBatch
<1> QED BY <1>1, <1>2

LEMMA SingleStepType ==
    ASSUME Typed, NEW r \in Requests, SingleStep(r)
    PROVE  RequestType' /\ messages' \subseteq Ids
<1> USE DEF RequestType, Shape, Goto, Answer, Steps
<1>1. RequestType /\ messages \subseteq Ids /\ rows \subseteq Ids
  BY TypedInParts DEF TableType
<1>2. <<r, 1>> \in Ids
  BY IntakeAssumption DEF Ids
<1>3. ASSUME NEW a \in Answers PROVE <<a>> \in Seq(Answers)
  BY <1>3
<1>4. CASE RejectSingle(r)
  <2>1. <<[result |-> "rejected", id |-> NoId]>> \in Seq(Answers)
    BY <1>3 DEF Answers
  <2> QED BY <1>1, <1>4, <2>1 DEF RejectSingle
<1>5. CASE InsertSingle(r)
  <2>1. <<[result |-> "accepted", id |-> <<r, 1>>]>> \in Seq(Answers)
    BY <1>2, <1>3 DEF Answers
  <2> QED BY <1>1, <1>5, <2>1 DEF InsertSingle
<1>6. CASE InsertSingleFails(r)
  BY <1>1, <1>6 DEF InsertSingleFails
<1>7. CASE Replay(r)
  <2>1. PICK id \in RowsWithKey(items[r][1].key) :
          Answer(r, <<[result |-> "replayed", id |-> id]>>)
    BY <1>7 DEF Replay
  <2>2. id \in Ids
    BY <1>1 DEF RowsWithKey
  <2>3. <<[result |-> "replayed", id |-> id]>> \in Seq(Answers)
    BY <1>3, <2>2 DEF Answers
  <2> QED BY <1>1, <1>7, <2>1, <2>3 DEF Replay
<1>8. CASE ReplayFails(r)
  BY <1>1, <1>8 DEF ReplayFails
<1>9. CASE PublishSingle(r)
  BY <1>1, <1>2, <1>9 DEF PublishSingle
<1>10. CASE MarkSingle(r)
  BY <1>1, <1>10 DEF MarkSingle
<1> QED BY <1>4, <1>5, <1>6, <1>7, <1>8, <1>9, <1>10 DEF SingleStep

LEMMA BatchStepType ==
    ASSUME Typed, NEW r \in Requests, BatchStep(r)
    PROVE  RequestType' /\ messages' \subseteq Ids
<1> USE DEF RequestType, Shape, Goto, Answer, Steps
<1>1. RequestType /\ messages \subseteq Ids
  BY TypedInParts
<1>2. BatchAnswer(r) \in Seq(Answers)
  BY BatchAnswerType DEF Typed
<1>3. ToPublish(r) \subseteq Ids
  BY AcceptedIds DEF Typed
<1>4. CASE Precheck(r)
  <2>1. RequestKeys(r) \ {NoKey} \subseteq Keys
    BY ItemsOfRequest DEF Typed, RequestKeys, Items
  <2>2. Owners(RequestKeys(r) \ {NoKey}) \in UNION {[L -> Ids] : L \in SUBSET Keys}
    BY <2>1, OwnersType
  <2> QED BY <1>1, <1>4, <2>2 DEF Precheck
<1>5. CASE PrecheckFails(r) \/ CopyConflicts(r) \/ CopyFails(r)
  BY <1>1, <1>5 DEF PrecheckFails, CopyConflicts, CopyFails
<1>6. CASE Copy(r)
  BY <1>1, <1>2, <1>6 DEF Copy
<1>7. CASE PublishAll(r)
  BY <1>1, <1>3, <1>7 DEF PublishAll
<1>8. CASE PublishSome(r)
  BY <1>1, <1>3, <1>8 DEF PublishSome
<1>9. CASE MarkAll(r)
  BY <1>1, <1>9 DEF MarkAll
<1> QED BY <1>4, <1>5, <1>6, <1>7, <1>8, <1>9 DEF BatchStep

\* What a request does to the table: it inserts its row or its rows, which the
\* index admits, it marks rows queued, or it leaves the table alone.
InsertsRow(r) ==
    step[r] = "insert" /\ Insertable({<<r, 1>>}) /\ InsertRows({<<r, 1>>})

InsertsBatch(r) ==
    step[r] = "copy" /\ Insertable(ToInsert(r)) /\ InsertRows(ToInsert(r))

LEMMA RequestStepTable ==
    ASSUME Typed, NEW r \in Requests, RequestStep(r)
    PROVE  \/ InsertsRow(r)
           \/ InsertsBatch(r)
           \/ \E S \in SUBSET Ids : MarkQueuedIfPending(S)
           \/ TableUnchanged
<1>0. {<<r, 1>>} \in SUBSET Ids /\ confirmed[r] \in SUBSET Ids
  BY IntakeAssumption DEF Ids, Typed, TypeOK
<1>1. CASE \E item \in Items : SubmitSingle(r, item)
  BY <1>1 DEF SubmitSingle, TableUnchanged
<1>2. CASE \E batch \in Batches : SubmitBatch(r, batch)
  BY <1>2 DEF SubmitBatch, TableUnchanged
<1>3. CASE SingleStep(r)
  <2>1. CASE MarkSingle(r)
    BY <1>0, <2>1 DEF MarkSingle
  <2>2. CASE InsertSingle(r) \/ InsertSingleFails(r)
    BY <2>2 DEF InsertSingle, InsertSingleFails, InsertsRow
  <2> QED BY <1>3, <2>1, <2>2
          DEF SingleStep, RejectSingle, Replay, ReplayFails, PublishSingle
<1>4. CASE BatchStep(r)
  <2>1. CASE MarkAll(r)
    BY <1>0, <2>1 DEF MarkAll
  <2>2. CASE Copy(r) \/ CopyFails(r)
    BY <2>2 DEF Copy, CopyFails, InsertsBatch
  <2> QED BY <1>4, <2>1, <2>2
          DEF BatchStep, Precheck, PrecheckFails, CopyConflicts, PublishAll, PublishSome
<1>5. CASE AbandonRequest(r)
  BY <1>5 DEF AbandonRequest
<1> QED BY <1>1, <1>2, <1>3, <1>4, <1>5 DEF RequestStep

LEMMA RequestStepFaults ==
    ASSUME NEW r \in Requests, RequestStep(r)
    PROVE  NoFault \/ Fault
<1>1. CASE \E item \in Items : SubmitSingle(r, item)
  BY <1>1 DEF SubmitSingle
<1>2. CASE \E batch \in Batches : SubmitBatch(r, batch)
  BY <1>2 DEF SubmitBatch
<1>3. CASE SingleStep(r)
  BY <1>3 DEF SingleStep, RejectSingle, InsertSingle, InsertSingleFails, Replay, ReplayFails,
              PublishSingle, MarkSingle
<1>4. CASE BatchStep(r)
  BY <1>4 DEF BatchStep, Precheck, PrecheckFails, Copy, CopyConflicts, CopyFails,
              PublishAll, PublishSome, MarkAll
<1>5. CASE AbandonRequest(r)
  BY <1>5 DEF AbandonRequest
<1> QED BY <1>1, <1>2, <1>3, <1>4, <1>5 DEF RequestStep

LEMMA RequestStepType ==
    ASSUME Typed, NEW r \in Requests, RequestStep(r)
    PROVE  Typed'
<1>1. RequestType /\ TableType /\ messages \subseteq Ids /\ faults \in 0 .. MaxFaults
  BY TypedInParts
<1>2. RequestType' /\ messages' \subseteq Ids
  <2>1. CASE (\E item \in Items : SubmitSingle(r, item))
             \/ \E batch \in Batches : SubmitBatch(r, batch)
    <3>1. UNCHANGED messages
      BY <2>1 DEF SubmitSingle, SubmitBatch
    <3> QED BY <1>1, <2>1, <3>1, SubmitType
  <2>2. CASE AbandonRequest(r)
    BY <1>1, <2>2 DEF AbandonRequest, RequestType, Shape, Goto, Steps
  <2> QED BY <2>1, <2>2, SingleStepType, BatchStepType DEF RequestStep
<1>3. TableType'
  <2>1. {<<r, 1>>} \subseteq Ids /\ ToInsert(r) \subseteq Ids
    BY AcceptedIds, IntakeAssumption DEF Ids, Typed
  <2>2. CASE InsertsRow(r)
    BY <1>1, <2>1, <2>2, InsertRowsType DEF InsertsRow
  <2>3. CASE InsertsBatch(r)
    BY <1>1, <2>1, <2>3, InsertRowsType DEF InsertsBatch
  <2>4. CASE \E S \in SUBSET Ids : MarkQueuedIfPending(S)
    BY <1>1, <2>4, MarkQueuedType
  <2>5. CASE TableUnchanged
    BY <1>1, <2>5, TableUnchangedType
  <2>6. \/ InsertsRow(r) \/ InsertsBatch(r) \/ TableUnchanged
        \/ \E S \in SUBSET Ids : MarkQueuedIfPending(S)
    BY RequestStepTable
  <2> QED BY <2>2, <2>3, <2>4, <2>5, <2>6
<1>4. faults' \in 0 .. MaxFaults
  BY <1>1, RequestStepFaults, FaultsType
<1>5. RequestType' /\ TableType' /\ messages' \subseteq Ids
      /\ faults' \in 0 .. MaxFaults
  BY <1>2, <1>3, <1>4
<1>6. \A s \in Requests :
        /\ items'[s] \in Seq(Items)
        /\ DOMAIN existingKeys'[s] \subseteq Keys
        /\ \A k \in DOMAIN existingKeys'[s] : existingKeys'[s][k] \in Ids
        /\ answer'[s] \in Seq(Answers)
  BY <1>5 DEF RequestType, Shape
<1> QED BY <1>5, <1>6 DEF Typed, TypeOK, RequestType, TableType

\* Moving a row, or no step at all, leaves the requests alone.
LEMMA RowStepTyped ==
    ASSUME Typed, NEW id \in Ids, RowStep(id)
    PROVE  Typed'
<1>1. TableType
  BY TypedInParts
<1>2. TableType'
  BY <1>1, RowStepType
<1>3. UNCHANGED requestVars /\ messages' \subseteq messages /\ NoFault
  BY DEF RowStep, WorkerTakes, CancelRow
<1> QED BY <1>2, <1>3 DEF Typed, TypeOK, Shape, TableType, requestVars, NoFault

LEMMA NextIsAStep ==
    ASSUME Next
    PROVE  (\E r \in Requests : RequestStep(r)) \/ (\E id \in Ids : RowStep(id))
BY DEF Next, RequestStep, RowStep

LEMMA InitTyped ==
    Init => Typed
<1>1. <<>> \in Seq(Items) /\ Len(<<>>) = 0 /\ <<>> \in Seq(Answers)
  OBVIOUS
<1>2. DOMAIN <<>> = {}
  OBVIOUS
<1>3. <<>> \in UNION {[K -> Ids] : K \in SUBSET Keys}
  <2>1. <<>> \in [{} -> Ids]
    BY <1>2
  <2> QED BY <2>1
<1> SUFFICES ASSUME Init PROVE Typed
  OBVIOUS
<1>4. Shape
  BY <1>1, <1>3 DEF Init, Shape
<1>5. RequestType
  BY <1>1, <1>4, IntakeAssumption DEF Init, RequestType, Steps
<1>6. TableType /\ messages \subseteq Ids /\ faults \in 0 .. MaxFaults
  BY IntakeAssumption DEF Init, TableType, RowStates
<1> QED BY <1>5, <1>6, TypedInParts

LEMMA StepTyped ==
    Typed /\ [Next]_vars => Typed'
<1> SUFFICES ASSUME Typed, [Next]_vars PROVE Typed'
  OBVIOUS
<1>1. CASE Next
  BY <1>1, NextIsAStep, RequestStepType, RowStepTyped
<1>2. CASE UNCHANGED vars
  BY <1>2 DEF Typed, TypeOK, Shape, vars, requestVars
<1> QED BY <1>1, <1>2

\* The variables of Intake keep their types: in particular an answer names an
\* ID, and an ID has a row exactly when it has a status.
THEOREM IntakeTypeCorrect == Spec => []TypeOK
<1>1. Typed => TypeOK
  BY DEF Typed
<1> QED BY <1>1, InitTyped, StepTyped, PTL DEF Spec

----------------------------------------------------------------------------
(* What a request has done so far *)

RowsOf(r) == {id \in rows : id[1] = r}

\* A single create and a batch each do their own steps.
StepsOfItsMode(r) ==
    /\ step[r] \in {"new", "insert", "publish", "mark"} => mode[r] = "single"
    /\ step[r] \in {"precheck", "copy", "publishAll", "markAll"} => mode[r] = "batch"

\* Until it inserts, a request has neither rows nor an answer.
NothingYet(r) ==
    step[r] \in {"new", "insert", "precheck", "copy"} => RowsOf(r) = {} /\ answer[r] = <<>>

\* What it is about to publish has been inserted.
InsertedFirst(r) ==
    /\ step[r] \in {"publish", "mark"} => <<r, 1>> \in rows
    /\ step[r] = "publishAll" => ToInsert(r) \subseteq rows

\* The rows of a batch are those its decision accepted, or it has none.
AllOrNone(r) == mode[r] = "batch" => RowsOf(r) \in {{}, ToInsert(r)}

RequestProgress(r) ==
    StepsOfItsMode(r) /\ NothingYet(r) /\ InsertedFirst(r) /\ AllOrNone(r)

Progress == \A r \in Requests : RequestProgress(r)

\* Two rows with a key are one.
KeysUnique ==
    \A a, b \in rows : KeyOf(a) # NoKey /\ KeyOf(a) = KeyOf(b) => a = b

\* The decision depends on the items and the snapshot only.
LEMMA DecisionStands ==
    ASSUME NEW r, items'[r] = items[r], existingKeys'[r] = existingKeys[r]
    PROVE  ToInsert(r)' = ToInsert(r)
<1>1. \A i : /\ Resolves(r, i)' = Resolves(r, i)
             /\ EarlierWithKey(r, i)' = EarlierWithKey(r, i)
  BY DEF Resolves, EarlierWithKey
<1>2. \A i : IsAccepted(r, i)' = IsAccepted(r, i)
  BY <1>1 DEF IsAccepted, IsDuplicate, Invalid
<1> QED BY <1>2 DEF ToInsert

\* Which of its own variables a request sets, and from where.
LEMMA RequestStepKeeps ==
    ASSUME RequestType, NEW r \in Requests, RequestStep(r)
    PROVE  /\ step[r] # "new" => items' = items /\ mode' = mode
           /\ step[r] \notin {"new", "precheck"} => existingKeys' = existingKeys
           /\ step[r] \notin {"insert", "copy"} => answer' = answer
<1>1. CASE \E item \in Items : SubmitSingle(r, item)
  BY <1>1 DEF SubmitSingle
<1>2. CASE \E batch \in Batches : SubmitBatch(r, batch)
  BY <1>2 DEF SubmitBatch
<1>3. CASE SingleStep(r)
  BY <1>3 DEF SingleStep, RejectSingle, InsertSingle, InsertSingleFails, Replay, ReplayFails,
              PublishSingle, MarkSingle
<1>4. CASE BatchStep(r)
  BY <1>4 DEF BatchStep, Precheck, PrecheckFails, Copy, CopyConflicts, CopyFails,
              PublishAll, PublishSome, MarkAll
<1>5. CASE AbandonRequest(r)
  BY <1>5 DEF AbandonRequest
<1> QED BY <1>1, <1>2, <1>3, <1>4, <1>5 DEF RequestStep

\* The table grows by rows of the request only.
LEMMA RequestStepRows ==
    ASSUME Typed, NEW r \in Requests, RequestStep(r)
    PROVE  /\ rows \subseteq rows'
           /\ \A id \in rows' \ rows : id[1] = r
<1>1. CASE InsertsRow(r)
  BY <1>1 DEF InsertsRow, InsertRows
<1>2. CASE InsertsBatch(r)
  BY <1>2 DEF InsertsBatch, InsertRows, ToInsert
<1>3. CASE \E S \in SUBSET Ids : MarkQueuedIfPending(S)
  BY <1>3 DEF MarkQueuedIfPending
<1>4. CASE TableUnchanged
  BY <1>4 DEF TableUnchanged
<1>5. \/ InsertsRow(r) \/ InsertsBatch(r) \/ TableUnchanged
      \/ \E S \in SUBSET Ids : MarkQueuedIfPending(S)
  BY RequestStepTable
<1> QED BY <1>1, <1>2, <1>3, <1>4, <1>5

\* So the others stay where they are, with the rows they have.
LEMMA OthersProgress ==
    ASSUME Typed, NEW r \in Requests, RequestStep(r),
           NEW s \in Requests \ {r}, RequestProgress(s)
    PROVE  RequestProgress(s)'
<1>1. /\ step'[s] = step[s] /\ mode'[s] = mode[s] /\ items'[s] = items[s]
      /\ existingKeys'[s] = existingKeys[s] /\ answer'[s] = answer[s]
  BY RequestStepOthers, TypedInParts DEF OthersStay
<1>2. ToInsert(s)' = ToInsert(s)
  BY <1>1, DecisionStands
<1>3. rows \subseteq rows' /\ RowsOf(s)' = RowsOf(s)
  BY RequestStepRows DEF RowsOf
<1> QED BY <1>1, <1>2, <1>3
        DEF RequestProgress, StepsOfItsMode, NothingYet, InsertedFirst, AllOrNone

LEMMA SingleStepProgress ==
    ASSUME Typed, NEW r \in Requests, SingleStep(r), RequestProgress(r)
    PROVE  RequestProgress(r)'
<1>1. step[r] \in {"insert", "publish", "mark"} /\ mode[r] = "single" /\ mode' = mode
  BY DEF SingleStep, RejectSingle, InsertSingle, InsertSingleFails, Replay, ReplayFails,
         PublishSingle, MarkSingle, RequestProgress, StepsOfItsMode
<1>2. /\ step'[r] \in {"publish", "mark", "done"}
      /\ step'[r] = "publish" => <<r, 1>> \in rows'
      /\ step'[r] = "mark" => step[r] = "publish" /\ rows' = rows
  BY DEF SingleStep, RejectSingle, InsertSingle, InsertSingleFails, Replay, ReplayFails,
         PublishSingle, MarkSingle, Goto, Typed, TypeOK, TableUnchanged, InsertRows
<1>3. step'[r] = "mark" => <<r, 1>> \in rows'
  BY <1>2 DEF RequestProgress, InsertedFirst
<1> QED BY <1>1, <1>2, <1>3
        DEF RequestProgress, StepsOfItsMode, NothingYet, InsertedFirst, AllOrNone

LEMMA BatchStepProgress ==
    ASSUME Typed, NEW r \in Requests, BatchStep(r), RequestProgress(r)
    PROVE  RequestProgress(r)'
<1> USE DEF RequestProgress
<1>1. /\ step[r] \in {"precheck", "copy", "publishAll", "markAll"}
      /\ mode[r] = "batch" /\ mode' = mode
  BY DEF BatchStep, Precheck, PrecheckFails, Copy, CopyConflicts, CopyFails, PublishAll,
         PublishSome, MarkAll, StepsOfItsMode
<1>2. /\ step'[r] \in {"copy", "publishAll", "markAll", "done"}
      /\ step'[r] = "copy" => step[r] = "precheck" /\ rows' = rows /\ answer' = answer
      /\ step'[r] = "publishAll" => step[r] = "copy" /\ InsertRows(ToInsert(r))
  BY DEF BatchStep, Precheck, PrecheckFails, Copy, CopyConflicts, CopyFails, PublishAll,
         PublishSome, MarkAll, Goto, Typed, TypeOK, TableUnchanged
<1>3. StepsOfItsMode(r)'
  BY <1>1, <1>2 DEF StepsOfItsMode
<1>4. NothingYet(r)'
  BY <1>1, <1>2 DEF NothingYet, RowsOf
<1>5. step[r] # "precheck" => ToInsert(r)' = ToInsert(r)
  <2>1. step[r] # "precheck" => items' = items /\ existingKeys' = existingKeys
    BY <1>1, RequestStepKeeps, TypedInParts DEF RequestStep
  <2> QED BY <2>1, DecisionStands
<1>6. InsertedFirst(r)'
  BY <1>2, <1>5 DEF InsertedFirst, InsertRows
<1>7. AllOrNone(r)'
  <2>1. CASE step[r] = "precheck"
    <3>1. rows' = rows /\ RowsOf(r) = {}
      BY <2>1 DEF BatchStep, Precheck, PrecheckFails, Copy, CopyConflicts, CopyFails,
                  PublishAll, PublishSome, MarkAll, TableUnchanged, NothingYet
    <3> QED BY <3>1 DEF AllOrNone, RowsOf
  <2>2. CASE rows' = rows /\ step[r] # "precheck"
    BY <1>1, <1>5, <2>2 DEF AllOrNone, RowsOf
  <2>3. CASE step[r] = "copy" /\ InsertRows(ToInsert(r))
    <3>1. RowsOf(r) = {} /\ \A id \in ToInsert(r) : id[1] = r
      BY <2>3 DEF NothingYet, ToInsert
    <3>2. RowsOf(r)' = ToInsert(r)
      BY <2>3, <3>1 DEF InsertRows, RowsOf
    <3> QED BY <1>5, <2>3, <3>2 DEF AllOrNone
  <2>4. rows' = rows \/ (step[r] = "copy" /\ InsertRows(ToInsert(r)))
    BY DEF BatchStep, Precheck, PrecheckFails, Copy, CopyConflicts, CopyFails, PublishAll,
           PublishSome, MarkAll, TableUnchanged, MarkQueuedIfPending
  <2> QED BY <2>1, <2>2, <2>3, <2>4
<1> QED BY <1>3, <1>4, <1>6, <1>7

LEMMA OwnProgress ==
    ASSUME Typed, NEW r \in Requests, RequestStep(r), RequestProgress(r)
    PROVE  RequestProgress(r)'
<1> USE DEF RequestProgress, Goto, Typed, TypeOK
<1>1. CASE \E item \in Items : SubmitSingle(r, item)
  BY <1>1 DEF SubmitSingle, StepsOfItsMode, NothingYet, InsertedFirst, AllOrNone, RowsOf
<1>2. CASE \E batch \in Batches : SubmitBatch(r, batch)
  <2>1. /\ step'[r] = "precheck" /\ mode'[r] = "batch"
        /\ rows' = rows /\ answer' = answer /\ step[r] = "new"
    BY <1>2 DEF SubmitBatch
  <2>2. RowsOf(r)' = {} /\ answer'[r] = <<>>
    BY <2>1 DEF NothingYet, RowsOf
  <2> QED BY <2>1, <2>2 DEF StepsOfItsMode, NothingYet, InsertedFirst, AllOrNone
<1>3. CASE AbandonRequest(r)
  <2>1. /\ step'[r] = "done" /\ rows' = rows
        /\ UNCHANGED <<mode, items, existingKeys>>
    BY <1>3 DEF AbandonRequest, TableUnchanged
  <2>2. ToInsert(r)' = ToInsert(r) /\ RowsOf(r)' = RowsOf(r)
    BY <2>1, DecisionStands DEF RowsOf
  <2> QED BY <2>1, <2>2 DEF StepsOfItsMode, NothingYet, InsertedFirst, AllOrNone
<1> QED BY <1>1, <1>2, <1>3, SingleStepProgress, BatchStepProgress DEF RequestStep

LEMMA RowStepProgress ==
    ASSUME (\E id \in Ids : RowStep(id)) \/ UNCHANGED vars,
           NEW r \in Requests, RequestProgress(r)
    PROVE  RequestProgress(r)'
<1>1. UNCHANGED <<requestVars, rows>>
  BY DEF RowStep, WorkerTakes, CancelRow, vars
<1>2. UNCHANGED <<step, mode, items, existingKeys, answer, rows>>
  BY <1>1 DEF requestVars
<1>3. ToInsert(r)' = ToInsert(r) /\ RowsOf(r)' = RowsOf(r)
  BY <1>2, DecisionStands DEF RowsOf
<1> QED BY <1>2, <1>3
        DEF RequestProgress, StepsOfItsMode, NothingYet, InsertedFirst, AllOrNone

----------------------------------------------------------------------------
(* Keys, answers and messages *)

\* A row keeps the item it was made from: a request that submits has no rows.
LEMMA KeysStay ==
    ASSUME Typed, Progress, NEW r \in Requests, RequestStep(r)
    PROVE  \A id \in rows : KeyOf(id)' = KeyOf(id)
<1> SUFFICES ASSUME NEW id \in rows PROVE KeyOf(id)' = KeyOf(id)
  OBVIOUS
<1>1. id[1] \in Requests
  BY DEF Typed, TypeOK, Ids
<1>2. items'[id[1]] = items[id[1]]
  <2>1. CASE id[1] # r
    BY <1>1, <2>1, RequestStepOthers, TypedInParts DEF OthersStay
  <2>2. CASE id[1] = r
    <3>1. step[r] # "new"
      BY <2>2 DEF Progress, RequestProgress, NothingYet, RowsOf
    <3> QED BY <3>1, RequestStepKeeps, TypedInParts
  <2> QED BY <2>1, <2>2
<1> QED BY <1>2 DEF KeyOf, Item

LEMMA KeysStayUnique ==
    ASSUME Typed, Progress, KeysUnique, NEW r \in Requests, RequestStep(r)
    PROVE  KeysUnique'
<1>1. \A id \in rows : KeyOf(id)' = KeyOf(id)
  BY KeysStay
<1>2. ASSUME NEW S \in SUBSET Ids, Insertable(S), InsertRows(S), step[r] \in {"insert", "copy"}
      PROVE  KeysUnique'
  <2>1. \A id : KeyOf(id)' = KeyOf(id)
    <3>1. items' = items
      BY <1>2, RequestStepKeeps, TypedInParts
    <3> QED BY <3>1 DEF KeyOf, Item
  <2>2. \A a \in S, b \in rows \cup S : KeyOf(a) # NoKey /\ KeyOf(a) = KeyOf(b) => a = b
    BY <1>2 DEF Insertable, RowsWithKey
  <2>3. rows' = rows \cup S
    BY <1>2 DEF InsertRows
  <2>4. \A a, b \in rows \cup S : KeyOf(a) # NoKey /\ KeyOf(a) = KeyOf(b) => a = b
    BY <2>2 DEF KeysUnique
  <2>5. ASSUME NEW a \in rows', NEW b \in rows', KeyOf(a)' # NoKey, KeyOf(a)' = KeyOf(b)'
        PROVE  a = b
    BY <2>1, <2>3, <2>4, <2>5
  <2> QED BY <2>5 DEF KeysUnique
<1>3. CASE rows' = rows
  <2>1. ASSUME NEW a \in rows', NEW b \in rows', KeyOf(a)' # NoKey, KeyOf(a)' = KeyOf(b)'
        PROVE  a = b
    BY <1>1, <1>3, <2>1 DEF KeysUnique
  <2> QED BY <2>1 DEF KeysUnique
<1>4. {<<r, 1>>} \in SUBSET Ids /\ ToInsert(r) \in SUBSET Ids
  BY AcceptedIds, IntakeAssumption DEF Ids, Typed
<1>5. \/ InsertsRow(r) \/ InsertsBatch(r) \/ TableUnchanged
      \/ \E S \in SUBSET Ids : MarkQueuedIfPending(S)
  BY RequestStepTable
<1>6. CASE InsertsRow(r)
  BY <1>2, <1>4, <1>6 DEF InsertsRow
<1>7. CASE InsertsBatch(r)
  BY <1>2, <1>4, <1>7 DEF InsertsBatch
<1> QED BY <1>3, <1>5, <1>6, <1>7 DEF TableUnchanged, MarkQueuedIfPending

\* The answer of one request, as AnswersNameRows has it of all.
AnswerNamesRows(r) ==
    \A i \in DOMAIN answer[r] :
        answer[r][i].result \in {"accepted", "replayed"} =>
            /\ answer[r][i].id \in rows
            /\ KeyOf(answer[r][i].id) = items[r][i].key

\* What it answers when it answers.
LEMMA NewAnswer ==
    ASSUME Typed, NEW r \in Requests, RequestStep(r), step[r] \in {"insert", "copy"}
    PROVE  answer' = answer \/ AnswerNamesRows(r)'
<1>1. items' = items
  BY RequestStepKeeps, TypedInParts
<1>2. \A id : KeyOf(id)' = KeyOf(id)
  BY <1>1 DEF KeyOf, Item
<1>3. ASSUME NEW a, Answer(r, <<a>>)
      PROVE  /\ answer'[r] = <<a>>
             /\ DOMAIN answer'[r] = {1} /\ answer'[r][1] = a
  BY <1>3 DEF Answer, Typed, Shape
<1>4. CASE RejectSingle(r)
  BY <1>3, <1>4 DEF RejectSingle, AnswerNamesRows
<1>5. CASE InsertSingle(r)
  <2>1. /\ DOMAIN answer'[r] = {1}
        /\ answer'[r][1].id = <<r, 1>> /\ <<r, 1>> \in rows'
    BY <1>3, <1>5 DEF InsertSingle, InsertRows
  <2>2. KeyOf(<<r, 1>>) = items[r][1].key
    BY DEF KeyOf, Item
  <2> QED BY <1>1, <1>2, <2>1, <2>2 DEF AnswerNamesRows
<1>6. CASE Replay(r)
  <2>1. PICK id \in RowsWithKey(items[r][1].key) :
          Answer(r, <<[result |-> "replayed", id |-> id]>>)
    BY <1>6 DEF Replay
  <2>2. DOMAIN answer'[r] = {1} /\ answer'[r][1].id = id
    BY <1>3, <2>1
  <2>3. id \in rows' /\ KeyOf(id) = items[r][1].key
    BY <1>6 DEF RowsWithKey, Replay, TableUnchanged
  <2> QED BY <1>1, <1>2, <2>2, <2>3 DEF AnswerNamesRows
<1>7. CASE Copy(r)
  <2>1. answer'[r] = BatchAnswer(r) /\ ToInsert(r) \subseteq rows'
    BY <1>7 DEF Copy, Answer, Typed, Shape, InsertRows
  <2>2. ASSUME NEW i \in DOMAIN items[r], ItemAnswer(r, i).result \in {"accepted", "replayed"}
        PROVE  /\ ItemAnswer(r, i).id = <<r, i>> /\ <<r, i>> \in ToInsert(r)
               /\ KeyOf(<<r, i>>) = items[r][i].key
    BY <2>2 DEF ItemAnswer, ToInsert, KeyOf, Item
  <2>3. /\ DOMAIN answer'[r] = DOMAIN items[r]
        /\ \A i \in DOMAIN items[r] : answer'[r][i] = ItemAnswer(r, i)
    BY <2>1 DEF BatchAnswer
  <2>4. ASSUME NEW i \in DOMAIN items[r], answer'[r][i].result \in {"accepted", "replayed"}
        PROVE  answer'[r][i].id \in rows' /\ KeyOf(answer'[r][i].id) = items[r][i].key
    BY <2>1, <2>2, <2>3, <2>4
  <2> QED BY <1>1, <1>2, <2>3, <2>4 DEF AnswerNamesRows
<1>8. answer' = answer \/ RejectSingle(r) \/ InsertSingle(r) \/ Replay(r) \/ Copy(r)
  BY DEF RequestStep, SubmitSingle, SubmitBatch, SingleStep, BatchStep, AbandonRequest,
         InsertSingleFails, ReplayFails, PublishSingle, MarkSingle, Precheck, PrecheckFails,
         CopyConflicts, CopyFails, PublishAll, PublishSome, MarkAll
<1> QED BY <1>4, <1>5, <1>6, <1>7, <1>8

LEMMA AnswersStayTrue ==
    ASSUME Typed, Progress, AnswersNameRows, NEW r \in Requests, RequestStep(r)
    PROVE  AnswersNameRows'
<1>1. rows \subseteq rows' /\ \A id \in rows : KeyOf(id)' = KeyOf(id)
  BY RequestStepRows, KeysStay
<1>2. ASSUME NEW s \in Requests, answer'[s] = answer[s],
             answer[s] = <<>> \/ items'[s] = items[s]
      PROVE  AnswerNamesRows(s)'
  <2>1. AnswerNamesRows(s)
    BY DEF AnswersNameRows, AnswerNamesRows
  <2>2. DOMAIN <<>> = {}
    OBVIOUS
  <2> QED BY <1>1, <1>2, <2>1, <2>2 DEF AnswerNamesRows
<1>3. ASSUME NEW s \in Requests \ {r} PROVE AnswerNamesRows(s)'
  BY <1>2, RequestStepOthers, TypedInParts DEF OthersStay
<1>4. AnswerNamesRows(r)'
  <2>1. CASE answer' = answer
    <3>1. answer[r] = <<>> \/ items'[r] = items[r]
      BY RequestStepKeeps, TypedInParts DEF Progress, RequestProgress, NothingYet
    <3> QED BY <1>2, <2>1, <3>1
  <2>2. step[r] \notin {"insert", "copy"} => answer' = answer
    BY RequestStepKeeps, TypedInParts
  <2> QED BY <2>1, <2>2, NewAnswer
<1> QED BY <1>3, <1>4 DEF AnswersNameRows, AnswerNamesRows

LEMMA MessagesStayBacked ==
    ASSUME Typed, Progress, NoPhantomMessages, NEW r \in Requests, RequestStep(r)
    PROVE  NoPhantomMessages'
<1>1. rows \subseteq rows'
  BY RequestStepRows
<1>2. CASE UNCHANGED messages
  BY <1>1, <1>2 DEF NoPhantomMessages
<1>3. CASE PublishSingle(r)
  BY <1>1, <1>3 DEF PublishSingle, Progress, RequestProgress, InsertedFirst, NoPhantomMessages
<1>4. CASE PublishAll(r) \/ PublishSome(r)
  <2>1. ToPublish(r) \subseteq rows
    BY <1>4, AcceptedIds
    DEF PublishAll, PublishSome, Typed, Progress, RequestProgress, InsertedFirst
  <2> QED BY <1>1, <1>4, <2>1 DEF PublishAll, PublishSome, NoPhantomMessages
<1>5. UNCHANGED messages \/ PublishSingle(r) \/ PublishAll(r) \/ PublishSome(r)
  BY DEF RequestStep, SubmitSingle, SubmitBatch, SingleStep, BatchStep, AbandonRequest,
         RejectSingle, InsertSingle, InsertSingleFails, Replay, ReplayFails, MarkSingle,
         Precheck, PrecheckFails, Copy, CopyConflicts, CopyFails, MarkAll
<1> QED BY <1>2, <1>3, <1>4, <1>5

----------------------------------------------------------------------------
(* The inductive invariant, and what follows from it *)

IntakeInv == Typed /\ Progress /\ KeysUnique /\ AnswersNameRows /\ NoPhantomMessages

LEMMA InitInv ==
    Init => IntakeInv
<1> SUFFICES ASSUME Init PROVE IntakeInv
  OBVIOUS
<1>1. Typed
  BY InitTyped
<1>2. \A r \in Requests : step[r] = "new" /\ mode[r] = "single" /\ answer[r] = <<>>
  BY DEF Init
<1>3. rows = {} /\ messages = {}
  BY DEF Init
<1>4. Progress
  BY <1>2, <1>3
  DEF Progress, RequestProgress, StepsOfItsMode, NothingYet, InsertedFirst, AllOrNone, RowsOf
<1>5. AnswersNameRows
  <2>1. DOMAIN <<>> = {}
    OBVIOUS
  <2> QED BY <1>2, <2>1 DEF AnswersNameRows
<1> QED BY <1>1, <1>3, <1>4, <1>5 DEF IntakeInv, KeysUnique, NoPhantomMessages

LEMMA StepInv ==
    IntakeInv /\ [Next]_vars => IntakeInv'
<1> SUFFICES ASSUME IntakeInv, [Next]_vars PROVE IntakeInv'
  OBVIOUS
<1> USE DEF IntakeInv
<1>1. Typed'
  BY StepTyped
<1>2. CASE \E r \in Requests : RequestStep(r)
  <2>1. PICK r \in Requests : RequestStep(r)
    BY <1>2
  <2>2. Progress'
    BY <2>1, OwnProgress, OthersProgress DEF Progress
  <2>3. KeysUnique' /\ AnswersNameRows' /\ NoPhantomMessages'
    BY <2>1, KeysStayUnique, AnswersStayTrue, MessagesStayBacked
  <2> QED BY <1>1, <2>2, <2>3
<1>3. CASE (\E id \in Ids : RowStep(id)) \/ UNCHANGED vars
  <2>1. Progress'
    BY <1>3, RowStepProgress DEF Progress
  <2>2. UNCHANGED <<items, answer, rows>> /\ messages' \subseteq messages
    BY <1>3 DEF RowStep, WorkerTakes, CancelRow, vars, requestVars
  <2>3. KeysUnique' /\ AnswersNameRows' /\ NoPhantomMessages'
    BY <2>2 DEF KeysUnique, AnswersNameRows, NoPhantomMessages, KeyOf, Item
  <2> QED BY <1>1, <2>1, <2>3
<1> QED BY <1>2, <1>3, NextIsAStep

LEMMA InvHolds == Spec => []IntakeInv
BY InitInv, StepInv, PTL DEF Spec

\* A key never yields two notifications: whatever creates and batches with it
\* run at once, and whichever of their inserts fail after committing, the
\* partial unique index leaves one row of it.
THEOREM KeysYieldOneRow == Spec => []OneRowPerKey
<1>1. ASSUME KeysUnique PROVE OneRowPerKey
  <2>1. ASSUME NEW k \in Keys PROVE Cardinality(RowsWithKey(k)) <= 1
    <3>1. k # NoKey
      BY IntakeAssumption
    <3>2. \A a, b \in RowsWithKey(k) : a = b
      BY <1>1, <3>1 DEF KeysUnique, RowsWithKey
    <3>3. CASE RowsWithKey(k) = {}
      BY <3>3, FS_EmptySet
    <3>4. CASE RowsWithKey(k) # {}
      <4>1. PICK a \in RowsWithKey(k) : TRUE
        BY <3>4
      <4>2. RowsWithKey(k) = {a}
        BY <3>2, <4>1
      <4> QED BY <4>2, FS_Singleton
    <3> QED BY <3>3, <3>4
  <2> QED BY <2>1 DEF OneRowPerKey
<1>2. IntakeInv => OneRowPerKey
  BY <1>1 DEF IntakeInv
<1> QED BY <1>2, InvHolds, PTL

\* Create and CreateBatch tell the truth: what they call accepted, and what
\* Create replays, is a row of the table with the key the client sent.
THEOREM AnswersAreTrue == Spec => []AnswersNameRows
<1>1. IntakeInv => AnswersNameRows
  BY DEF IntakeInv
<1> QED BY <1>1, InvHolds, PTL

\* The repository's CreateBatch is all or nothing, whatever the client was told:
\* the COPY inserts the accepted items in one transaction, and until it the
\* batch has no row.
THEOREM BatchesAreAtomic == Spec => []BatchIsAtomic
<1>1. IntakeInv => BatchIsAtomic
  BY DEF IntakeInv, Progress, RequestProgress, AllOrNone, RowsOf, BatchIsAtomic
<1> QED BY <1>1, InvHolds, PTL

\* A rolled back insert leaves no phantom messages: PublishCreatedAll and
\* publishForDelivery come after the insert, of the rows it made.
THEOREM MessagesHaveRows == Spec => []NoPhantomMessages
<1>1. IntakeInv => NoPhantomMessages
  BY DEF IntakeInv
<1> QED BY <1>1, InvHolds, PTL

\* The accepted items of one batch do not share a key: the second would have
\* been answered as a duplicate.
LEMMA AcceptedKeysDiffer ==
    ASSUME Typed, NEW r \in Requests,
           NEW a \in ToInsert(r), NEW b \in ToInsert(r),
           KeyOf(a) # NoKey, KeyOf(a) = KeyOf(b)
    PROVE  a = b
<1>1. PICK i \in DOMAIN items[r] : a = <<r, i>> /\ IsAccepted(r, i)
  BY DEF ToInsert
<1>2. PICK j \in DOMAIN items[r] : b = <<r, j>> /\ IsAccepted(r, j)
  BY DEF ToInsert
<1>3. i \in 1 .. MaxItems /\ j \in 1 .. MaxItems
  BY ItemsOfRequest DEF Typed
<1>4. items[r][i].key = items[r][j].key /\ items[r][i].key # NoKey
  BY <1>1, <1>2 DEF KeyOf, Item
<1>5. Resolves(r, i) /\ Resolves(r, j)
      /\ EarlierWithKey(r, i) = {} /\ EarlierWithKey(r, j) = {}
  BY <1>1, <1>2, <1>4 DEF IsAccepted, IsDuplicate
<1>6. ~(i < j) /\ ~(j < i)
  <2>1. i < j => i \in EarlierWithKey(r, j)
    BY <1>3, <1>4, <1>5, IntakeAssumption DEF EarlierWithKey
  <2>2. j < i => j \in EarlierWithKey(r, i)
    BY <1>3, <1>4, <1>5, IntakeAssumption DEF EarlierWithKey
  <2> QED BY <1>5, <2>1, <2>2
<1>7. i = j
  BY <1>3, <1>6, IntakeAssumption
<1> QED BY <1>1, <1>2, <1>7

\* A batch that repeats a key, or a key the pre-check found, does not fail on
\* it: when its COPY conflicts, another request took a key that the pre-check
\* had not seen.
THEOREM ConflictsAreRaces == Spec => []ConflictNeedsRace
<1>1. ASSUME IntakeInv PROVE ConflictNeedsRace
  <2>1. SUFFICES ASSUME NEW r \in Requests, step[r] = "copy", ~Insertable(ToInsert(r))
                 PROVE  \E id \in rows :
                          id[1] # r /\ KeyOf(id) # NoKey
                          /\ KeyOf(id) \notin DOMAIN existingKeys[r]
    BY DEF ConflictNeedsRace
  <2>2. PICK a \in ToInsert(r) :
          /\ KeyOf(a) # NoKey
          /\ \/ RowsWithKey(KeyOf(a)) # {}
             \/ \E b \in ToInsert(r) : KeyOf(b) = KeyOf(a) /\ b # a
    BY <2>1 DEF Insertable
  <2>3. PICK id \in RowsWithKey(KeyOf(a)) : TRUE
    BY <1>1, <2>2, AcceptedKeysDiffer DEF IntakeInv
  <2>4. id \in rows /\ KeyOf(id) = KeyOf(a)
    BY <2>3 DEF RowsWithKey
  <2>5. id[1] # r
    BY <1>1, <2>1, <2>4 DEF IntakeInv, Progress, RequestProgress, NothingYet, RowsOf
  <2>6. KeyOf(a) \notin DOMAIN existingKeys[r]
    BY <2>2 DEF ToInsert, IsAccepted, IsDuplicate, KeyOf, Item
  <2> QED BY <2>2, <2>4, <2>5, <2>6
<1>2. IntakeInv => ConflictNeedsRace
  BY <1>1
<1> QED BY <1>2, InvHolds, PTL

\* Inserts make new rows, and the queued marks, workers and cancels move a row
\* along a transition of the lifecycle: a mark that comes late never pulls back
\* a row that a worker or a cancel has moved on.
THEOREM IntakeMovesLegally == Spec => RowsMoveLegally
<1>1. ASSUME IntakeInv, [Next]_vars PROVE [MovesLegally]_vars
  <2>1. TableType
    BY <1>1, TypedInParts DEF IntakeInv
  <2>2. CASE \E r \in Requests : RequestStep(r)
    <3>1. PICK r \in Requests : RequestStep(r)
      BY <2>2
    <3>2. {<<r, 1>>} \in SUBSET Ids /\ ToInsert(r) \in SUBSET Ids
      BY <1>1, AcceptedIds, IntakeAssumption DEF Ids, Typed, IntakeInv
    <3>3. step[r] \in {"insert", "copy"} => RowsOf(r) = {}
      BY <1>1 DEF IntakeInv, Progress, RequestProgress, NothingYet
    <3>4. CASE InsertsRow(r)
      <4>1. {<<r, 1>>} \cap rows = {}
        BY <3>3, <3>4 DEF InsertsRow, RowsOf
      <4> QED BY <2>1, <3>2, <3>4, <4>1, InsertRowsType DEF InsertsRow
    <3>5. CASE InsertsBatch(r)
      <4>1. ToInsert(r) \cap rows = {}
        BY <3>3, <3>5 DEF InsertsBatch, RowsOf, ToInsert
      <4> QED BY <2>1, <3>2, <3>5, <4>1, InsertRowsType DEF InsertsBatch
    <3>6. CASE \E S \in SUBSET Ids : MarkQueuedIfPending(S)
      BY <2>1, <3>6, MarkQueuedType
    <3>7. CASE TableUnchanged
      BY <2>1, <3>7, TableUnchangedType
    <3>8. \/ InsertsRow(r) \/ InsertsBatch(r) \/ TableUnchanged
          \/ \E S \in SUBSET Ids : MarkQueuedIfPending(S)
      BY <1>1, <3>1, RequestStepTable DEF IntakeInv
    <3> QED BY <3>4, <3>5, <3>6, <3>7, <3>8
  <2>3. CASE \E id \in Ids : RowStep(id)
    BY <2>1, <2>3, RowStepType
  <2> QED BY <1>1, <2>2, <2>3, NextIsAStep
<1>2. IntakeInv /\ [Next]_vars => [MovesLegally]_vars
  BY <1>1
<1>3. []IntakeInv /\ [][Next]_vars => RowsMoveLegally
  BY <1>2, PTL DEF RowsMoveLegally, MovesLegally
<1> QED BY <1>3, InvHolds, PTL DEF Spec

=============================================================================
