-------------------------- MODULE PublisherProofs --------------------------
(***************************************************************************)
(* Proofs about Publisher: types, and that it keeps the promise of          *)
(* ConfirmedPublish for every set of callers and every size of burst.       *)
(***************************************************************************)
EXTENDS Publisher, TLAPS

\* Setting one message's entry keeps a table of fates or confirmations one, and
\* leaves the other entries alone.
LEMMA SetEntry ==
    ASSUME NEW S, NEW f \in [Confirmed -> [Slots -> S]],
           NEW c \in Confirmed, NEW i \in Slots, NEW v \in S
    PROVE  /\ [f EXCEPT ![c][i] = v] \in [Confirmed -> [Slots -> S]]
           /\ \A d \in Confirmed, j \in Slots :
                [f EXCEPT ![c][i] = v][d][j] = IF d = c /\ j = i THEN v ELSE f[d][j]
<1> DEFINE g == [f[c] EXCEPT ![i] = v]
<1>1. g \in [Slots -> S] /\ \A j \in Slots : g[j] = IF j = i THEN v ELSE f[c][j]
  OBVIOUS
<1>2. [f EXCEPT ![c][i] = v] = [f EXCEPT ![c] = g]
  OBVIOUS
<1> HIDE DEF g
<1> QED BY <1>1, <1>2

\* Closing a channel keeps its confirmations confirmations.
LEMMA LeaveUnconfirmedType ==
    ASSUME confirm \in [Confirmed -> [Slots -> {"open", "ack", "nack"}]], LeaveUnconfirmed
    PROVE  /\ confirm' \in [Confirmed -> [Slots -> {"open", "ack", "nack"}]]
           /\ channelOpen' \in BOOLEAN
BY DEF LeaveUnconfirmed

\* A step of an emitter hands on eventMu and its own place.
LEMMA EmitterStep ==
    ASSUME NEW c \in Callers, LockEvents(c) \/ PublishEvent(c),
           at \in [Callers -> {"idle", "locking", "publishing", "awaiting", "returned"}]
    PROVE  /\ eventHolder' \in Emitters \cup {Nobody}
           /\ at' \in [Callers -> {"idle", "locking", "publishing", "awaiting", "returned"}]
           /\ UNCHANGED <<holder, sent, settled, acked, brokerVars, stopped>>
BY DEF LockEvents, PublishEvent, Goto

\* Types hold from the start and in every step.
THEOREM PublisherTypes == Spec => []TypeOK
<1> USE PublisherAssumption DEF PublisherAssumption, Callers, Confirmed, Slots
<1>1. Init => TypeOK
  <2> SUFFICES ASSUME Init PROVE TypeOK
    OBVIOUS
  <2>1. /\ fate \in [Confirmed -> [Slots -> {"unsent", "sent", "accepted", "refused"}]]
        /\ confirm \in [Confirmed -> [Slots -> {"open", "ack", "nack"}]]
    BY DEF Init
  <2>2. \A c \in Confirmed : settled[c] <= sent[c] /\ sent[c] <= Size(c)
    BY DEF Init, Size
  <2>3. /\ at \in [Callers -> {"idle", "locking", "publishing", "awaiting", "returned"}]
        /\ sent \in [Confirmed -> 0 .. BurstSize] /\ settled \in [Confirmed -> 0 .. BurstSize]
        /\ acked \in [Confirmed -> SUBSET Slots]
    BY DEF Init
  <2>4. /\ holder \in Confirmed \cup {Nobody} /\ eventHolder \in Emitters \cup {Nobody}
        /\ connection \in {"flowing", "blocked", "lost"}
        /\ channelOpen \in BOOLEAN /\ stopped \in BOOLEAN
    BY DEF Init
  <2> QED BY <2>1, <2>2, <2>3, <2>4 DEF TypeOK
<1>2. TypeOK /\ [Next]_vars => TypeOK'
  <2> SUFFICES ASSUME TypeOK, [Next]_vars PROVE TypeOK'
    OBVIOUS
  <2> USE DEF TypeOK
  <2>1. ASSUME NEW c \in Callers, Lock(c) PROVE TypeOK'
    BY <2>1 DEF Lock, Goto, brokerVars
  <2>2. ASSUME NEW c \in Callers, Publish(c) PROVE TypeOK'
    <3>1. Size(c) \in 1 .. BurstSize /\ sent[c] < Size(c) /\ sent[c] \in Nat
      BY <2>2 DEF Publish, Size
    <3>2. sent' \in [Confirmed -> 0 .. BurstSize]
      BY <2>2, <3>1 DEF Publish
    <3>3. fate' \in [Confirmed -> [Slots -> {"unsent", "sent", "accepted", "refused"}]]
      BY <2>2 DEF Publish
    <3>4. \A d \in Confirmed : settled'[d] <= sent'[d] /\ sent'[d] <= Size(d)
      BY <2>2, <3>1 DEF Publish
    <3> QED BY <2>2, <3>2, <3>3, <3>4 DEF Publish
  <2>3. ASSUME NEW c \in Callers, EndPublishing(c) PROVE TypeOK'
    BY <2>3 DEF EndPublishing, Goto, brokerVars
  <2>4. ASSUME NEW c \in Callers, LockEvents(c) \/ PublishEvent(c) PROVE TypeOK'
    <3>1. /\ eventHolder' \in Emitters \cup {Nobody}
          /\ at' \in [Callers -> {"idle", "locking", "publishing", "awaiting", "returned"}]
          /\ UNCHANGED <<holder, sent, settled, acked>>
          /\ UNCHANGED <<fate, confirm, channelOpen, connection, stopped>>
      BY <2>4, EmitterStep DEF brokerVars
    <3> QED BY <3>1
  <2>5. ASSUME NEW c \in Callers, AwaitConfirm(c) \/ AwaitExpires(c) PROVE TypeOK'
    <3>1. Awaiting(c) /\ Settle(c)
      BY <2>5 DEF AwaitConfirm, AwaitExpires
    <3>2. settled' \in [Confirmed -> 0 .. BurstSize]
      BY <3>1 DEF Awaiting, Settle, Size
    <3>3. \A d \in Confirmed : settled'[d] <= sent[d]
      BY <3>1 DEF Awaiting, Settle
    <3>4. UNCHANGED <<holder, eventHolder, at, sent, brokerVars, stopped>>
      BY <2>5 DEF AwaitConfirm, AwaitExpires
    <3>5. acked' \in [Confirmed -> SUBSET Slots]
      <4>1. CASE AwaitExpires(c)
        BY <4>1 DEF AwaitExpires
      <4>2. CASE AwaitConfirm(c)
        <5>1. settled[c] \in Nat /\ sent[c] \in 0 .. BurstSize /\ settled[c] < sent[c]
          BY <3>1 DEF Awaiting
        <5>2. settled[c] + 1 \in Slots
          BY <5>1
        <5> DEFINE A == {i \in {settled[c]+1} : confirm[c][i] = "ack"}
        <5>3. acked' = [acked EXCEPT ![c] = @ \cup A]
          BY <4>2 DEF AwaitConfirm
        <5>4. A \in SUBSET Slots
          BY <5>2
        <5> HIDE DEF A
        <5> QED BY <5>3, <5>4
      <4> QED BY <2>5, <4>1, <4>2
    <3> QED BY <3>2, <3>3, <3>4, <3>5 DEF brokerVars
  <2>6. ASSUME NEW c \in Callers, Return(c) PROVE TypeOK'
    BY <2>6 DEF Return, Goto, brokerVars
  <2>7. ASSUME NEW c \in Confirmed, NEW i \in Slots, Accept(c, i) \/ Refuse(c, i) PROVE TypeOK'
    <3>1. fate' \in [Confirmed -> [Slots -> {"unsent", "sent", "accepted", "refused"}]]
      <4>1. PICK v \in {"accepted", "refused"} : fate' = [fate EXCEPT ![c][i] = v]
        BY <2>7 DEF Accept, Refuse
      <4> QED BY <4>1, SetEntry
    <3>2. confirm' \in [Confirmed -> [Slots -> {"open", "ack", "nack"}]]
      <4>1. \/ \E v \in {"ack", "nack"} : confirm' = [confirm EXCEPT ![c][i] = v]
            \/ confirm' = confirm
        BY <2>7 DEF Accept, Refuse
      <4>2. CASE confirm' = confirm
        BY <4>2
      <4>3. ASSUME NEW v \in {"ack", "nack"}, confirm' = [confirm EXCEPT ![c][i] = v]
            PROVE  confirm' \in [Confirmed -> [Slots -> {"open", "ack", "nack"}]]
        BY <4>3, SetEntry
      <4> QED BY <4>1, <4>2, <4>3
    <3> QED BY <2>7, <3>1, <3>2 DEF Accept, Refuse, callerVars
  <2>8. CASE CloseChannel \/ LoseConnection
    <3>1. LeaveUnconfirmed /\ UNCHANGED <<callerVars, fate, stopped>>
      BY <2>8 DEF CloseChannel, LoseConnection
    <3>2. connection' \in {"flowing", "blocked", "lost"}
      BY <2>8 DEF CloseChannel, LoseConnection
    <3>3. /\ confirm' \in [Confirmed -> [Slots -> {"open", "ack", "nack"}]]
          /\ channelOpen' \in BOOLEAN
      BY <3>1, LeaveUnconfirmedType
    <3> QED BY <3>1, <3>2, <3>3 DEF callerVars
  <2>9. CASE BlockConnection \/ UnblockConnection \/ Stop \/ UNCHANGED vars
    <3>1. UNCHANGED <<callerVars, fate, confirm, channelOpen>>
      BY <2>9 DEF BlockConnection, UnblockConnection, Stop, vars, brokerVars
    <3>2. connection' \in {"flowing", "blocked", "lost"} /\ stopped' \in BOOLEAN
      BY <2>9 DEF BlockConnection, UnblockConnection, Stop, vars, brokerVars
    <3> QED BY <3>1, <3>2 DEF callerVars
  <2> QED
    BY <2>1, <2>2, <2>3, <2>4, <2>5, <2>6, <2>7, <2>8, <2>9 DEF Next, CallerStep
<1> QED BY <1>1, <1>2, PTL DEF Spec

----------------------------------------------------------------------------
(* Success is said of accepted messages only *)

\* A message the broker has seen was published, and whatever says that it was
\* accepted, the confirmation or the caller's own list, says so of one that was.
AcksAreFounded ==
    \A c \in Confirmed, i \in Slots :
        /\ fate[c][i] # "unsent" => i <= sent[c]
        /\ confirm[c][i] = "ack" => fate[c][i] = "accepted"
        /\ i \in acked[c] => fate[c][i] = "accepted"

\* publishConfirmed and PublishCreatedAll take success from nothing but the
\* broker's ack.
THEOREM AcksFounded == Spec => []AcksAreFounded
<1> USE DEF AcksAreFounded
<1>1. Init => AcksAreFounded
  BY DEF Init
<1>2. ASSUME TypeOK, AcksAreFounded, [Next]_vars PROVE AcksAreFounded'
  <2> USE <1>2 DEF TypeOK
  <2>1. ASSUME NEW c \in Confirmed, Publish(c) PROVE AcksAreFounded'
    <3>1. sent[c]+1 \in Slots /\ ~(sent[c]+1 <= sent[c])
      BY <2>1, PublisherAssumption DEF Publish, Size, Slots, PublisherAssumption
    <3>2. \A d \in Confirmed, j \in Slots :
            fate'[d][j] = IF d = c /\ j = sent[c]+1 THEN "sent" ELSE fate[d][j]
      BY <2>1, <3>1, SetEntry DEF Publish
    <3>3. \A d \in Confirmed : sent'[d] = IF d = c THEN sent[c]+1 ELSE sent[d]
      BY <2>1 DEF Publish
    <3> QED BY <2>1, <3>1, <3>2, <3>3 DEF Publish, Slots
  <2>2. ASSUME NEW c \in Confirmed, AwaitConfirm(c) PROVE AcksAreFounded'
    BY <2>2 DEF AwaitConfirm, brokerVars
  <2>3. ASSUME NEW c \in Confirmed, NEW i \in Slots, Accept(c, i) PROVE AcksAreFounded'
    <3>1. \A d \in Confirmed, j \in Slots :
            fate'[d][j] = IF d = c /\ j = i THEN "accepted" ELSE fate[d][j]
      BY <2>3, SetEntry DEF Accept
    <3>2. CASE confirm' = confirm
      BY <2>3, <3>1, <3>2 DEF Accept, callerVars
    <3>3. CASE confirm' = [confirm EXCEPT ![c][i] = "ack"]
      <4>1. \A d \in Confirmed, j \in Slots :
              confirm'[d][j] = IF d = c /\ j = i THEN "ack" ELSE confirm[d][j]
        BY <3>3, SetEntry
      <4> QED BY <2>3, <3>1, <4>1 DEF Accept, callerVars
    <3> QED BY <2>3, <3>2, <3>3 DEF Accept
  <2>4. ASSUME NEW c \in Confirmed, NEW i \in Slots, Refuse(c, i) PROVE AcksAreFounded'
    <3>1. \A d \in Confirmed, j \in Slots :
            fate'[d][j] = IF d = c /\ j = i THEN "refused" ELSE fate[d][j]
      BY <2>4, SetEntry DEF Refuse
    <3>2. \A d \in Confirmed, j \in Slots :
            confirm'[d][j] = IF d = c /\ j = i THEN "nack" ELSE confirm[d][j]
      BY <2>4, SetEntry DEF Refuse
    <3> QED BY <2>4, <3>1, <3>2 DEF Refuse, callerVars
  <2>5. CASE CloseChannel \/ LoseConnection
    BY <2>5 DEF CloseChannel, LoseConnection, LeaveUnconfirmed, callerVars
  <2>6. CASE UNCHANGED <<sent, acked, fate, confirm>>
    BY <2>6
  <2>7. ASSUME NEW c \in Callers,
               \/ Lock(c) \/ EndPublishing(c) \/ AwaitExpires(c) \/ Return(c)
               \/ LockEvents(c) \/ PublishEvent(c)
        PROVE  AcksAreFounded'
    BY <2>6, <2>7
    DEF Lock, EndPublishing, LockEvents, PublishEvent, AwaitExpires, Return, brokerVars
  <2>8. CASE BlockConnection \/ UnblockConnection \/ Stop \/ UNCHANGED vars
    BY <2>6, <2>8 DEF BlockConnection, UnblockConnection, Stop, vars, callerVars, brokerVars
  <2>9. \A c \in Callers : Publish(c) \/ AwaitConfirm(c) => c \in Confirmed
    BY DEF Publish, AwaitConfirm, Awaiting
  <2> QED
    BY <2>1, <2>2, <2>3, <2>4, <2>5, <2>7, <2>8, <2>9 DEF Next, CallerStep
<1> QED BY <1>1, <1>2, PublisherTypes, PTL DEF Spec

\* Every step is a submission, an acceptance or an answer of ConfirmedPublish, or
\* none of them: whatever the broker, the channel and the callers' contexts do,
\* success is said of an accepted message, once, and nothing is published for a
\* call that has been answered.
THEOREM ConfirmsHonest == Spec => ConfirmsAreHonest
<1> USE DEF Messages, Answered
<1>1. Init => Promise!Init
  <2> SUFFICES ASSUME Init PROVE Promise!Init
    OBVIOUS
  <2>1. \A m \in Messages : ~(m[2] <= sent[m[1]]) /\ fate[m[1]][m[2]] # "accepted"
    BY DEF Init, Slots
  <2>2. Answered = {}
    BY DEF Init, Confirmed, Callers
  <2> QED BY <2>1, <2>2 DEF Promise!Init
<1>2. ASSUME TypeOK, AcksAreFounded, [Next]_vars PROVE [Promise!Next]_(Promise!vars)
  <2> USE <1>2 DEF TypeOK
  <2>1. ASSUME NEW c \in Confirmed, Publish(c) PROVE Promise!Submit
    <3> DEFINE m == <<c, sent[c]+1>>
    <3>1. m \in Messages /\ ~(m[2] <= sent[m[1]]) /\ at[c] # "returned"
      BY <2>1, PublisherAssumption DEF Publish, Size, Slots, PublisherAssumption
    <3>2. \A d \in Confirmed, j \in Slots :
            fate'[d][j] = IF d = c /\ j = sent[c]+1 THEN "sent" ELSE fate[d][j]
      BY <2>1, <3>1, SetEntry DEF Publish
    <3>3. fate[c][sent[c]+1] # "accepted"
      BY <3>1 DEF AcksAreFounded
    <3>4. {n \in Messages : n[2] <= sent'[n[1]]}
            = {n \in Messages : n[2] <= sent[n[1]]} \cup {m}
      BY <2>1, <3>1 DEF Publish, Slots
    <3>5. {n \in Messages : fate'[n[1]][n[2]] = "accepted"}
            = {n \in Messages : fate[n[1]][n[2]] = "accepted"}
      BY <3>2, <3>3
    <3>6. UNCHANGED <<at, acked>>
      BY <2>1 DEF Publish
    <3>7. m \in Promise!Unanswered \ {n \in Messages : n[2] <= sent[n[1]]}
      BY <3>1 DEF Promise!Unanswered
    <3>8. /\ {n \in Answered' : n[2] \in acked'[n[1]]} = {n \in Answered : n[2] \in acked[n[1]]}
          /\ {n \in Answered' : n[2] \notin acked'[n[1]]}
               = {n \in Answered : n[2] \notin acked[n[1]]}
      BY <3>6
    <3> HIDE DEF m
    <3> QED BY <3>4, <3>5, <3>7, <3>8 DEF Promise!Submit
  <2>2. ASSUME NEW c \in Confirmed, NEW i \in Slots, Accept(c, i) PROVE Promise!Accept
    <3> DEFINE m == <<c, i>>
    <3>1. m \in Messages /\ m[2] <= sent[m[1]] /\ fate[m[1]][m[2]] # "accepted"
      BY <2>2 DEF Accept, AcksAreFounded, Slots, Size
    <3>2. \A d \in Confirmed, j \in Slots :
            fate'[d][j] = IF d = c /\ j = i THEN "accepted" ELSE fate[d][j]
      BY <2>2, SetEntry DEF Accept
    <3>3. {n \in Messages : fate'[n[1]][n[2]] = "accepted"}
            = {n \in Messages : fate[n[1]][n[2]] = "accepted"} \cup {m}
      BY <3>1, <3>2
    <3>4. UNCHANGED <<sent, at, acked>>
      BY <2>2 DEF Accept, callerVars
    <3> QED BY <3>1, <3>3, <3>4 DEF Promise!Accept
  <2>3. ASSUME NEW c \in Confirmed, Return(c) PROVE Promise!Answer
    <3> DEFINE M == {m \in Messages : m[1] = c}
               C == {m \in M : m[2] \in acked[c]}
    <3>1. M \in SUBSET Promise!Unanswered
      BY <2>3 DEF Return, Promise!Unanswered
    <3>2. C \in SUBSET {m \in Messages : fate[m[1]][m[2]] = "accepted"}
      BY DEF AcksAreFounded
    <3>3. /\ UNCHANGED <<sent, fate, acked>>
          /\ UNCHANGED {m \in Messages : m[2] <= sent[m[1]]}
          /\ UNCHANGED {m \in Messages : fate[m[1]][m[2]] = "accepted"}
      BY <2>3 DEF Return, brokerVars
    <3>4. Answered' = Answered \cup M
      BY <2>3 DEF Return, Goto, Confirmed, Callers
    <3>5. {m \in Answered : m[2] \in acked[m[1]]}'
            = {m \in Answered : m[2] \in acked[m[1]]} \cup (C \cap M)
      BY <3>3, <3>4
    <3>6. {m \in Answered : m[2] \notin acked[m[1]]}'
            = {m \in Answered : m[2] \notin acked[m[1]]} \cup (M \ C)
      BY <3>3, <3>4
    <3> HIDE DEF M, C, Answered
    <3> QED BY <3>1, <3>2, <3>3, <3>5, <3>6 DEF Promise!Answer
  <2>4. ASSUME NEW c \in Confirmed, NEW i \in Slots, Refuse(c, i) PROVE UNCHANGED Promise!vars
    <3>1. \A d \in Confirmed, j \in Slots :
            fate'[d][j] = IF d = c /\ j = i THEN "refused" ELSE fate[d][j]
      BY <2>4, SetEntry DEF Refuse
    <3>2. {n \in Messages : fate'[n[1]][n[2]] = "accepted"}
            = {n \in Messages : fate[n[1]][n[2]] = "accepted"}
      BY <2>4, <3>1 DEF Refuse
    <3>3. UNCHANGED <<sent, at, acked>>
      BY <2>4 DEF Refuse, callerVars
    <3> QED BY <3>2, <3>3 DEF Promise!vars
  <2>5. ASSUME UNCHANGED <<sent, fate>>,
               \A c \in Confirmed :
                 /\ at'[c] = "returned" <=> at[c] = "returned"
                 /\ at[c] = "returned" => acked'[c] = acked[c]
        PROVE  UNCHANGED Promise!vars
    <3>1. Answered' = Answered
      BY <2>5
    <3>2. {m \in Answered' : m[2] \in acked'[m[1]]} = {m \in Answered : m[2] \in acked[m[1]]}
      BY <2>5, <3>1
    <3>3. {m \in Answered' : m[2] \notin acked'[m[1]]}
            = {m \in Answered : m[2] \notin acked[m[1]]}
      BY <2>5, <3>1
    <3> QED BY <2>5, <3>2, <3>3 DEF Promise!vars
  <2>6. ASSUME NEW c \in Callers,
               Lock(c) \/ EndPublishing(c) \/ LockEvents(c) \/ PublishEvent(c)
        PROVE  UNCHANGED Promise!vars
    BY <2>5, <2>6, PublisherAssumption
    DEF Lock, EndPublishing, LockEvents, PublishEvent, Goto, brokerVars, Confirmed, Callers,
        PublisherAssumption
  <2>7. ASSUME NEW c \in Callers, AwaitConfirm(c) \/ AwaitExpires(c)
        PROVE  UNCHANGED Promise!vars
    BY <2>5, <2>7 DEF AwaitConfirm, AwaitExpires, Awaiting, brokerVars
  <2>8. CASE \/ CloseChannel \/ LoseConnection \/ BlockConnection \/ UnblockConnection
             \/ Stop \/ UNCHANGED vars
    BY <2>5, <2>8
    DEF CloseChannel, LoseConnection, LeaveUnconfirmed, BlockConnection, UnblockConnection,
        Stop, vars, callerVars, brokerVars
  <2>9. \A c \in Callers : Publish(c) \/ Return(c) => c \in Confirmed
    BY DEF Publish, Return
  <2> QED
    BY <2>1, <2>2, <2>3, <2>4, <2>6, <2>7, <2>8, <2>9 DEF Next, CallerStep, Promise!Next
<1> QED
  BY <1>1, <1>2, PublisherTypes, AcksFounded, PTL DEF Spec, ConfirmsAreHonest, Promise!Spec
=============================================================================
