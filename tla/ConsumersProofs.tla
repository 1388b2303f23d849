-------------------------- MODULE ConsumersProofs ---------------------------
(***************************************************************************)
(* Theorems about Consumers, for every set of queues and messages, every    *)
(* prefetch and concurrency, and every choice and number of faults.         *)
(***************************************************************************)
EXTENDS Consumers, TLAPS

----------------------------------------------------------------------------
(* The inductive invariant. Two facts about the supervisors carry the       *)
(* properties: only a supervisor inside consumeUntilPaused has an open      *)
(* channel (ChannelIsSupervised), and only one in a wait or a select has a  *)
(* check under way.                                                         *)

CheckIsAwaited ==
    \A q \in Queues : reading[q] # "nothing" => supervisor[q] \in {"waiting", "consuming"}

Supervised == ChannelIsSupervised /\ CheckIsAwaited

ConsumersInv == Types /\ Supervised /\ NothingLeftBehind /\ UnackedIsInHand

LEMMA ConsumersFaultsType ==
    ASSUME FaultsTypeOK, NoFault \/ \E k \in AllFaultKinds : Fault(k)
    PROVE  FaultsTypeOK'
BY FaultsAssumption DEF FaultsTypeOK, NoFault, Fault

\* Steps of a supervisor and of its checks keep the types.
LEMMA SupervisorStepType ==
    ASSUME Types, NEW q \in Queues, CheckStep(q) \/ SupervisorStep(q)
    PROVE  Types'
<1> USE DEF Types, SupervisorStates, Enter, supervisorVars, amqpVars
<1>1. FaultsTypeOK'
  <2>1. "worker.database" \in AllFaultKinds
    BY DEF AllFaultKinds
  <2>2. NoFault \/ Fault("worker.database")
    BY DEF CheckStep, SupervisorStep, ReadFlag, CheckSucceeds, CheckFails, StopWaiting,
           Subscribe, SubscribeFails, NoticeStop, NoticeDead, CancelConsumer, FinishDraining
  <2> QED BY <2>1, <2>2, ConsumersFaultsType
<1>2. CASE ReadFlag(q)
  BY <1>1, <1>2 DEF ReadFlag
<1>3. CASE CheckSucceeds(q)
  BY <1>1, <1>3 DEF CheckSucceeds, Act
<1>4. CASE CheckFails(q)
  BY <1>1, <1>4 DEF CheckFails, Act
<1>5. CASE StopWaiting(q) \/ SubscribeFails(q) \/ NoticeStop(q) \/ NoticeDead(q)
  BY <1>1, <1>5 DEF StopWaiting, SubscribeFails, NoticeStop, NoticeDead
<1>6. CASE Subscribe(q)
  BY <1>1, <1>6 DEF Subscribe
<1>7. CASE CancelConsumer(q)
  BY <1>1, <1>7 DEF CancelConsumer
<1>8. CASE FinishDraining(q)
  BY <1>1, <1>8 DEF FinishDraining, RequeueUnacked
<1> QED
  BY <1>2, <1>3, <1>4, <1>5, <1>6, <1>7, <1>8 DEF CheckStep, SupervisorStep

\* Steps on a message keep the types.
LEMMA MessageStepType ==
    ASSUME Types, NEW m \in Messages, Push(m) \/ HandlerStep(m)
    PROVE  Types'
<1> USE DEF Types, supervisorVars, amqpVars
<1>1. FaultsTypeOK'
  <2>1. "worker.database" \in AllFaultKinds
    BY DEF AllFaultKinds
  <2>2. NoFault \/ Fault("worker.database")
    BY DEF Push, HandlerStep, StartHandling, RequeueWhileDraining, FinishHandling, HandlingFails
  <2> QED BY <2>1, <2>2, ConsumersFaultsType
<1>2. CASE Push(m)
  BY <1>1, <1>2 DEF Push
<1>3. CASE StartHandling(m)
  BY <1>1, <1>3 DEF StartHandling
<1>4. CASE RequeueWhileDraining(m) \/ FinishHandling(m) \/ HandlingFails(m)
  BY <1>1, <1>4 DEF RequeueWhileDraining, FinishHandling, HandlingFails, Settle
<1> QED BY <1>2, <1>3, <1>4 DEF HandlerStep

\* Steps of the surroundings keep the types.
LEMMA SurroundingsType ==
    ASSUME Types,
           SetPaused \/ Shutdown \/ LoseConnection \/ Restart \/ \E q \in Queues : LoseChannel(q)
    PROVE  Types'
<1> USE DEF Types, SupervisorStates, supervisorVars, amqpVars
<1>1. FaultsTypeOK'
  <2>1. {"worker.shutdown", "worker.connection", "worker.channel"} \subseteq AllFaultKinds
    BY DEF AllFaultKinds
  <2>2. NoFault \/ \E k \in AllFaultKinds : Fault(k)
    BY <2>1 DEF SetPaused, Shutdown, LoseConnection, Restart, LoseChannel
  <2> QED BY <2>2, ConsumersFaultsType
<1>2. CASE SetPaused
  BY <1>1, <1>2 DEF SetPaused
<1>3. CASE Shutdown
  BY <1>1, <1>3 DEF Shutdown
<1>4. CASE LoseConnection
  BY <1>1, <1>4 DEF LoseConnection, CloseChannels, RequeueUnacked
<1>5. CASE Restart
  BY <1>1, <1>5 DEF Restart, RequeueUnacked
<1>6. CASE \E q \in Queues : LoseChannel(q)
  BY <1>1, <1>6 DEF LoseChannel, CloseChannels, RequeueUnacked
<1> QED BY <1>2, <1>3, <1>4, <1>5, <1>6

LEMMA TypeStep == Types /\ [Next]_vars => Types'
<1> SUFFICES ASSUME Types, [Next]_vars PROVE Types'
  OBVIOUS
<1>1. CASE Next
  BY <1>1, SupervisorStepType, MessageStepType, SurroundingsType DEF Next
<1>2. CASE UNCHANGED vars
  BY <1>2 DEF vars, Types, supervisorVars, amqpVars, FaultsTypeOK
<1> QED BY <1>1, <1>2

----------------------------------------------------------------------------
(* Where the supervisors are *)

LEMMA SupervisedStep ==
    ASSUME Types, Supervised, [Next]_vars
    PROVE  Supervised'
<1> USE DEF Types, Supervised, ChannelIsSupervised, CheckIsAwaited, Enter,
            supervisorVars, amqpVars
<1>1. ASSUME NEW q \in Queues, ReadFlag(q) PROVE Supervised'
  BY <1>1 DEF ReadFlag
<1>2. ASSUME NEW q \in Queues, CheckSucceeds(q) \/ CheckFails(q) PROVE Supervised'
  BY <1>2 DEF CheckSucceeds, CheckFails, Act
<1>3. ASSUME NEW q \in Queues, StopWaiting(q) \/ SubscribeFails(q) \/ NoticeStop(q) \/ NoticeDead(q)
      PROVE  Supervised'
  BY <1>3 DEF StopWaiting, SubscribeFails, NoticeStop, NoticeDead
<1>4. ASSUME NEW q \in Queues, Subscribe(q) PROVE Supervised'
  BY <1>4 DEF Subscribe
<1>5. ASSUME NEW q \in Queues, CancelConsumer(q) PROVE Supervised'
  BY <1>5 DEF CancelConsumer
<1>6. ASSUME NEW q \in Queues, FinishDraining(q) PROVE Supervised'
  BY <1>6 DEF FinishDraining
<1>7. ASSUME NEW m \in Messages, Push(m) \/ HandlerStep(m) PROVE Supervised'
  BY <1>7 DEF Push, HandlerStep, StartHandling, RequeueWhileDraining, FinishHandling,
              HandlingFails, Settle
<1>8. CASE SetPaused \/ Shutdown
  BY <1>8 DEF SetPaused, Shutdown
<1>9. CASE LoseConnection \/ \E q \in Queues : LoseChannel(q)
  <2>1. PICK Q \in SUBSET Queues : CloseChannels(Q)
    <3>1. CASE LoseConnection
      BY <3>1 DEF LoseConnection
    <3>2. CASE \E q \in Queues : LoseChannel(q)
      <4>1. PICK q \in Queues : CloseChannels({q})
        BY <3>2 DEF LoseChannel
      <4> QED BY <4>1
    <3> QED BY <1>9, <3>1, <3>2
  <2>2. /\ \A q \in Queues : /\ live'[q] <=> live[q] /\ q \notin Q
                             /\ subscribed'[q] <=> subscribed[q] /\ q \notin Q
        /\ UNCHANGED <<supervisor, reading>>
    BY <2>1 DEF CloseChannels
  <2> QED BY <2>2
<1>10. CASE Restart
  BY <1>10 DEF Restart
<1>11. CASE UNCHANGED vars
  BY <1>11 DEF vars
<1> QED
  BY <1>1, <1>2, <1>3, <1>4, <1>5, <1>6, <1>7, <1>8, <1>9, <1>10, <1>11
     DEF Next, CheckStep, SupervisorStep

----------------------------------------------------------------------------
(* What the supervisors leave behind *)

LEMMA NothingLeftStep ==
    ASSUME Types, Supervised, NothingLeftBehind, [Next]_vars
    PROVE  NothingLeftBehind'
<1> USE ConsumersAssumption
    DEF Types, Supervised, ChannelIsSupervised, CheckIsAwaited, NothingLeftBehind, InHand,
        MessagesOf, Enter, supervisorVars, amqpVars
<1>1. ASSUME NEW q \in Queues, ReadFlag(q) \/ CheckSucceeds(q) \/ CheckFails(q)
      PROVE  NothingLeftBehind'
  BY <1>1 DEF ReadFlag, CheckSucceeds, CheckFails, Act
<1>2. ASSUME NEW q \in Queues, StopWaiting(q) \/ SubscribeFails(q) \/ NoticeStop(q) \/ NoticeDead(q)
      PROVE  NothingLeftBehind'
  BY <1>2 DEF StopWaiting, SubscribeFails, NoticeStop, NoticeDead
<1>3. ASSUME NEW q \in Queues, Subscribe(q) \/ CancelConsumer(q) \/ FinishDraining(q)
      PROVE  NothingLeftBehind'
  BY <1>3 DEF Subscribe, CancelConsumer, FinishDraining
<1>4. ASSUME NEW m \in Messages, Push(m) PROVE NothingLeftBehind'
  BY <1>4 DEF Push
<1>5. ASSUME NEW m \in Messages, HandlerStep(m) PROVE NothingLeftBehind'
  BY <1>5 DEF HandlerStep, StartHandling, RequeueWhileDraining, FinishHandling, HandlingFails, Settle
<1>6. CASE SetPaused \/ Shutdown
  BY <1>6 DEF SetPaused, Shutdown
<1>7. ASSUME NEW Q \in SUBSET Queues, CloseChannels(Q) PROVE NothingLeftBehind'
  <2>1. supervisor' = supervisor
    BY <1>7 DEF CloseChannels
  <2>2. \A m \in Messages : hand'[m] # "none" => hand[m] # "none"
    BY <1>7 DEF CloseChannels
  <2> QED BY <2>1, <2>2
<1>8. CASE Restart
  BY <1>8 DEF Restart, Exited
<1>9. CASE UNCHANGED vars
  BY <1>9 DEF vars
<1>10. CASE LoseConnection \/ \E q \in Queues : LoseChannel(q)
  <2>1. ASSUME LoseConnection PROVE NothingLeftBehind'
    <3>1. CloseChannels(Queues)
      BY <2>1 DEF LoseConnection
    <3> QED BY <1>7, <3>1
  <2>2. ASSUME NEW q \in Queues, LoseChannel(q) PROVE NothingLeftBehind'
    <3>1. CloseChannels({q}) /\ {q} \in SUBSET Queues
      BY <2>2 DEF LoseChannel
    <3> QED BY <1>7, <3>1
  <2> QED BY <1>10, <2>1, <2>2
<1> QED
  BY <1>1, <1>2, <1>3, <1>4, <1>5, <1>6, <1>8, <1>9, <1>10 DEF Next, CheckStep, SupervisorStep

LEMMA UnackedStep ==
    ASSUME Types, NothingLeftBehind, UnackedIsInHand, [Next]_vars
    PROVE  UnackedIsInHand'
<1> USE ConsumersAssumption DEF Types, UnackedIsInHand, InHand, MessagesOf, supervisorVars, amqpVars
<1>1. ASSUME NEW q \in Queues, CheckStep(q) PROVE UnackedIsInHand'
  BY <1>1 DEF CheckStep, ReadFlag, CheckSucceeds, CheckFails
<1>2. ASSUME NEW q \in Queues,
             \/ StopWaiting(q) \/ SubscribeFails(q) \/ NoticeStop(q)
             \/ NoticeDead(q) \/ CancelConsumer(q)
      PROVE  UnackedIsInHand'
  BY <1>2 DEF StopWaiting, SubscribeFails, NoticeStop, NoticeDead, CancelConsumer
<1>3. ASSUME NEW q \in Queues, Subscribe(q) PROVE UnackedIsInHand'
  BY <1>3 DEF Subscribe, NothingLeftBehind
<1>4. ASSUME NEW q \in Queues, FinishDraining(q) PROVE UnackedIsInHand'
  <2> SUFFICES ASSUME NEW m \in Messages
               PROVE  (broker[m] = "unacked" <=> hand[m] # "none" /\ live[QueueOf[m]])'
    OBVIOUS
  <2>1. hand'[m] = hand[m] /\ live' = [live EXCEPT ![q] = FALSE]
    BY <1>4 DEF FinishDraining
  <2>2. CASE QueueOf[m] = q
    <3>1. hand[m] = "none"
      BY <1>4, <2>2 DEF FinishDraining
    <3>2. broker'[m] # "unacked"
      BY <1>4, <2>2 DEF FinishDraining, RequeueUnacked
    <3> QED BY <2>1, <3>1, <3>2
  <2>3. CASE QueueOf[m] # q
    <3>1. broker'[m] = broker[m] /\ live'[QueueOf[m]] = live[QueueOf[m]]
      BY <1>4, <2>1, <2>3 DEF FinishDraining, RequeueUnacked
    <3> QED BY <2>1, <3>1
  <2> QED BY <2>2, <2>3
<1>5. ASSUME NEW m \in Messages, Push(m) PROVE UnackedIsInHand'
  BY <1>5 DEF Push
<1>6. ASSUME NEW m \in Messages, HandlerStep(m) PROVE UnackedIsInHand'
  BY <1>6 DEF HandlerStep, StartHandling, RequeueWhileDraining, FinishHandling, HandlingFails, Settle
<1>7. CASE SetPaused \/ Shutdown
  BY <1>7 DEF SetPaused, Shutdown
<1>8. ASSUME NEW Q \in SUBSET Queues, CloseChannels(Q) PROVE UnackedIsInHand'
  <2> SUFFICES ASSUME NEW m \in Messages
               PROVE  (broker[m] = "unacked" <=> hand[m] # "none" /\ live[QueueOf[m]])'
    OBVIOUS
  <2>1. CASE QueueOf[m] \in Q
    <3>1. broker'[m] # "unacked"
      BY <1>8, <2>1 DEF CloseChannels, RequeueUnacked
    <3>2. ~live'[QueueOf[m]]
      BY <1>8, <2>1 DEF CloseChannels
    <3> QED BY <3>1, <3>2
  <2>2. CASE QueueOf[m] \notin Q
    <3>1. broker'[m] = broker[m] /\ hand'[m] = hand[m]
      BY <1>8, <2>2 DEF CloseChannels, RequeueUnacked
    <3>2. live'[QueueOf[m]] <=> live[QueueOf[m]]
      BY <1>8, <2>2 DEF CloseChannels
    <3> QED BY <3>1, <3>2
  <2> QED BY <2>1, <2>2
<1>9. CASE Restart
  BY <1>9 DEF Restart, Exited, NothingLeftBehind, RequeueUnacked
<1>10. CASE UNCHANGED vars
  BY <1>10 DEF vars
<1>11. CASE LoseConnection \/ \E q \in Queues : LoseChannel(q)
  <2>1. PICK Q \in SUBSET Queues : CloseChannels(Q)
    BY <1>11 DEF LoseConnection, LoseChannel
  <2> QED BY <1>8, <2>1
<1> QED
  BY <1>1, <1>2, <1>3, <1>4, <1>5, <1>6, <1>7, <1>9, <1>10, <1>11 DEF Next, SupervisorStep

----------------------------------------------------------------------------

LEMMA ConsumersInvInductive ==
    /\ Init => ConsumersInv
    /\ ConsumersInv /\ [Next]_vars => ConsumersInv'
<1>1. Init => ConsumersInv
  <2> SUFFICES ASSUME Init PROVE ConsumersInv
    OBVIOUS
  <2>1. Types
    <3>1. FaultsTypeOK
      BY FaultsAssumption DEF Init, FaultsInit, FaultsTypeOK
    <3>2. supervisor \in [Queues -> SupervisorStates]
      BY DEF Init, SupervisorStates
    <3> QED BY <3>1, <3>2, Zenon DEF Init, Types
  <2>2. Supervised
    BY DEF Init, Supervised, ChannelIsSupervised, CheckIsAwaited
  <2>3. NothingLeftBehind
    BY DEF Init, NothingLeftBehind, InHand, MessagesOf
  <2>4. UnackedIsInHand
    BY DEF Init, UnackedIsInHand
  <2> QED BY <2>1, <2>2, <2>3, <2>4 DEF ConsumersInv
<1>2. ConsumersInv /\ [Next]_vars => ConsumersInv'
  BY TypeStep, SupervisedStep, NothingLeftStep, UnackedStep DEF ConsumersInv
<1> QED BY <1>1, <1>2

\* The supervision keeps its types, and no channel or subscription outlives its
\* consumeUntilPaused: every action of every supervisor and handler,
\* every fault and restart (worker.Run, superviseQueue, consumeUntilPaused).
THEOREM ConsumersTypeCorrect == Spec => []TypeOK
<1>1. ConsumersInv => TypeOK
  BY DEF ConsumersInv, Supervised, TypeOK
<1> QED BY <1>1, ConsumersInvInductive, PTL DEF Spec

\* A supervisor that waits or has returned left no delivery in the buffer and no
\* handler at work: every path out of consumeUntilPaused passes <-poolDone.
THEOREM PoolsAreDrained == Spec => []NothingLeftBehind
<1>1. ConsumersInv => NothingLeftBehind
  BY DEF ConsumersInv
<1> QED BY <1>1, ConsumersInvInductive, PTL DEF Spec

\* Every delivery is settled exactly once: the broker counts a message as unacked
\* exactly while it is in the buffer or with a handler of an open channel.
THEOREM DrainSettlesOnce == Spec => []UnackedIsInHand
<1>1. ConsumersInv => UnackedIsInHand
  BY DEF ConsumersInv
<1> QED BY <1>1, ConsumersInvInductive, PTL DEF Spec
=============================================================================
