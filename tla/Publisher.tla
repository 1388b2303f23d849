----------------------------- MODULE Publisher -----------------------------
(***************************************************************************)
(* One process's Publisher (queue/rabbit/publisher.go) step by step: the    *)
(* goroutines that call it, its two mutexes, the confirmed channel and what *)
(* the broker does with each message. publishConfirmed keeps the mutex      *)
(* until its confirm has come; PublishCreatedAll lets go of it and then     *)
(* collects the confirms of its burst in order; PublishEvent has a mutex    *)
(* and a channel of its own and awaits no confirm.                          *)
(*                                                                         *)
(* Both channels share one connection. While the broker does not read from  *)
(* it (a memory or disk alarm blocks connections that publish) a write may  *)
(* block, and with it the caller and the mutex it holds.                    *)
(*                                                                         *)
(* A wait for a mutex does not end with the caller's context, a wait for a  *)
(* confirm does. The context of a request or of an outcome write has a      *)
(* deadline; the scheduler's ends only with the process.                    *)
(***************************************************************************)
EXTENDS Naturals

CONSTANTS
    Singles,            \* callers of PublishCreated, PublishRetry, PublishDeadLetter
    Bursts,             \* callers of PublishCreatedAll
    Emitters,           \* callers of PublishEvent
    Patient,            \* the callers whose context has no deadline
    Rounds,             \* the sets of callers that are considered together
    BurstSize,          \* how many notifications a burst has
    Nobody

Callers == Singles \cup Bursts \cup Emitters
Confirmed == Singles \cup Bursts

ASSUME PublisherAssumption ==
    /\ Singles \cap Bursts = {} /\ Emitters \cap Confirmed = {}
    /\ Patient \subseteq Singles /\ Nobody \notin Callers
    /\ Rounds \subseteq SUBSET Callers
    /\ BurstSize \in Nat \ {0}

VARIABLES
    holder,             \* who holds publisher.mu
    eventHolder,        \* who holds publisher.eventMu
    at,                 \* where each caller is
    sent,               \* how many of its messages it has put on the channel
    settled,            \* how many confirms of them it has looked at
    acked,              \* the messages it found acked
    fate,               \* what the broker has made of each message
    confirm,            \* the deferred confirmation of each message
    channelOpen,        \* the confirmed channel
    connection,         \* whether it takes what is written to it
    stopped             \* SIGTERM was received

callerVars == <<holder, eventHolder, at, sent, settled, acked>>
brokerVars == <<fate, confirm, channelOpen, connection>>
vars == <<callerVars, brokerVars, stopped>>

Size(c) == IF c \in Bursts THEN BurstSize ELSE 1
Slots == 1 .. BurstSize

TypeOK ==
    /\ holder \in Confirmed \cup {Nobody} /\ eventHolder \in Emitters \cup {Nobody}
    /\ at \in [Callers -> {"idle", "locking", "publishing", "awaiting", "returned"}]
    /\ sent \in [Confirmed -> 0 .. BurstSize] /\ settled \in [Confirmed -> 0 .. BurstSize]
    /\ acked \in [Confirmed -> SUBSET Slots]
    /\ fate \in [Confirmed -> [Slots -> {"unsent", "sent", "accepted", "refused"}]]
    /\ confirm \in [Confirmed -> [Slots -> {"open", "ack", "nack"}]]
    /\ connection \in {"flowing", "blocked", "lost"}
    /\ channelOpen \in BOOLEAN /\ stopped \in BOOLEAN
    /\ \A c \in Confirmed : settled[c] <= sent[c] /\ sent[c] <= Size(c)

Init ==
    /\ holder = Nobody /\ eventHolder = Nobody
    /\ \E calling \in Rounds :
         at = [c \in Callers |-> IF c \in calling THEN "locking" ELSE "idle"]
    /\ sent = [c \in Confirmed |-> 0] /\ settled = [c \in Confirmed |-> 0]
    /\ acked = [c \in Confirmed |-> {}]
    /\ fate = [c \in Confirmed |-> [i \in Slots |-> "unsent"]]
    /\ confirm = [c \in Confirmed |-> [i \in Slots |-> "open"]]
    /\ channelOpen = TRUE /\ connection = "flowing" /\ stopped = FALSE

----------------------------------------------------------------------------
(* The callers *)

Goto(c, next) == at' = [at EXCEPT ![c] = next]

Lock(c) ==
    /\ c \in Confirmed /\ at[c] = "locking" /\ holder = Nobody
    /\ holder' = c
    /\ Goto(c, "publishing")
    /\ UNCHANGED <<eventHolder, sent, settled, acked, brokerVars, stopped>>

\* The message is written to the connection once that takes it; the context has
\* no say in it.
Publish(c) ==
    /\ c \in Confirmed /\ at[c] = "publishing" /\ sent[c] < Size(c)
    /\ channelOpen /\ connection = "flowing"
    /\ sent' = [sent EXCEPT ![c] = @ + 1]
    /\ fate' = [fate EXCEPT ![c][sent[c]+1] = "sent"]
    /\ UNCHANGED <<holder, eventHolder, at, settled, acked>>
    /\ UNCHANGED <<confirm, channelOpen, connection, stopped>>

\* Defective variant: the loop of a burst returns from a failed publish.
EndPublishingLocked(c) ==
    /\ c \in Confirmed /\ at[c] = "publishing" /\ (sent[c] = Size(c) \/ ~channelOpen)
    /\ IF c \in Bursts /\ sent[c] = Size(c) THEN holder' = Nobody ELSE UNCHANGED holder
    /\ Goto(c, IF c \in Bursts /\ sent[c] < Size(c) THEN "returned" ELSE "awaiting")
    /\ UNCHANGED <<eventHolder, sent, settled, acked, brokerVars, stopped>>

\* All is published, or a publish has failed on a closed channel, which ends a
\* burst early. A burst unlocks now; a single publish when it returns.
EndPublishing(c) ==
    /\ c \in Confirmed /\ at[c] = "publishing" /\ (sent[c] = Size(c) \/ ~channelOpen)
    /\ IF c \in Bursts THEN holder' = Nobody ELSE UNCHANGED holder
    /\ Goto(c, "awaiting")
    /\ UNCHANGED <<eventHolder, sent, settled, acked, brokerVars, stopped>>

\* Defective variant: events share the mutex of the confirmed channel.
LockEventsShared(c) ==
    /\ c \in Emitters /\ at[c] = "locking" /\ eventHolder = Nobody /\ holder = Nobody
    /\ eventHolder' = c
    /\ Goto(c, "publishing")
    /\ UNCHANGED <<holder, sent, settled, acked, brokerVars, stopped>>

\* PublishEvent: eventMu.Lock.
LockEvents(c) ==
    /\ c \in Emitters /\ at[c] = "locking" /\ eventHolder = Nobody
    /\ eventHolder' = c
    /\ Goto(c, "publishing")
    /\ UNCHANGED <<holder, sent, settled, acked, brokerVars, stopped>>

\* The event is written to the connection, or fails on a lost one; either way
\* the mutex is freed on return. Nobody learns whether the event went out.
PublishEvent(c) ==
    /\ c \in Emitters /\ at[c] = "publishing" /\ connection # "blocked"
    /\ eventHolder' = Nobody
    /\ Goto(c, "returned")
    /\ UNCHANGED <<holder, sent, settled, acked, brokerVars, stopped>>

\* The next confirmation in order has been looked at.
Settle(c) == settled' = [settled EXCEPT ![c] = @ + 1]

\* Defective variant: one confirmation too many.
AwaitingOneMore(c) == c \in Confirmed /\ at[c] = "awaiting" /\ settled[c] <= sent[c]

Awaiting(c) == c \in Confirmed /\ at[c] = "awaiting" /\ settled[c] < sent[c]

\* Defective variant: a nack counts as success.
AwaitConfirmAnyway(c) ==
    /\ Awaiting(c) /\ confirm[c][settled[c]+1] # "open"
    /\ Settle(c)
    /\ acked' = [acked EXCEPT ![c] = @ \cup {settled[c]+1}]
    /\ UNCHANGED <<holder, eventHolder, at, sent, brokerVars, stopped>>

\* WaitContext returns with the confirmation.
AwaitConfirm(c) ==
    /\ Awaiting(c) /\ confirm[c][settled[c]+1] # "open"
    /\ Settle(c)
    /\ acked' = [acked EXCEPT ![c] =
                    @ \cup {i \in {settled[c]+1} : confirm[c][i] = "ack"}]
    /\ UNCHANGED <<holder, eventHolder, at, sent, brokerVars, stopped>>

\* Defective variant: Wait instead of WaitContext.
AwaitForEver(c) == Awaiting(c) /\ UNCHANGED vars

\* WaitContext returns with the context's error: the deadline has passed, or the
\* process's context is done.
AwaitExpires(c) ==
    /\ Awaiting(c) /\ (c \in Patient => stopped)
    /\ Settle(c)
    /\ UNCHANGED <<holder, eventHolder, at, sent, acked, brokerVars, stopped>>

Return(c) ==
    /\ c \in Confirmed /\ at[c] = "awaiting" /\ settled[c] = sent[c]
    /\ IF c \in Singles THEN holder' = Nobody ELSE UNCHANGED holder
    /\ Goto(c, "returned")
    /\ UNCHANGED <<eventHolder, sent, settled, acked, brokerVars, stopped>>

----------------------------------------------------------------------------
(* The broker, the channel, the connection and the process *)

\* The broker accepts a message, which it may have read before the channel
\* closed, and tells the channel if it is able to.
Accept(c, i) ==
    /\ fate[c][i] = "sent"
    /\ fate' = [fate EXCEPT ![c][i] = "accepted"]
    /\ \/ channelOpen /\ confirm' = [confirm EXCEPT ![c][i] = "ack"]
       \/ UNCHANGED confirm
    /\ UNCHANGED <<callerVars, channelOpen, connection, stopped>>

Refuse(c, i) ==
    /\ channelOpen /\ fate[c][i] = "sent"
    /\ fate' = [fate EXCEPT ![c][i] = "refused"]
    /\ confirm' = [confirm EXCEPT ![c][i] = "nack"]
    /\ UNCHANGED <<callerVars, channelOpen, connection, stopped>>

\* A closed channel resolves the confirmations that were still awaited, as not
\* acked.
LeaveUnconfirmed ==
    /\ channelOpen' = FALSE
    /\ confirm' = [c \in Confirmed |-> [i \in Slots |->
                     IF i <= sent[c] /\ confirm[c][i] = "open" THEN "nack" ELSE confirm[c][i]]]

\* The broker closes the confirmed channel. The client writes its consent before
\* it closes its side.
CloseChannel ==
    /\ channelOpen /\ connection = "flowing"
    /\ LeaveUnconfirmed
    /\ UNCHANGED <<callerVars, fate, connection, stopped>>

\* The connection goes, and the channels and blocked writes with it.
LoseConnection ==
    /\ connection # "lost" /\ connection' = "lost"
    /\ LeaveUnconfirmed
    /\ UNCHANGED <<callerVars, fate, stopped>>

\* The broker stops reading from the connection, or goes on.
BlockConnection ==
    /\ connection = "flowing" /\ connection' = "blocked"
    /\ UNCHANGED <<callerVars, fate, confirm, channelOpen, stopped>>

UnblockConnection ==
    /\ connection = "blocked" /\ connection' = "flowing"
    /\ UNCHANGED <<callerVars, fate, confirm, channelOpen, stopped>>

\* SIGTERM: the context of the process is done.
Stop ==
    /\ ~stopped /\ stopped' = TRUE
    /\ UNCHANGED <<callerVars, brokerVars>>

----------------------------------------------------------------------------

CallerStep(c) ==
    \/ Lock(c) \/ Publish(c) \/ EndPublishing(c)
    \/ AwaitConfirm(c) \/ AwaitExpires(c) \/ Return(c)
    \/ LockEvents(c) \/ PublishEvent(c)

Next ==
    \/ \E c \in Callers : CallerStep(c)
    \/ \E c \in Confirmed, i \in Slots : Accept(c, i) \/ Refuse(c, i)
    \/ CloseChannel \/ LoseConnection \/ BlockConnection \/ UnblockConnection
    \/ Stop

Spec == Init /\ [][Next]_vars

(***************************************************************************)
(* Goroutines that can step do, and deadlines pass. Two waits end if what   *)
(* they are for comes again and again, so the callers' fairness is strong:  *)
(* sync.Mutex hands itself over in order of arrival once a waiter has       *)
(* starved for a millisecond, and a blocked write keeps what it has written *)
(* and goes on whenever the connection takes more. The broker, the channel, *)
(* the connection and the signal owe nothing: a broker out of memory or     *)
(* disk withholds confirms and blocks the connection as long as its alarm   *)
(* lasts.                                                                   *)
(***************************************************************************)
Fairness == \A c \in Callers : SF_vars(CallerStep(c))

FairSpec == Spec /\ Fairness

----------------------------------------------------------------------------
(* Properties *)

Messages == {m \in Confirmed \X Slots : m[2] <= Size(m[1])}
Answered == {m \in Messages : at[m[1]] = "returned"}

Promise == INSTANCE ConfirmedPublish WITH
    submitted <- {m \in Messages : m[2] <= sent[m[1]]},
    accepted <- {m \in Messages : fate[m[1]][m[2]] = "accepted"},
    confirmed <- {m \in Answered : m[2] \in acked[m[1]]},
    failed <- {m \in Answered : m[2] \notin acked[m[1]]}

\* publisher.go: "a successful publish means the broker has durably accepted the
\* message", for single publishes and for each ID a burst returns, with nacks,
\* silent brokers, expired contexts and channels that close under a burst.
ConfirmsAreHonest == Promise!Spec

\* Nobody of C is in a call any more.
AllBack(C) == \A c \in C : at[c] \in {"idle", "returned"}

\* The broker never reads from the connection again.
BlockedForEver == <>[](connection = "blocked")

\* After SIGTERM no publish is left that run would wait for: not one that waits
\* for a mutex, nor one whose confirm never comes. Only a write that blocks for
\* ever, which no context ends, may keep its caller and those behind it.
StopFreesPublishers ==
    \/ BlockedForEver
    \/ stopped ~> AllBack(Callers)

\* A caller without a deadline waits for a confirm and keeps the mutex.
PatientAwaits ==
    \E p \in Patient :
        holder = p /\ at[p] = "awaiting" /\ settled[p] < sent[p]

\* The mutex is held while a confirm is awaited, and a wait for the mutex has no
\* deadline. Still every call returns, whatever the broker and the other
\* callers do, unless the scheduler is left waiting for ever or the connection
\* stays blocked.
OnlyThePatientBlock ==
    \/ BlockedForEver \/ <>[]PatientAwaits
    \/ <>AllBack(Callers)

\* PublishEvent: "events are UX, not state, and must not slow the delivery path
\* that emits them". Emitters wait for each other and for the connection, and
\* for nothing else: they get past a confirm that is awaited for ever, past a
\* closed channel and a lost connection, and out of a blocked write once the
\* connection is read again.
EventsNeverWait ==
    \/ BlockedForEver
    \/ <>AllBack(Emitters)
=============================================================================
