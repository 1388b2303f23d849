--------------------------- MODULE LiveViewProofs ---------------------------
(***************************************************************************)
(* Proofs about LiveView: types, that the hub closes each send channel at   *)
(* most once and forgets each client before its handler is gone, and that   *)
(* what a client gets is in order and without a gap, for any clients,       *)
(* filters and buffer sizes.                                                *)
(***************************************************************************)
EXTENDS LiveView, SequenceTheorems, TLAPS

\* Taking the head off a sequence.
LEMMA HeadAndTail ==
    ASSUME NEW S, NEW s \in Seq(S), s # <<>>
    PROVE  Head(s) \in S /\ Tail(s) \in Seq(S) /\ Len(Tail(s)) = Len(s) - 1
OBVIOUS

LEMMA AppendTypes ==
    ASSUME NEW S, NEW s \in Seq(S), NEW e \in S
    PROVE  Append(s, e) \in Seq(S) /\ Len(Append(s, e)) = Len(s) + 1
OBVIOUS

\* Types hold from the start and in every step of the stream, the hub and the
\* handlers.
THEOREM LiveViewTypes == Spec => []TypeOK
<1> USE LiveViewAssumption DEF LiveViewAssumption, Places, Serving
<1>1. Init => TypeOK
  <2> SUFFICES ASSUME Init PROVE TypeOK
    OBVIOUS
  <2>1. published \in Seq(Notifications) /\ Len(published) <= MaxEvents
    BY DEF Init
  <2>2. /\ queue \in Seq(Events) /\ broadcast \in Seq(Events) /\ handled \in Seq(Events)
        /\ Len(broadcast) <= HubBuffer
    BY DEF Init
  <2>3. /\ send \in [Clients -> Seq(Events)] /\ \A c \in Clients : Len(send[c]) <= ClientBuffer
        /\ writing \in [Clients -> Seq(Events)] /\ written \in [Clients -> Seq(Events)]
    <3>1. <<>> \in Seq(Events) /\ Len(<<>>) <= ClientBuffer
      OBVIOUS
    <3> QED BY <3>1 DEF Init
  <2>4. /\ closes \in [Clients -> Nat] /\ joined \in [Clients -> Nat]
        /\ place \in [Clients -> Places] /\ readerDone \in [Clients -> BOOLEAN]
    BY DEF Init
  <2>5. /\ stream \in {"starting", "consuming", "ended"} /\ cancelled \in BOOLEAN
        /\ hub \in {"running", "closing", "stopped"} /\ clients \subseteq Clients
    BY DEF Init
  <2> QED BY <2>1, <2>2, <2>3, <2>4, <2>5 DEF TypeOK
<1>2. TypeOK /\ [Next]_vars => TypeOK'
  <2> SUFFICES ASSUME TypeOK, [Next]_vars PROVE TypeOK'
    OBVIOUS
  <2> USE DEF TypeOK
  <2>1. ASSUME NEW n \in Notifications, PublishEvent(n) PROVE TypeOK'
    <3>1. Len(published) + 1 \in Events
      BY <2>1 DEF PublishEvent, Events
    <3>2. queue' \in Seq(Events)
      BY <2>1, <3>1, AppendTypes DEF PublishEvent
    <3>3. published' \in Seq(Notifications) /\ Len(published') <= MaxEvents
      BY <2>1, AppendTypes DEF PublishEvent
    <3>4. UNCHANGED <<stream, hubVars, channelVars, handlerVars>>
      BY <2>1 DEF PublishEvent
    <3> QED BY <3>2, <3>3, <3>4 DEF hubVars, channelVars, handlerVars
  <2>2. CASE ConsumeEvents \/ EndStream
    <3>1. stream' \in {"starting", "consuming", "ended"} /\ queue' \in {queue, <<>>}
      BY <2>2, Zenon DEF ConsumeEvents, EndStream
    <3>2. UNCHANGED <<published, hubVars, channelVars, handlerVars>>
      BY <2>2 DEF ConsumeEvents, EndStream
    <3>3. <<>> \in Seq(Events)
      OBVIOUS
    <3>4. queue' \in Seq(Events)
      BY <3>1, <3>3
    <3> QED BY <3>1, <3>2, <3>4 DEF hubVars, channelVars, handlerVars
  <2>3. CASE BroadcastRaw
    <3>1. queue' \in Seq(Events) /\ Head(queue) \in Events
      BY <2>3, HeadAndTail DEF BroadcastRaw
    <3>2. broadcast' \in Seq(Events) /\ Len(broadcast') <= HubBuffer
      <4>1. broadcast' = IF Len(broadcast) < HubBuffer
                           THEN Append(broadcast, Head(queue)) ELSE broadcast
        BY <2>3 DEF BroadcastRaw, Broadcast
      <4> QED BY <3>1, <4>1, AppendTypes
    <3> QED BY <2>3, <3>1, <3>2 DEF BroadcastRaw, channelVars, handlerVars
  <2>4. CASE FanOut
    <3> DEFINE e == Head(broadcast)
               listening == {c \in clients : Follows(c, e)}
               slow == {c \in listening : Full(c)}
    <3>1. e \in Events /\ broadcast' \in Seq(Events) /\ Len(broadcast') <= HubBuffer
      BY <2>4, HeadAndTail DEF FanOut
    <3>2. handled' \in Seq(Events)
      BY <2>4, <3>1, AppendTypes DEF FanOut
    <3>3. /\ send' = [c \in Clients |->
                        IF c \in listening \ slow THEN Append(send[c], e) ELSE send[c]]
          /\ clients' = clients \ slow
          /\ CloseSend(slow)
      BY <2>4 DEF FanOut
    <3>4. \A c \in listening \ slow : Len(send[c]) < ClientBuffer
      BY DEF Full
    <3>5. send' \in [Clients -> Seq(Events)] /\ \A c \in Clients : Len(send'[c]) <= ClientBuffer
      <4> HIDE DEF e, listening, slow
      <4>1. ASSUME NEW c \in Clients
            PROVE  send'[c] \in Seq(Events) /\ Len(send'[c]) <= ClientBuffer
        <5>1. CASE c \in listening \ slow
          BY <3>1, <3>3, <3>4, <5>1, AppendTypes
        <5>2. CASE c \notin listening \ slow
          BY <3>3, <5>2
        <5> QED BY <5>1, <5>2
      <4> QED BY <3>3, <4>1
    <3>6. closes' \in [Clients -> Nat]
      BY <3>3 DEF CloseSend
    <3> QED BY <2>4, <3>1, <3>2, <3>3, <3>5, <3>6 DEF FanOut, brokerVars, handlerVars
  <2>5. CASE StopHub
    BY <2>5 DEF StopHub, CloseSend, brokerVars, handlerVars
  <2>6. CASE CloseDone \/ Shutdown
    BY <2>6 DEF CloseDone, Shutdown, brokerVars, channelVars, handlerVars
  <2>7. ASSUME NEW c \in Clients, NEW from, NEW next \in Places, Step(c, from, next)
        PROVE  TypeOK'
    BY <2>7 DEF Step, Goto, brokerVars, hubVars, channelVars
  <2>8. ASSUME NEW c \in Clients, Connect(c) PROVE TypeOK'
    BY <2>7, <2>8 DEF Connect
  <2>9. ASSUME NEW c \in Clients, Disconnect(c) PROVE TypeOK'
    BY <2>9 DEF Disconnect, brokerVars, hubVars, channelVars
  <2>10. ASSUME NEW c \in Clients, HandlerStep(c) PROVE TypeOK'
    <3>1. CASE Register(c)
      BY SMTT(30), <3>1 DEF Register, Goto, brokerVars, channelVars
    <3>2. CASE RegisterRefused(c) \/ SeeDisconnect(c) \/ SeeClosed(c) \/ LeaveStopped(c)
      BY <2>7, <3>2 DEF RegisterRefused, SeeDisconnect, SeeClosed, LeaveStopped
    <3>3. CASE TakeEvent(c)
      <4>1. Head(send[c]) \in Events /\ Tail(send[c]) \in Seq(Events)
            /\ Len(Tail(send[c])) <= ClientBuffer
        BY <3>3, HeadAndTail DEF TakeEvent
      <4>2. <<Head(send[c])>> \in Seq(Events)
        BY <4>1
      <4>3. send' \in [Clients -> Seq(Events)] /\ \A d \in Clients : Len(send'[d]) <= ClientBuffer
        BY <3>3, <4>1 DEF TakeEvent
      <4>4. writing' \in [Clients -> Seq(Events)]
        BY <3>3, <4>2 DEF TakeEvent
      <4> QED BY <3>3, <4>3, <4>4 DEF TakeEvent, Goto, brokerVars, hubVars
    <3>4. CASE WriteEvent(c)
      <4>1. written[c] \o writing[c] \in Seq(Events)
        OBVIOUS
      <4> QED BY <3>4, <4>1 DEF WriteEvent, Goto, brokerVars, hubVars, channelVars
    <3>5. CASE WriteFails(c)
      BY SMTT(30), <3>5 DEF WriteFails, Goto, brokerVars, hubVars, channelVars
    <3>6. CASE Unregister(c)
      BY <3>6 DEF Unregister, CloseSend, Goto, brokerVars
    <3> QED BY <2>10, <3>1, <3>2, <3>3, <3>4, <3>5, <3>6 DEF HandlerStep
  <2>11. CASE UNCHANGED vars
    BY <2>11 DEF vars, brokerVars, hubVars, channelVars, handlerVars
  <2> QED
    BY <2>1, <2>2, <2>3, <2>4, <2>5, <2>6, <2>8, <2>9, <2>10, <2>11 DEF Next
<1> QED BY <1>1, <1>2, PTL DEF Spec

----------------------------------------------------------------------------
(* The hub and its clients *)

\* The hub knows a client from its registration until it closes the channel,
\* and both fall between the handler's start and its return.
ClientLife ==
    /\ hub # "running" => clients = {}
    /\ \A c \in Clients :
         /\ closes[c] \in {0, 1}
         /\ c \in clients => closes[c] = 0 /\ place[c] \in Serving \cup {"leaving"}
         /\ place[c] \in {"new", "registering"} => closes[c] = 0 /\ c \notin clients

\* Every step of the hub and of the handlers keeps it: unregister asks whether
\* the client is known, a slow client and a shutdown take it off the map with
\* the close.
THEOREM ClientLifeHolds == Spec => []ClientLife
<1> USE DEF ClientLife, Serving
<1>1. Init => ClientLife
  BY DEF Init
<1>2. ASSUME TypeOK, ClientLife, [Next]_vars PROVE ClientLife'
  <2> USE <1>2 DEF TypeOK
  <2>1. CASE FanOut
    <3>1. PICK slow \in SUBSET clients : clients' = clients \ slow /\ CloseSend(slow)
      BY <2>1 DEF FanOut
    <3> QED BY <2>1, <3>1 DEF FanOut, CloseSend, handlerVars
  <2>2. CASE StopHub
    BY <2>2 DEF StopHub, CloseSend, handlerVars
  <2>3. ASSUME NEW c \in Clients, Register(c) PROVE ClientLife'
    BY <2>3 DEF Register, Goto, channelVars
  <2>4. ASSUME NEW c \in Clients, Unregister(c) PROVE ClientLife'
    BY <2>4 DEF Unregister, CloseSend, Goto
  <2>5. ASSUME UNCHANGED <<hub, clients, closes>>, NEW c \in Clients, NEW next \in Places,
               Goto(c, next), c \in clients => next \in Serving \cup {"leaving"},
               next = "registering" => place[c] = "new", next # "new"
        PROVE  ClientLife'
    BY <2>5 DEF Goto, Places
  <2>6. ASSUME NEW c \in Clients, Connect(c) PROVE ClientLife'
    BY <2>5, <2>6 DEF Connect, Step, hubVars, channelVars, Places
  <2>7. ASSUME NEW c \in Clients,
               \/ RegisterRefused(c) \/ SeeDisconnect(c) \/ SeeClosed(c) \/ TakeEvent(c)
               \/ WriteEvent(c) \/ WriteFails(c)
        PROVE  ClientLife'
    BY <2>5, <2>7
    DEF RegisterRefused, SeeDisconnect, SeeClosed, TakeEvent, WriteEvent, WriteFails, Step,
        hubVars, channelVars, Places
  <2>8. ASSUME NEW c \in Clients, LeaveStopped(c) PROVE ClientLife'
    BY <2>5, <2>8 DEF LeaveStopped, Step, hubVars, channelVars, Places
  <2>9. CASE UNCHANGED <<hub, clients, closes, place>> \/ CloseDone
    BY <2>9 DEF CloseDone, channelVars, handlerVars
  <2>10. ASSUME NEW n \in Notifications, PublishEvent(n) PROVE ClientLife'
    BY <2>9, <2>10 DEF PublishEvent, hubVars, channelVars, handlerVars
  <2>11. ASSUME NEW c \in Clients, Disconnect(c) PROVE ClientLife'
    BY <2>9, <2>11 DEF Disconnect, hubVars, channelVars
  <2>12. CASE ConsumeEvents \/ EndStream \/ BroadcastRaw \/ Shutdown \/ UNCHANGED vars
    BY <2>9, <2>12
    DEF ConsumeEvents, EndStream, BroadcastRaw, Shutdown, vars, hubVars, channelVars, handlerVars
  <2> QED
    BY <2>1, <2>2, <2>3, <2>4, <2>6, <2>7, <2>8, <2>9, <2>10, <2>11, <2>12
    DEF Next, HandlerStep
<1> QED BY <1>1, <1>2, LiveViewTypes, PTL DEF Spec

\* No close and no send of the hub meets a closed channel.
THEOREM HubSafe == Spec => []HubNeverPanics
<1>1. ClientLife => HubNeverPanics
  BY DEF ClientLife, HubNeverPanics
<1> QED BY <1>1, ClientLifeHolds, PTL

\* However serveWS ends, its client is off the hub's map when it has returned.
THEOREM ClientsAreReleased == Spec => []NoClientLeaks
<1>1. TypeOK /\ ClientLife => NoClientLeaks
  BY DEF ClientLife, NoClientLeaks, TypeOK
<1> QED BY <1>1, LiveViewTypes, ClientLifeHolds, PTL

----------------------------------------------------------------------------
(* Events in order *)

\* What appending to a sequence, and taking its head off, do to its elements
\* and their order.
LEMMA SetOfAppend ==
    ASSUME NEW s \in Seq(Events), NEW e \in Events
    PROVE  ToSet(Append(s, e)) = ToSet(s) \cup {e}
<1>1. DOMAIN s = 1 .. Len(s) /\ Len(s) \in Nat
  OBVIOUS
<1>2. DOMAIN Append(s, e) = 1 .. Len(s) + 1
  OBVIOUS
<1>3. \A i \in 1 .. Len(s) : Append(s, e)[i] = s[i]
  OBVIOUS
<1>4. Append(s, e)[Len(s) + 1] = e
  OBVIOUS
<1> QED BY <1>1, <1>2, <1>3, <1>4 DEF ToSet

LEMMA InOrderAppend ==
    ASSUME NEW s \in Seq(Events), NEW e \in Events,
           InOrder(s), \A x \in ToSet(s) : x < e
    PROVE  InOrder(Append(s, e))
<1>1. DOMAIN s = 1 .. Len(s) /\ Len(s) \in Nat
  OBVIOUS
<1>2. DOMAIN Append(s, e) = 1 .. Len(s) + 1
  OBVIOUS
<1>3. \A i \in 1 .. Len(s) : Append(s, e)[i] = s[i] /\ s[i] \in ToSet(s)
  BY <1>1 DEF ToSet
<1>4. Append(s, e)[Len(s) + 1] = e
  OBVIOUS
<1> QED BY <1>1, <1>2, <1>3, <1>4 DEF InOrder

LEMMA TakingHead ==
    ASSUME NEW s \in Seq(Events), s # <<>>
    PROVE  /\ ToSet(Tail(s)) \subseteq ToSet(s) /\ Head(s) \in ToSet(s)
           /\ ToSet(s) \subseteq ToSet(Tail(s)) \cup {Head(s)}
           /\ InOrder(s) => InOrder(Tail(s)) /\ \A x \in ToSet(Tail(s)) : Head(s) < x
<1>1. DOMAIN s = 1 .. Len(s) /\ Len(s) \in Nat \ {0} /\ Head(s) = s[1]
  OBVIOUS
<1>2. DOMAIN Tail(s) = 1 .. Len(s) - 1
  OBVIOUS
<1>3. \A i \in 1 .. Len(s) - 1 : Tail(s)[i] = s[i + 1]
  OBVIOUS
<1>4. ToSet(Tail(s)) \subseteq ToSet(s) /\ Head(s) \in ToSet(s)
  BY <1>1, <1>2, <1>3 DEF ToSet
<1>5. ToSet(s) \subseteq ToSet(Tail(s)) \cup {Head(s)}
  <2>1. SUFFICES ASSUME NEW i \in 1 .. Len(s), i # 1 PROVE s[i] \in ToSet(Tail(s))
    BY <1>1 DEF ToSet
  <2>2. i - 1 \in 1 .. Len(s) - 1 /\ s[i] = Tail(s)[i - 1]
    BY <1>1, <1>3, <2>1
  <2> QED BY <1>2, <2>2 DEF ToSet
<1>6. ASSUME InOrder(s) PROVE InOrder(Tail(s)) /\ \A x \in ToSet(Tail(s)) : Head(s) < x
  BY <1>1, <1>2, <1>3, <1>6 DEF InOrder, ToSet
<1> QED BY <1>4, <1>5, <1>6

\* Nothing precedes and nothing follows in an empty sequence.
LEMMA EmptyInOrder ==
    InOrder(<<>>) /\ ToSet(<<>>) = {}
BY DEF InOrder, ToSet

\* The events are handed on in the order they were published: what the hub has
\* handled, what waits in its buffer, what is still queued.
Pipeline ==
    /\ InOrder(queue) /\ InOrder(broadcast)
    /\ \A h \in ToSet(handled), later \in ToSet(broadcast) \cup ToSet(queue) : h < later
    /\ \A b \in ToSet(broadcast), q \in ToSet(queue) : b < q
    /\ \A e \in ToSet(handled) \cup ToSet(broadcast) \cup ToSet(queue) : e <= Len(published)

LEMMA SetsOfEvents ==
    ASSUME NEW s \in Seq(Events)
    PROVE  ToSet(s) \subseteq Events
BY DEF ToSet

\* Every step of the fanout, the stream and the hub keeps the order; a full
\* buffer drops an event and disorders nothing.
LEMMA PipelineStep ==
    ASSUME TypeOK, Pipeline, [Next]_vars
    PROVE  Pipeline'
<1> USE DEF TypeOK
<1>1. Events \subseteq Nat
  BY LiveViewAssumption DEF Events
<1>2. ToSet(queue) \subseteq Events /\ ToSet(broadcast) \subseteq Events
      /\ ToSet(handled) \subseteq Events
  BY SetsOfEvents
<1>3. ASSUME NEW n \in Notifications, PublishEvent(n) PROVE Pipeline'
  <2> DEFINE e == Len(published) + 1
  <2>1. e \in Events /\ Len(published') = e
    BY <1>3, LiveViewAssumption DEF PublishEvent, Events
  <2>2. broadcast' = broadcast /\ handled' = handled
    BY <1>3 DEF PublishEvent, hubVars
  <2>3. queue' = Append(queue, e) \/ queue' = queue
    BY <1>3 DEF PublishEvent
  <2>4. ToSet(Append(queue, e)) = ToSet(queue) \cup {e}
    BY <2>1, SetOfAppend
  <2>5. ASSUME NEW x \in ToSet(handled) \cup ToSet(broadcast) \cup ToSet(queue) PROVE x < e
    <3>1. x \in Nat
      BY <1>1, <1>2
    <3>2. x <= Len(published)
      BY DEF Pipeline
    <3>3. Len(published) \in Nat
      OBVIOUS
    <3> QED BY <3>1, <3>2, <3>3
  <2>6. InOrder(Append(queue, e))
    BY <2>1, <2>5, InOrderAppend DEF Pipeline
  <2>7. \A x \in ToSet(handled) \cup ToSet(broadcast) \cup ToSet(queue) : x <= Len(published')
    <3>1. ASSUME NEW x \in ToSet(handled) \cup ToSet(broadcast) \cup ToSet(queue)
          PROVE  x <= Len(published')
      <4>1. x \in Nat /\ e \in Nat /\ x < e
        BY <1>1, <1>2, <2>1, <2>5
      <4> QED BY <2>1, <4>1
    <3> QED BY <3>1
  <2>8. e <= Len(published')
    BY <1>1, <2>1
  <2> HIDE DEF e
  <2> QED BY <2>2, <2>3, <2>4, <2>5, <2>6, <2>7, <2>8 DEF Pipeline
<1>4. CASE EndStream
  <2>1. queue' = <<>> /\ UNCHANGED <<published, broadcast, handled>>
    BY <1>4 DEF EndStream, hubVars
  <2> QED BY <2>1, EmptyInOrder DEF Pipeline
<1>5. CASE BroadcastRaw
  <2> DEFINE e == Head(queue)
  <2>1. queue # <<>> /\ queue' = Tail(queue) /\ UNCHANGED <<published, handled>>
    BY <1>5 DEF BroadcastRaw
  <2>2. e \in Events /\ e \in ToSet(queue)
    BY <1>2, <2>1, TakingHead
  <2>3. broadcast' = Append(broadcast, e) \/ broadcast' = broadcast
    BY <1>5 DEF BroadcastRaw, Broadcast
  <2>4. ToSet(Append(broadcast, e)) = ToSet(broadcast) \cup {e}
    BY <2>2, SetOfAppend
  <2>5. InOrder(Append(broadcast, e))
    BY <2>2, InOrderAppend DEF Pipeline
  <2>6. /\ ToSet(Tail(queue)) \subseteq ToSet(queue)
        /\ InOrder(Tail(queue)) /\ \A x \in ToSet(Tail(queue)) : e < x
    BY <2>1, TakingHead DEF Pipeline
  <2> HIDE DEF e
  <2> QED BY <2>1, <2>2, <2>3, <2>4, <2>5, <2>6 DEF Pipeline
<1>6. CASE FanOut
  <2> DEFINE e == Head(broadcast)
  <2>1. /\ broadcast # <<>> /\ broadcast' = Tail(broadcast) /\ handled' = Append(handled, e)
        /\ UNCHANGED <<published, queue>>
    BY <1>6 DEF FanOut, brokerVars
  <2>2. /\ e \in ToSet(broadcast) /\ ToSet(Tail(broadcast)) \subseteq ToSet(broadcast)
        /\ InOrder(Tail(broadcast)) /\ \A x \in ToSet(Tail(broadcast)) : e < x
    BY <2>1, TakingHead DEF Pipeline
  <2>3. ToSet(Append(handled, e)) = ToSet(handled) \cup {e}
    BY <1>2, <2>2, SetOfAppend
  <2> HIDE DEF e
  <2> QED BY <2>1, <2>2, <2>3 DEF Pipeline
<1>7. CASE UNCHANGED <<published, queue, broadcast, handled>>
  BY <1>7 DEF Pipeline
<1>8. \/ \E n \in Notifications : PublishEvent(n)
      \/ EndStream \/ BroadcastRaw \/ FanOut
      \/ UNCHANGED <<published, queue, broadcast, handled>>
  BY DEF Next, HandlerStep, ConsumeEvents, StopHub, CloseDone, Shutdown, Connect, Disconnect,
         Step, Register, RegisterRefused, SeeDisconnect, SeeClosed, TakeEvent, WriteEvent,
         WriteFails, Unregister, LeaveStopped, vars, brokerVars, hubVars
<1> QED BY <1>3, <1>4, <1>5, <1>6, <1>7, <1>8

\* An event moves from the channel into the writing, and on into what is
\* written; only the fan-out adds one.
LEMMA TakingKeeps ==
    ASSUME NEW w \in Seq(Events), NEW s \in Seq(Events), s # <<>>
    PROVE  w \o <<Head(s)>> \o Tail(s) = w \o <<>> \o s
<1>1. Head(s) \in Events /\ Tail(s) \in Seq(Events) /\ <<Head(s)>> \o Tail(s) = s
  BY HeadTailProperties
<1>2. <<Head(s)>> \in Seq(Events)
  BY <1>1
<1>3. w \o <<Head(s)>> \o Tail(s) = w \o (<<Head(s)>> \o Tail(s))
  BY <1>1, <1>2, ConcatAssociative
<1> QED BY <1>1, <1>3, ConcatEmptySeq

LEMMA WritingKeeps ==
    ASSUME NEW w \in Seq(Events), NEW x \in Seq(Events), NEW s \in Seq(Events)
    PROVE  (w \o x) \o <<>> \o s = w \o x \o s
<1>1. w \o x \in Seq(Events)
  BY ConcatProperties
<1> QED BY <1>1, ConcatEmptySeq

LEMMA SendingAppends ==
    ASSUME NEW w \in Seq(Events), NEW x \in Seq(Events), NEW s \in Seq(Events),
           NEW e \in Events
    PROVE  w \o x \o Append(s, e) = Append(w \o x \o s, e)
<1>1. w \o x \in Seq(Events) /\ w \o x \o s \in Seq(Events) /\ <<e>> \in Seq(Events)
  BY ConcatProperties
<1>2. Append(s, e) = s \o <<e>> /\ Append(w \o x \o s, e) = (w \o x \o s) \o <<e>>
  BY <1>1, AppendIsConcat
<1>3. (w \o x \o s) \o <<e>> = (w \o x) \o (s \o <<e>>)
  BY <1>1, ConcatAssociative
<1> QED BY <1>2, <1>3

\* What StreamHasNoGaps says of one client.
NoGaps(c) ==
    /\ InOrder(Stored(c)) /\ ToSet(Stored(c)) \subseteq Offered(c)
    /\ \A e \in Offered(c) \ ToSet(Stored(c)) :
         closes[c] > 0 /\ \A earlier \in ToSet(Stored(c)) : earlier < e

\* A client starts with nothing, and is in the map as long as its channel is
\* open and its handler serves it.
Served(c) ==
    /\ joined[c] <= Len(handled)
    /\ place[c] \in {"new", "registering"} =>
         written[c] = <<>> /\ writing[c] = <<>> /\ send[c] = <<>>
    /\ place[c] = "streaming" => writing[c] = <<>>
    /\ place[c] \in Serving => NoGaps(c) /\ (closes[c] = 0 => c \in clients)

EachServed == \A c \in Clients : Served(c)

StreamInv == TypeOK /\ ClientLife /\ Pipeline /\ EachServed

\* A published event stays what it is.
LEMMA OfferedStays ==
    ASSUME TypeOK, Pipeline, NEW c \in Clients, UNCHANGED handled, joined'[c] = joined[c],
           UNCHANGED published \/ \E n \in Notifications : published' = Append(published, n)
    PROVE  Offered(c)' = Offered(c)
<1>1. {handled[i] : i \in joined[c]+1 .. Len(handled)} \subseteq ToSet(handled)
  BY DEF TypeOK, ToSet
<1>2. \A e \in ToSet(handled) : e \in 1 .. Len(published)
  BY SetsOfEvents, LiveViewAssumption DEF Pipeline, TypeOK, Events
<1>3. \A e \in ToSet(handled) : published'[e] = published[e]
  BY <1>2 DEF TypeOK
<1>4. \A e \in ToSet(handled) : Follows(c, e)' = Follows(c, e)
  BY <1>3 DEF Follows
<1> QED BY <1>1, <1>4 DEF Offered

\* Where neither the hub hands over nor the stored events change, nothing does.
LEMMA ServedStays ==
    ASSUME StreamInv, NEW c \in Clients,
           Offered(c)' = Offered(c), Stored(c)' = Stored(c), joined'[c] = joined[c],
           Len(handled) <= Len(handled'), Len(handled') \in Nat,
           closes'[c] >= closes[c], closes'[c] \in Nat,
           closes'[c] = 0 /\ c \in clients => c \in clients',
           place'[c] \in Serving => place[c] \in Serving,
           place'[c] \in {"new", "registering"} =>
               /\ place[c] \in {"new", "registering"}
               /\ written'[c] = written[c] /\ writing'[c] = writing[c] /\ send'[c] = send[c],
           place'[c] = "streaming" => writing'[c] = <<>>
    PROVE  Served(c)'
<1>1. joined'[c] <= Len(handled')
  BY DEF StreamInv, EachServed, Served, TypeOK
<1>2. ASSUME place'[c] \in Serving PROVE NoGaps(c)' /\ (closes'[c] = 0 => c \in clients')
  <2>1. NoGaps(c) /\ (closes[c] = 0 => c \in clients)
    BY <1>2 DEF StreamInv, EachServed, Served
  <2>2. closes[c] \in Nat
    BY DEF StreamInv, TypeOK
  <2>3. closes'[c] = 0 => closes[c] = 0
    BY <2>2
  <2>4. closes[c] > 0 => closes'[c] > 0
    BY <2>2
  <2> QED BY <2>1, <2>3, <2>4 DEF NoGaps, InOrder
<1> QED BY <1>1, <1>2 DEF StreamInv, EachServed, Served

LEMMA StoredType ==
    ASSUME TypeOK, NEW c \in Clients
    PROVE  Stored(c) \in Seq(Events)
BY ConcatProperties DEF TypeOK, Stored

\* The hub hands an event over to the clients that follow it and have room, and
\* drops the others that follow it.
LEMMA FanOutServes ==
    ASSUME StreamInv, FanOut, NEW c \in Clients
    PROVE  Served(c)'
<1> USE DEF StreamInv, EachServed
<1> DEFINE e == Head(broadcast)
<1>1. /\ broadcast # <<>> /\ handled' = Append(handled, e)
      /\ UNCHANGED <<published, place, joined, writing, written>>
  BY DEF FanOut, brokerVars, handlerVars
<1>2. e \in Events /\ e \in ToSet(broadcast)
  BY <1>1, TakingHead, HeadAndTail DEF TypeOK
<1>3. Len(handled') = Len(handled) + 1 /\ Len(handled) \in Nat
      /\ handled'[Len(handled) + 1] = e /\ \A i \in 1 .. Len(handled) : handled'[i] = handled[i]
  BY <1>1, <1>2 DEF TypeOK
<1>4. joined'[c] = joined[c] /\ joined[c] \in Nat /\ joined[c] <= Len(handled)
  BY <1>1 DEF TypeOK, Served
<1>5. \A x : Follows(c, x)' = Follows(c, x)
  BY <1>1 DEF Follows
<1>6. Offered(c)' = IF Follows(c, e) THEN Offered(c) \cup {e} ELSE Offered(c)
  <2> HIDE DEF e
  <2>1. {handled'[i] : i \in joined'[c]+1 .. Len(handled')}
          = {handled[i] : i \in joined[c]+1 .. Len(handled)} \cup {e}
    BY <1>3, <1>4
  <2> QED BY <1>5, <2>1 DEF Offered
<1>7. Offered(c) \subseteq ToSet(handled) /\ \A x \in Offered(c) : x < e
  <2>1. Offered(c) \subseteq ToSet(handled)
    BY <1>4 DEF Offered, ToSet, TypeOK
  <2> QED BY <1>2, <2>1 DEF Pipeline
<1>8. /\ c \in clients /\ Follows(c, e) /\ ~Full(c) =>
           send'[c] = Append(send[c], e) /\ closes'[c] = closes[c] /\ c \in clients'
      /\ c \in clients /\ Follows(c, e) /\ Full(c) =>
           send'[c] = send[c] /\ closes'[c] = closes[c] + 1
      /\ ~(c \in clients /\ Follows(c, e)) =>
           /\ send'[c] = send[c] /\ closes'[c] = closes[c]
           /\ c \in clients' <=> c \in clients
  BY DEF FanOut, CloseSend
<1>9. closes[c] \in Nat /\ closes'[c] \in Nat
  BY <1>8 DEF TypeOK
<1>10. joined'[c] <= Len(handled')
  BY <1>3, <1>4
<1>11. place'[c] \in {"new", "registering"} =>
         written'[c] = <<>> /\ writing'[c] = <<>> /\ send'[c] = <<>>
  BY <1>1, <1>8 DEF ClientLife, Served
<1>12. place'[c] = "streaming" => writing'[c] = <<>>
  BY <1>1 DEF Served
<1> HIDE DEF e
<1>13. ASSUME place'[c] \in Serving PROVE NoGaps(c)' /\ (closes'[c] = 0 => c \in clients')
  <2>1. NoGaps(c) /\ (closes[c] = 0 => c \in clients)
    BY <1>1, <1>13 DEF Served
  <2>2. c \in clients => closes[c] = 0
    BY DEF ClientLife
  <2>3. CASE c \in clients /\ Follows(c, e) /\ ~Full(c)
    <3>1. Stored(c)' = Append(Stored(c), e)
      <4>1. written[c] \in Seq(Events) /\ writing[c] \in Seq(Events) /\ send[c] \in Seq(Events)
        BY DEF TypeOK
      <4>2. Stored(c)' = written[c] \o writing[c] \o Append(send[c], e)
        BY <1>1, <1>8, <2>3 DEF Stored
      <4>3. written[c] \o writing[c] \o Append(send[c], e)
              = Append(written[c] \o writing[c] \o send[c], e)
        BY <1>2, <4>1, SendingAppends
      <4> QED BY <4>2, <4>3 DEF Stored
    <3>2. Offered(c) \subseteq ToSet(Stored(c)) /\ ToSet(Stored(c)) \subseteq Offered(c)
      BY <2>1, <2>2, <2>3 DEF NoGaps
    <3>3. ToSet(Stored(c)') = ToSet(Stored(c)) \cup {e}
      BY <1>2, <3>1, StoredType, SetOfAppend
    <3>4. InOrder(Stored(c)')
      BY <1>2, <1>7, <2>1, <3>1, <3>2, StoredType, InOrderAppend DEF NoGaps
    <3>5. InOrder(Stored(c))' = InOrder(Stored(c)')
      BY DEF InOrder
    <3> QED BY <1>6, <1>8, <2>3, <3>2, <3>3, <3>4, <3>5 DEF NoGaps
  <2>4. CASE ~(c \in clients /\ Follows(c, e) /\ ~Full(c))
    <3>1. Stored(c)' = Stored(c)
      BY <1>1, <1>8, <2>4 DEF Stored
    <3>2. CASE Follows(c, e)
      <4>1. closes'[c] > 0
        BY <1>8, <1>9, <2>1, <2>2, <2>4, <3>2
      <4>2. Offered(c)' = Offered(c) \cup {e} /\ \A x \in ToSet(Stored(c)) : x < e
        BY <1>6, <1>7, <2>1, <3>2 DEF NoGaps
      <4>3. \A x \in Offered(c)' \ ToSet(Stored(c)) : \A earlier \in ToSet(Stored(c)) : earlier < x
        BY <2>1, <4>2 DEF NoGaps
      <4> QED BY <2>1, <3>1, <4>1, <4>2, <4>3 DEF NoGaps, InOrder
    <3>3. CASE ~Follows(c, e)
      BY <1>6, <1>8, <2>1, <3>1, <3>3 DEF NoGaps, InOrder
    <3> QED BY <3>2, <3>3
  <2> QED BY <2>3, <2>4
<1> QED BY <1>10, <1>11, <1>12, <1>13 DEF Served

\* The stream, the shutdown and the other handlers leave a client's events alone.
LEMMA BystanderServed ==
    ASSUME StreamInv, TypeOK', NEW c \in Clients, handled' = handled,
           UNCHANGED published \/ \E n \in Notifications : published' = Append(published, n),
           joined'[c] = joined[c], written'[c] = written[c], writing'[c] = writing[c],
           send'[c] = send[c],
           \/ place'[c] = place[c]
           \/ place[c] = "new" /\ place'[c] = "registering"
           \/ place'[c] \in {"leaving", "returned"},
           closes'[c] >= closes[c],
           closes'[c] = 0 /\ c \in clients => c \in clients'
    PROVE  Served(c)'
<1>1. Offered(c)' = Offered(c)
  BY OfferedStays DEF StreamInv
<1>2. Stored(c)' = Stored(c)
  BY DEF Stored
<1>3. Len(handled') \in Nat /\ Len(handled) <= Len(handled') /\ closes'[c] \in Nat
  BY DEF TypeOK, StreamInv
<1>4. place'[c] = "streaming" => writing'[c] = <<>>
  BY DEF StreamInv, EachServed, Served
<1> QED BY <1>1, <1>2, <1>3, <1>4, ServedStays DEF Serving

\* What a handler takes and writes it keeps in order.
LEMMA OwnStepServed ==
    ASSUME StreamInv, TypeOK', NEW c \in Clients, HandlerStep(c)
    PROVE  Served(c)'
<1> USE DEF StreamInv, EachServed
<1>1. CASE Register(c)
  <2>1. /\ joined'[c] = Len(handled) /\ handled' = handled /\ place'[c] = "streaming"
        /\ c \in clients' /\ closes' = closes
        /\ UNCHANGED <<send, writing, written>>
    BY <1>1 DEF Register, Goto, TypeOK, channelVars
  <2>2. written[c] = <<>> /\ writing[c] = <<>> /\ send[c] = <<>>
    BY <1>1 DEF Register, Served
  <2>3. Offered(c)' = {}
    <3>1. {handled'[i] : i \in joined'[c]+1 .. Len(handled')} = {}
      BY <2>1 DEF TypeOK
    <3> QED BY <3>1 DEF Offered
  <2>4. Stored(c)' = <<>>
    BY <2>1, <2>2 DEF Stored
  <2>5. NoGaps(c)'
    BY <2>3, <2>4, EmptyInOrder DEF NoGaps, InOrder
  <2>6. joined'[c] <= Len(handled')
    BY <2>1 DEF TypeOK
  <2> QED BY <2>1, <2>2, <2>5, <2>6 DEF Served
<1>2. CASE TakeEvent(c)
  <2>1. /\ place[c] = "streaming" /\ send[c] # <<>> /\ place'[c] = "writing"
        /\ writing'[c] = <<Head(send[c])>> /\ send'[c] = Tail(send[c])
        /\ UNCHANGED <<published, handled, joined, written, closes, clients>>
    BY <1>2 DEF TakeEvent, Goto, TypeOK, brokerVars, hubVars
  <2>2. writing[c] = <<>>
    BY <2>1 DEF Served
  <2>3. Stored(c)' = Stored(c)
    <3>1. written[c] \in Seq(Events) /\ writing[c] \in Seq(Events) /\ send[c] \in Seq(Events)
      BY DEF TypeOK
    <3>2. written[c] \o <<Head(send[c])>> \o Tail(send[c]) = written[c] \o <<>> \o send[c]
      BY <2>1, <3>1, TakingKeeps
    <3> QED BY <2>1, <2>2, <3>2 DEF Stored
  <2>4. Offered(c)' = Offered(c)
    BY <2>1, OfferedStays
  <2>5. Len(handled') \in Nat /\ Len(handled) <= Len(handled')
        /\ closes'[c] >= closes[c] /\ closes'[c] \in Nat
    BY <2>1 DEF TypeOK
  <2> QED BY <2>1, <2>3, <2>4, <2>5, ServedStays DEF Serving
<1>3. CASE WriteEvent(c)
  <2>1. /\ place[c] = "writing" /\ place'[c] = "streaming"
        /\ written'[c] = written[c] \o writing[c] /\ writing'[c] = <<>>
        /\ UNCHANGED <<published, handled, joined, send, closes, clients>>
    BY <1>3 DEF WriteEvent, Goto, TypeOK, brokerVars, hubVars, channelVars
  <2>2. Stored(c)' = Stored(c)
    <3>1. written[c] \in Seq(Events) /\ writing[c] \in Seq(Events) /\ send[c] \in Seq(Events)
      BY DEF TypeOK
    <3>2. (written[c] \o writing[c]) \o <<>> \o send[c] = written[c] \o writing[c] \o send[c]
      BY <3>1, WritingKeeps
    <3> QED BY <2>1, <3>2 DEF Stored
  <2>3. Offered(c)' = Offered(c)
    BY <2>1, OfferedStays
  <2>4. Len(handled') \in Nat /\ Len(handled) <= Len(handled')
        /\ closes'[c] >= closes[c] /\ closes'[c] \in Nat
    BY <2>1 DEF TypeOK
  <2> QED BY <2>1, <2>2, <2>3, <2>4, ServedStays DEF Serving
<1>4. CASE \/ RegisterRefused(c) \/ SeeDisconnect(c) \/ SeeClosed(c) \/ LeaveStopped(c)
           \/ WriteFails(c) \/ Unregister(c)
  <2>1. /\ place'[c] \in {"leaving", "returned"} /\ handled' = handled
        /\ joined' = joined
    BY <1>4 DEF RegisterRefused, SeeDisconnect, SeeClosed, LeaveStopped, WriteFails,
                Unregister, Step, Goto, TypeOK, brokerVars, hubVars
  <2> QED BY <2>1 DEF Served, Serving
<1> QED BY <1>1, <1>2, <1>3, <1>4 DEF HandlerStep

LEMMA OtherHandlerServed ==
    ASSUME StreamInv, TypeOK', NEW c \in Clients, NEW d \in Clients \ {c},
           HandlerStep(d) \/ Connect(d) \/ Disconnect(d)
    PROVE  Served(c)'
<1>1. /\ handled' = handled /\ published' = published
      /\ joined'[c] = joined[c] /\ written'[c] = written[c] /\ writing'[c] = writing[c]
      /\ send'[c] = send[c] /\ place'[c] = place[c] /\ closes'[c] = closes[c]
      /\ c \in clients => c \in clients'
  BY DEF HandlerStep, Connect, Disconnect, Register, RegisterRefused, SeeDisconnect, SeeClosed,
         TakeEvent, WriteEvent, WriteFails, Unregister, LeaveStopped, Step, Goto, CloseSend,
         StreamInv, TypeOK, brokerVars, hubVars, channelVars
<1>2. closes[c] \in Nat
  BY DEF StreamInv, TypeOK
<1> QED BY <1>1, <1>2, BystanderServed

LEMMA ConnectServed ==
    ASSUME StreamInv, TypeOK', NEW c \in Clients, Connect(c) \/ Disconnect(c)
    PROVE  Served(c)'
<1>1. /\ UNCHANGED <<handled, published, joined, written, writing, send, closes, clients>>
      /\ \/ place'[c] = place[c]
         \/ place[c] = "new" /\ place'[c] \in {"registering", "returned"}
  BY DEF Connect, Disconnect, Step, Goto, StreamInv, TypeOK, brokerVars, hubVars, channelVars
<1>2. closes[c] \in Nat
  BY DEF StreamInv, TypeOK
<1> QED BY <1>1, <1>2, BystanderServed

LEMMA HubServed ==
    ASSUME StreamInv, TypeOK', NEW c \in Clients,
           \/ \E n \in Notifications : PublishEvent(n)
           \/ ConsumeEvents \/ EndStream \/ BroadcastRaw
           \/ StopHub \/ CloseDone \/ Shutdown \/ UNCHANGED vars
    PROVE  Served(c)'
<1>1. /\ UNCHANGED <<handled, joined, written, writing, send, place>>
      /\ UNCHANGED published \/ \E n \in Notifications : published' = Append(published, n)
  BY DEF PublishEvent, ConsumeEvents, EndStream, BroadcastRaw, StopHub, CloseDone, Shutdown,
         vars, brokerVars, hubVars, channelVars, handlerVars
<1>2. UNCHANGED <<closes, clients>> \/ StopHub
  BY DEF PublishEvent, ConsumeEvents, EndStream, BroadcastRaw, StopHub, CloseDone, Shutdown,
         vars, brokerVars, hubVars, channelVars, handlerVars
<1>3. closes[c] \in Nat
  BY DEF StreamInv, TypeOK
<1>4. closes'[c] >= closes[c] /\ (closes'[c] = 0 /\ c \in clients => c \in clients')
  BY <1>2, <1>3 DEF StopHub, CloseSend
<1> QED BY <1>1, <1>4, BystanderServed

\* The order of the events and what each client got of them hold in every state.
THEOREM StreamInvHolds == Spec => []StreamInv
<1>1. Init => Pipeline /\ EachServed
  <2> SUFFICES ASSUME Init PROVE Pipeline /\ EachServed
    OBVIOUS
  <2>1. Pipeline
    BY EmptyInOrder DEF Init, Pipeline
  <2>2. ASSUME NEW c \in Clients PROVE Served(c)
    BY DEF Init, Served, Serving
  <2> QED BY <2>1, <2>2 DEF EachServed
<1>2. StreamInv /\ TypeOK' /\ [Next]_vars => Pipeline' /\ EachServed'
  <2> SUFFICES ASSUME StreamInv, TypeOK', [Next]_vars PROVE Pipeline' /\ EachServed'
    OBVIOUS
  <2>1. Pipeline'
    BY PipelineStep DEF StreamInv
  <2>2. ASSUME NEW c \in Clients PROVE Served(c)'
    <3>1. CASE \E d \in Clients : Connect(d) \/ Disconnect(d) \/ HandlerStep(d)
      BY <3>1, OwnStepServed, ConnectServed, OtherHandlerServed
    <3>2. CASE ~\E d \in Clients : Connect(d) \/ Disconnect(d) \/ HandlerStep(d)
      BY <3>2, FanOutServes, HubServed DEF Next
    <3> QED BY <3>1, <3>2
  <2> QED BY <2>1, <2>2 DEF EachServed
<1>3. StreamInv <=> TypeOK /\ ClientLife /\ Pipeline /\ EachServed
  BY DEF StreamInv
<1> QED BY <1>1, <1>2, <1>3, LiveViewTypes, ClientLifeHolds, PTL DEF Spec

\* Slow clients are dropped and never skipped: what serveWS writes to a client
\* is what the hub handled for it since it registered, in order, and stops early
\* only after the hub has closed the channel.
THEOREM StreamsHaveNoGaps == Spec => []StreamHasNoGaps
<1>1. StreamInv => StreamHasNoGaps
  BY DEF StreamInv, EachServed, Served, NoGaps, StreamHasNoGaps
<1> QED BY <1>1, StreamInvHolds, PTL
=============================================================================
