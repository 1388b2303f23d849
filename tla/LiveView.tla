------------------------------ MODULE LiveView ------------------------------
(***************************************************************************)
(* The live status stream of one API process: status events travel over the *)
(* events fanout and the process's own queue (queue/rabbit/events.go) into   *)
(* the buffer of the hub (api/hub.go), whose single goroutine copies each   *)
(* to the send channel of every client it matches. A handler per WebSocket  *)
(* (serveWS) registers, writes out what its channel holds and unregisters.  *)
(* Channels connect the three; only the hub closes send channels, and only  *)
(* the end of the hub lets handlers go that still want to talk to it.       *)
(*                                                                         *)
(* An event is known by its position among all that were published.         *)
(***************************************************************************)
EXTENDS Naturals, SequencesExt

CONSTANTS
    Clients,            \* WebSocket connections, each with its handler
    Notifications,
    Filter,             \* per client the notification it follows (?id=), or Everything
    Everything,
    ClientBuffer,       \* clientSendBuffer
    HubBuffer,          \* the capacity of hub.broadcast
    MaxEvents           \* bound: how many events are published

ASSUME LiveViewAssumption ==
    /\ Everything \notin Notifications
    /\ Filter \in [Clients -> Notifications \cup {Everything}]
    /\ ClientBuffer \in Nat \ {0} /\ HubBuffer \in Nat \ {0} /\ MaxEvents \in Nat

VARIABLES
    published,          \* history: the notification of each event, in order
    stream,             \* where ConsumeEvents is
    queue,              \* the exclusive queue: events not yet handed over
    cancelled,          \* ctx is done
    hub,                \* where Run is; hub.done is closed when it is "stopped"
    broadcast,          \* hub.broadcast
    clients,            \* the hub's map
    handled,            \* history: the events the hub has fanned out, in order
    place,              \* where each handler is
    send,               \* what each send channel holds
    closes,             \* how often each send channel was closed
    readerDone,         \* the reader has seen the client go
    writing,            \* the event a handler is writing, as a sequence
    written,            \* history: the events written to each client
    joined              \* history: how many events were handled when it registered

brokerVars == <<published, stream, queue>>
hubVars == <<cancelled, hub, broadcast, clients, handled>>
channelVars == <<send, closes>>
handlerVars == <<place, readerDone, writing, written, joined>>
vars == <<brokerVars, hubVars, channelVars, handlerVars>>

Events == 1 .. MaxEvents

Serving == {"streaming", "writing"}
Places == Serving \cup {"new", "registering", "leaving", "returned"}

TypeOK ==
    /\ published \in Seq(Notifications) /\ Len(published) <= MaxEvents
    /\ stream \in {"starting", "consuming", "ended"}
    /\ queue \in Seq(Events) /\ broadcast \in Seq(Events) /\ handled \in Seq(Events)
    /\ Len(broadcast) <= HubBuffer
    /\ cancelled \in BOOLEAN /\ hub \in {"running", "closing", "stopped"}
    /\ clients \subseteq Clients
    /\ place \in [Clients -> Places]
    /\ send \in [Clients -> Seq(Events)] /\ closes \in [Clients -> Nat]
    /\ \A c \in Clients : Len(send[c]) <= ClientBuffer
    /\ readerDone \in [Clients -> BOOLEAN]
    /\ writing \in [Clients -> Seq(Events)] /\ written \in [Clients -> Seq(Events)]
    /\ joined \in [Clients -> Nat]

Init ==
    /\ published = <<>> /\ stream = "starting" /\ queue = <<>>
    /\ cancelled = FALSE /\ hub = "running" /\ broadcast = <<>>
    /\ clients = {} /\ handled = <<>>
    /\ place = [c \in Clients |-> "new"]
    /\ send = [c \in Clients |-> <<>>] /\ closes = [c \in Clients |-> 0]
    /\ readerDone = [c \in Clients |-> FALSE]
    /\ writing = [c \in Clients |-> <<>>] /\ written = [c \in Clients |-> <<>>]
    /\ joined = [c \in Clients |-> 0]

----------------------------------------------------------------------------
(* The fanout exchange and ConsumeEvents *)

\* PublishEvent: the exchange copies the event to the queues bound at the time.
PublishEvent(n) ==
    /\ Len(published) < MaxEvents
    /\ published' = Append(published, n)
    /\ queue' = IF stream = "consuming" THEN Append(queue, Len(published)+1) ELSE queue
    /\ UNCHANGED <<stream, hubVars, channelVars, handlerVars>>

\* The exclusive queue is declared, bound and consumed.
ConsumeEvents ==
    /\ stream = "starting"
    /\ stream' = "consuming"
    /\ UNCHANGED <<published, queue, hubVars, channelVars, handlerVars>>

\* ctx is done, the broker closes the stream or a declaration fails: the queue
\* goes with the channel, and nobody opens another.
EndStream ==
    /\ stream # "ended"
    /\ stream' = "ended" /\ queue' = <<>>
    /\ UNCHANGED <<published, hubVars, channelVars, handlerVars>>

\* Defective variant: the buffer has no bound.
BroadcastUnbounded(buffer, e) == Append(buffer, e)

\* An event that finds the hub's buffer full is dropped.
Broadcast(buffer, e) == IF Len(buffer) < HubBuffer THEN Append(buffer, e) ELSE buffer

\* The payload of the next delivery is handed to the hub.
BroadcastRaw ==
    /\ queue # <<>>
    /\ queue' = Tail(queue) /\ broadcast' = Broadcast(broadcast, Head(queue))
    /\ UNCHANGED <<published, stream, cancelled, hub, clients, handled, channelVars, handlerVars>>

----------------------------------------------------------------------------
(* Run: the hub's goroutine *)

Goto(c, next) == place' = [place EXCEPT ![c] = next]

\* The hub closes the send channels of C. Closing one twice panics.
CloseSend(C) == closes' = [c \in Clients |-> IF c \in C THEN closes[c] + 1 ELSE closes[c]]

\* register is unbuffered: the handler goes on when the hub has taken the client.
Register(c) ==
    /\ hub = "running" /\ place[c] = "registering"
    /\ clients' = clients \cup {c}
    /\ joined' = [joined EXCEPT ![c] = Len(handled)]
    /\ Goto(c, "streaming")
    /\ UNCHANGED <<brokerVars, cancelled, hub, broadcast, handled, channelVars>>
    /\ UNCHANGED <<readerDone, writing, written>>

\* Defective variant: unregister does not ask whether the client is known.
UnregisterUnchecked(c) ==
    /\ hub = "running" /\ place[c] = "leaving"
    /\ clients' = clients \ {c}
    /\ CloseSend({c})
    /\ Goto(c, "returned")
    /\ UNCHANGED <<brokerVars, cancelled, hub, broadcast, handled, send>>
    /\ UNCHANGED <<readerDone, writing, written, joined>>

\* unregister: a client the hub has dropped before is not closed again.
Unregister(c) ==
    /\ hub = "running" /\ place[c] = "leaving"
    /\ clients' = clients \ {c}
    /\ CloseSend({c} \cap clients)
    /\ Goto(c, "returned")
    /\ UNCHANGED <<brokerVars, cancelled, hub, broadcast, handled, send>>
    /\ UNCHANGED <<readerDone, writing, written, joined>>

Follows(c, e) == Filter[c] \in {Everything, published[e]}
Full(c) == Len(send[c]) >= ClientBuffer

\* Defective variant: a slow client stays and misses the event.
FanOutSkipping ==
    /\ hub = "running" /\ broadcast # <<>>
    /\ LET e == Head(broadcast)
           listening == {c \in clients : Follows(c, e) /\ ~Full(c)}
       IN send' = [c \in Clients |-> IF c \in listening THEN Append(send[c], e) ELSE send[c]]
    /\ broadcast' = Tail(broadcast) /\ handled' = Append(handled, Head(broadcast))
    /\ UNCHANGED <<brokerVars, cancelled, hub, clients, closes, handlerVars>>

\* Defective variant: the loop ends with the first slow client.
FanOutBreaking ==
    /\ hub = "running" /\ broadcast # <<>>
    /\ LET e == Head(broadcast)
           listening == {c \in clients : Follows(c, e)}
           slow == {c \in listening : Full(c)}
       IN /\ send' = [c \in Clients |->
                        IF slow = {} /\ c \in listening THEN Append(send[c], e) ELSE send[c]]
          /\ clients' = clients \ slow
          /\ CloseSend(slow)
    /\ broadcast' = Tail(broadcast) /\ handled' = Append(handled, Head(broadcast))
    /\ UNCHANGED <<brokerVars, cancelled, hub, handlerVars>>

\* One event to every client that follows it; a client whose channel is full
\* is dropped instead of waited for.
FanOut ==
    /\ hub = "running" /\ broadcast # <<>>
    /\ LET e == Head(broadcast)
           listening == {c \in clients : Follows(c, e)}
           slow == {c \in listening : Full(c)}
       IN /\ send' = [c \in Clients |->
                        IF c \in listening \ slow THEN Append(send[c], e) ELSE send[c]]
          /\ clients' = clients \ slow
          /\ CloseSend(slow)
    /\ broadcast' = Tail(broadcast) /\ handled' = Append(handled, Head(broadcast))
    /\ UNCHANGED <<brokerVars, cancelled, hub, handlerVars>>

\* ctx.Done: every channel is closed; the map is gone with the goroutine.
StopHub ==
    /\ hub = "running" /\ cancelled
    /\ hub' = "closing"
    /\ clients' = {} /\ CloseSend(clients)
    /\ UNCHANGED <<brokerVars, cancelled, broadcast, handled, send, handlerVars>>

\* Defective variant: done is not closed.
KeepDoneOpen ==
    /\ hub = "closing"
    /\ UNCHANGED vars

\* ... and then hub.done, by the deferred close.
CloseDone ==
    /\ hub = "closing"
    /\ hub' = "stopped"
    /\ UNCHANGED <<brokerVars, cancelled, broadcast, clients, handled, channelVars, handlerVars>>

\* SIGTERM.
Shutdown ==
    /\ ~cancelled /\ cancelled' = TRUE
    /\ UNCHANGED <<brokerVars, hub, broadcast, clients, handled, channelVars, handlerVars>>

----------------------------------------------------------------------------
(* serveWS *)

\* Only the place of handler c changes.
Step(c, from, next) ==
    /\ place[c] = from /\ Goto(c, next)
    /\ UNCHANGED <<brokerVars, hubVars, channelVars, readerDone, writing, written, joined>>

\* The connection is accepted; a filter that is no UUID ends it at once.
Connect(c) == Step(c, "new", "registering") \/ Step(c, "new", "returned")

\* Registering with a hub that has stopped.
RegisterRefused(c) == hub = "stopped" /\ Step(c, "registering", "returned")

\* The client disconnects, and the reader's Read fails.
Disconnect(c) ==
    /\ place[c] \in Serving /\ ~readerDone[c]
    /\ readerDone' = [readerDone EXCEPT ![c] = TRUE]
    /\ UNCHANGED <<brokerVars, hubVars, channelVars, place, writing, written, joined>>

\* Defective variant: the end of the reader is only looked at between events.
SeeDisconnectBetweenEvents(c) ==
    readerDone[c] /\ send[c] # <<>> /\ Step(c, "streaming", "leaving")

SeeDisconnect(c) == readerDone[c] /\ Step(c, "streaming", "leaving")

\* A closed channel yields what it still holds before it reports the end.
SeeClosed(c) == send[c] = <<>> /\ closes[c] > 0 /\ Step(c, "streaming", "leaving")

TakeEvent(c) ==
    /\ place[c] = "streaming" /\ send[c] # <<>>
    /\ writing' = [writing EXCEPT ![c] = <<Head(send[c])>>]
    /\ send' = [send EXCEPT ![c] = Tail(@)]
    /\ Goto(c, "writing")
    /\ UNCHANGED <<brokerVars, hubVars, closes, readerDone, written, joined>>

WriteEvent(c) ==
    /\ place[c] = "writing"
    /\ written' = [written EXCEPT ![c] = @ \o writing[c]]
    /\ writing' = [writing EXCEPT ![c] = <<>>]
    /\ Goto(c, "streaming")
    /\ UNCHANGED <<brokerVars, hubVars, channelVars, readerDone, joined>>

\* Defective variant: after a failed write the handler returns without its
\* deferred unregister.
WriteFailsAbruptly(c) ==
    /\ place[c] = "writing"
    /\ writing' = [writing EXCEPT ![c] = <<>>]
    /\ Goto(c, "returned")
    /\ UNCHANGED <<brokerVars, hubVars, channelVars, readerDone, written, joined>>

\* The write fails, or takes longer than clientWriteTimeout.
WriteFails(c) ==
    /\ place[c] = "writing"
    /\ writing' = [writing EXCEPT ![c] = <<>>]
    /\ Goto(c, "leaving")
    /\ UNCHANGED <<brokerVars, hubVars, channelVars, readerDone, written, joined>>

\* The deferred unregister finds the hub stopped.
LeaveStopped(c) == hub = "stopped" /\ Step(c, "leaving", "returned")

----------------------------------------------------------------------------

HandlerStep(c) ==
    \/ Register(c) \/ RegisterRefused(c)
    \/ SeeDisconnect(c) \/ SeeClosed(c)
    \/ TakeEvent(c) \/ WriteEvent(c) \/ WriteFails(c)
    \/ Unregister(c) \/ LeaveStopped(c)

Next ==
    \/ \E n \in Notifications : PublishEvent(n)
    \/ ConsumeEvents \/ EndStream \/ BroadcastRaw
    \/ FanOut \/ StopHub \/ CloseDone \/ Shutdown
    \/ \E c \in Clients : Connect(c) \/ Disconnect(c) \/ HandlerStep(c)

Spec == Init /\ [][Next]_vars

(***************************************************************************)
(* Goroutines that can step do: the hub's select, which chooses at random   *)
(* among what is ready, takes ctx.Done in the end; a write ends within its  *)
(* timeout. Nothing is assumed of publishers, clients, the broker's stream  *)
(* and the signal.                                                          *)
(***************************************************************************)
Fairness ==
    /\ WF_vars(BroadcastRaw) /\ WF_vars(FanOut) /\ WF_vars(StopHub) /\ WF_vars(CloseDone)
    /\ \A c \in Clients : WF_vars(HandlerStep(c))

FairSpec == Spec /\ Fairness

----------------------------------------------------------------------------
(* Properties *)

\* hub.go: "only it closes client send channels". A slow client, a leaving one
\* and the shutdown compete for the close: no channel is closed twice, and none
\* in the map is closed, so that neither a close nor a send can panic.
HubNeverPanics ==
    \A c \in Clients : closes[c] <= 1 /\ (c \in clients => closes[c] = 0)

\* A handler that has returned leaves no client behind for the hub to fill,
\* however its stream ended: disconnect, failed write, dropped for slowness.
NoClientLeaks ==
    \A c \in clients : place[c] \in Serving \cup {"leaving"}

\* What the hub handled for a client since it registered, and what of it the
\* client has been written, is being written and has in its channel.
Offered(c) == {e \in {handled[i] : i \in joined[c]+1 .. Len(handled)} : Follows(c, e)}
Stored(c) == written[c] \o writing[c] \o send[c]

InOrder(s) == \A i, j \in DOMAIN s : i < j => s[i] < s[j]

\* The client of an open channel gets all that the hub handles for it, each
\* event once, in order and without a gap: a client that cannot keep up is
\* dropped and never skips. What it gets of a closed channel is a beginning.
StreamHasNoGaps ==
    \A c \in Clients : place[c] \in Serving =>
        /\ InOrder(Stored(c)) /\ ToSet(Stored(c)) \subseteq Offered(c)
        /\ \A e \in Offered(c) \ ToSet(Stored(c)) :
             closes[c] > 0 /\ \A earlier \in ToSet(Stored(c)) : earlier < e

\* hub.go: done closes "so handlers never block sending to a hub that no longer
\* receives": after the shutdown every handler returns, wherever it stands.
ShutdownReturnsHandlers ==
    \A c \in Clients : cancelled /\ place[c] # "new" ~> place[c] = "returned"

\* A client that disconnects is unregistered and its handler returns, even
\* while the hub is busy with others or is stopping.
DisconnectReturnsHandler ==
    \A c \in Clients : readerDone[c] ~> place[c] = "returned"

\* hub.go: a client that cannot keep up never stalls the hub. Whatever the
\* others do, an event in the hub's buffer gets to each client that stays.
SlowClientsStallNobody ==
    \A c \in Clients, e \in Events :
        c \in clients /\ e \in ToSet(broadcast) /\ Follows(c, e)
            ~> e \in ToSet(written[c]) \/ c \notin clients
=============================================================================
