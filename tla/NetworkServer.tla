---------------------------- MODULE NetworkServer ----------------------------
(***************************************************************************)
(* NetworkServer, src/network/NetworkServer.cpp: clients are accepted,     *)
(* their data is cut into messages for the main loop, failed ones are      *)
(* forgotten and closed, and listeners are told.  Everything is keyed by   *)
(* the descriptor, which the system gives to the next client.              *)
(*                                                                         *)
(* Events come one at a time: WindowsIOCP runs a callback under its        *)
(* contextsMutex_ (AsyncIOManager), and on Linux nothing calls             *)
(* processEvents().  Nothing is assumed of what a read event carries: its  *)
(* back end may deliver bytes again, or those of the client that had the   *)
(* descriptor before.                                                      *)
(*                                                                         *)
(* A callback that calls the back end locks contextsMutex_ on a thread     *)
(* that holds it already; and the welcome goes through a blocking send()   *)
(* on Windows.  Either may be the last thing that thread does.             *)
(***************************************************************************)
EXTENDS Framing

CONSTANTS
    Descriptors,     \* what accept() may return
    Clients,         \* each connects once
    Chunks,          \* what a read event may carry
    MaxBuffer,       \* 64 KB
    MaxReceived,     \* BOUND: bytes appended for a client
    Listeners, MaxListeners

NoClient == "no client"

ASSUME ServerAssumption ==
    /\ NoClient \notin Clients
    /\ Chunks \subseteq Seq(Byte) \ {<<>>}
    /\ MaxBuffer \in Nat /\ MaxBuffer >= HeaderSize
    /\ MaxReceived \in Nat
    /\ MaxListeners \in Nat

VARIABLES
    phase,            \* how far the owner's calls have come
    isRunning,        \* isRunning
    serverSocket,     \* serverSocket is a socket
    connection,       \* the client each open descriptor belongs to
    clientSockets,    \* clientSockets, and the keys of clientInfo
    messageBuffers,   \* messageBuffers_; without an entry: empty
    event,            \* the event in progress
    received,         \* history: what was appended for each client
    handed,           \* history: what went to the main loop, per client
    overlong,         \* history: clients that began a message of more than 64 KB
    listeners, owned, visiting, calling, registered   \* eventDispatcher

lifeVars == <<phase, isRunning, serverSocket>>
clientVars == <<connection, clientSockets, messageBuffers>>
dataVars == <<received, handed, overlong>>
listenerVars == <<listeners, owned, visiting, calling, registered>>
vars == <<lifeVars, clientVars, event, dataVars, listenerVars>>

Dispatcher == INSTANCE NetworkEventDispatcher

NoEvent == [kind |-> "none"]

Events ==
    [kind : {"accept", "read", "write", "error", "failure"},
     socket : Descriptors,
     at : {"add", "register", "remove", "close", "notify", "notifying",
           "append", "parse", "respond", "rearm", "stuck"},
     data : Seq(Byte)]

TypeOK ==
    /\ phase \in {"created", "socket", "bind", "listen", "register", "initialized",
                  "starting", "started", "failed", "stopping", "closing", "down"}
    /\ isRunning \in BOOLEAN
    /\ serverSocket \in BOOLEAN
    /\ connection \in [Descriptors -> Clients \cup {NoClient}]
    /\ clientSockets \in SUBSET Descriptors
    /\ messageBuffers \in [Descriptors -> Seq(Byte)]
    /\ event \in Events \cup {NoEvent}
    /\ received \in [Clients -> Seq(Byte)]
    /\ handed \in [Clients -> Seq(Byte)]
    /\ overlong \in SUBSET Clients
    /\ Dispatcher!TypeOK

Init ==
    /\ phase = "created"
    /\ isRunning = FALSE
    /\ serverSocket = FALSE
    /\ connection = [d \in Descriptors |-> NoClient]
    /\ clientSockets = {}
    /\ messageBuffers = [d \in Descriptors |-> <<>>]
    /\ event = NoEvent
    /\ received = [c \in Clients |-> <<>>]
    /\ handed = [c \in Clients |-> <<>>]
    /\ overlong = {}
    /\ Dispatcher!Init

-----------------------------------------------------------------------------
(* initialize() and start()                                                *)

Moves(from, to) == phase = from /\ phase' = to

\* A step of the owner that leaves clients, events and listeners alone.
OwnersOnly == UNCHANGED <<clientVars, event, dataVars, listenerVars>>

InitializeAsyncIO ==
    /\ Moves("created", "socket") \/ Moves("created", "failed")
    /\ UNCHANGED <<isRunning, serverSocket>>
    /\ OwnersOnly

\* createSocket() closes the socket itself when its options cannot be set.
CreateSocket ==
    /\ \/ Moves("socket", "bind") /\ serverSocket' = TRUE
       \/ Moves("socket", "failed") /\ UNCHANGED serverSocket
    /\ UNCHANGED isRunning
    /\ OwnersOnly

\* bindSocket() and listenForConnections() close it when they fail.
BindAndListen ==
    /\ \/ /\ Moves("bind", "listen") \/ Moves("listen", "register")
          /\ UNCHANGED serverSocket
       \/ /\ Moves("bind", "failed") \/ Moves("listen", "failed")
          /\ serverSocket' = FALSE
    /\ UNCHANGED isRunning
    /\ OwnersOnly

\* The server socket stays open when it cannot be registered.
RegisterServerSocket ==
    /\ Moves("register", "initialized") \/ Moves("register", "failed")
    /\ UNCHANGED <<isRunning, serverSocket>>
    /\ OwnersOnly

Start ==
    /\ Moves("initialized", "starting")
    /\ isRunning' = TRUE
    /\ UNCHANGED serverSocket
    /\ OwnersOnly

StartEventLoop ==
    /\ \/ Moves("starting", "started") /\ UNCHANGED isRunning
       \/ Moves("starting", "failed") /\ isRunning' = FALSE
    /\ UNCHANGED serverSocket
    /\ OwnersOnly

-----------------------------------------------------------------------------
(* Events, a step for each call that others can observe.                   *)

\* Events come once the event loop runs.  Those that come between stop() and
\* the join are as those before: no event looks at isRunning.
EventsCome == phase = "started"

\* A step of the event in progress.
EventsOnly == UNCHANGED lifeVars

At(step) == event # NoEvent /\ event.at = step

Goes(step) == event' = [event EXCEPT !.at = step]

\* After a call that may not come back.
Returns(step) == Goes(step) \/ Goes("stuck")

Begins(kind, d, step, data) ==
    /\ EventsCome
    /\ event = NoEvent
    /\ event' = [kind |-> kind, socket |-> d, at |-> step, data |-> data]

\* onAcceptEvent(): the system has given d to the client.
AcceptEvent(c, d) ==
    /\ Begins("accept", d, "add", <<>>)
    /\ received[c] = <<>> /\ \A e \in Descriptors : connection[e] # c
    /\ connection[d] = NoClient
    /\ connection' = [connection EXCEPT ![d] = c]
    /\ UNCHANGED <<lifeVars, clientSockets, messageBuffers, dataVars, listenerVars>>

AddClient ==
    /\ At("add")
    /\ clientSockets' = clientSockets \cup {event.socket}
    /\ Goes("register")
    /\ EventsOnly
    /\ UNCHANGED <<connection, messageBuffers, dataVars, listenerVars>>

\* Mutant: what is left in the buffer stays for the next client.
RemoveClient_KeepsBuffer(d) ==
    /\ clientSockets' = clientSockets \ {d}
    /\ UNCHANGED messageBuffers

\* removeClient()
RemoveClient(d) ==
    /\ clientSockets' = clientSockets \ {d}
    /\ messageBuffers' = [messageBuffers EXCEPT ![d] = <<>>]

\* Mutant: a client that cannot be registered is not closed.
RegisterFails_LeftOpen ==
    /\ RemoveClient(event.socket)
    /\ event' = NoEvent

RegisterFails ==
    /\ RemoveClient(event.socket)
    /\ Goes("close")

\* asyncIoManager->addClient(); the welcome is sent when it succeeds.
RegisterClient ==
    /\ At("register")
    /\ \/ Returns("notify") /\ UNCHANGED <<clientSockets, messageBuffers>>
       \/ RegisterFails
    /\ EventsOnly
    /\ UNCHANGED <<connection, dataVars, listenerVars>>

\* The callback of startAsyncReceive(), with onReadEvent(): the back end has a
\* context for d, and looks at nothing else.
ReadEvent(d, data) ==
    /\ Begins("read", d, "notify", data)
    /\ connection[d] # NoClient
    /\ Len(received[connection[d]]) + Len(data) <= MaxReceived
    /\ UNCHANGED <<lifeVars, clientVars, dataVars, listenerVars>>

\* onWriteEvent()
WriteEvent(d) ==
    /\ Begins("write", d, "notify", <<>>)
    /\ UNCHANGED <<lifeVars, clientVars, dataVars, listenerVars>>

\* onErrorEvent(), or an IOERROR for a callback of sendAsync() or
\* startAsyncReceive(), which forgets and closes but tells nobody; also of a
\* descriptor that is closed already.
ErrorEvent(d) ==
    /\ \E kind \in {"error", "failure"} : Begins(kind, d, "remove", <<>>)
    /\ UNCHANGED <<lifeVars, clientVars, dataVars, listenerVars>>

RemoveFailed ==
    /\ At("remove")
    /\ RemoveClient(event.socket)
    /\ Goes("close")
    /\ EventsOnly
    /\ UNCHANGED <<connection, dataVars, listenerVars>>

\* CLOSE_SOCKET(): the descriptor may be given to another client.
CloseFailed ==
    /\ At("close")
    /\ connection' = [connection EXCEPT ![event.socket] = NoClient]
    /\ IF event.kind = "error" THEN Goes("notify") ELSE event' = NoEvent
    /\ EventsOnly
    /\ UNCHANGED <<clientSockets, messageBuffers, dataVars, listenerVars>>

\* eventDispatcher.notify...(); a read goes on with its data.
Notify ==
    /\ \/ /\ At("notify")
          /\ Dispatcher!NotifyBegins
          /\ Goes("notifying")
       \/ /\ At("notifying")
          /\ Dispatcher!NotifyStep
          /\ UNCHANGED event
       \/ /\ At("notifying")
          /\ Dispatcher!NotifyEnds
          /\ IF event.kind = "read" THEN Goes("append") ELSE event' = NoEvent
    /\ EventsOnly
    /\ UNCHANGED <<clientVars, dataVars>>

-----------------------------------------------------------------------------
(* The data of a read event                                                *)

Buffer == messageBuffers[event.socket]

SetBuffer(buffer) ==
    messageBuffers' = [messageBuffers EXCEPT ![event.socket] = buffer]

\* Mutant: the limit is applied to what has come in, before it is parsed.
Appended_Limited ==
    IF Len(Buffer \o event.data) > MaxBuffer THEN <<>> ELSE Buffer \o event.data

Appended == Buffer \o event.data

AppendData ==
    /\ At("append")
    /\ SetBuffer(Appended)
    /\ received' = [received EXCEPT ![connection[event.socket]] = @ \o event.data]
    /\ Goes("parse")
    /\ EventsOnly
    /\ UNCHANGED <<connection, clientSockets, handed, overlong, listenerVars>>

\* insert() throws, and the bytes are lost.
AppendFails ==
    /\ At("append")
    /\ Goes("respond")
    /\ EventsOnly
    /\ UNCHANGED <<clientVars, dataVars, listenerVars>>

\* One turn of the loop: convertNetworkMessageToMessage(), addMessage(), and
\* only then the message leaves the buffer.
HandOver ==
    /\ At("parse")
    /\ IsCompleteMessage(Buffer)
    /\ handed' = [handed EXCEPT ![connection[event.socket]] =
                      @ \o Serialize(ParseMessage(Buffer))]
    /\ SetBuffer(SubSeq(Buffer, TotalSize(Buffer) + 1, Len(Buffer)))
    /\ EventsOnly
    /\ UNCHANGED <<connection, clientSockets, event, received, overlong, listenerVars>>

\* An exception instead: it is caught, and the message stays where it is.
HandOverFails ==
    /\ At("parse")
    /\ IsCompleteMessage(Buffer)
    /\ Goes("respond")
    /\ EventsOnly
    /\ UNCHANGED <<clientVars, dataVars, listenerVars>>

\* The error response: sendNetworkMessage() and sendAsync(), whose asyncWrite()
\* puts the sender's callback in the place of the receiver's.
Respond ==
    /\ At("respond")
    /\ Returns("rearm")
    /\ EventsOnly
    /\ UNCHANGED <<clientVars, dataVars, listenerVars>>

\* Mutant: the loop only ends when there is no header left.
LoopEnds_WithoutHeader == Len(Buffer) < HeaderSize

LoopEnds == ~IsCompleteMessage(Buffer)

\* A message is in front that cannot be held until it is complete.
Overlong(buffer) == Len(buffer) >= HeaderSize /\ TotalSize(buffer) > MaxBuffer + 1

\* What is left after the loop is dropped when it is too much.
EndRead ==
    /\ At("parse")
    /\ LoopEnds
    /\ SetBuffer(IF Len(Buffer) > MaxBuffer THEN <<>> ELSE Buffer)
    /\ overlong' = overlong \cup {c \in {connection[event.socket]} : Overlong(Buffer)}
    /\ Goes("rearm")
    /\ EventsOnly
    /\ UNCHANGED <<connection, clientSockets, received, handed, listenerVars>>

\* startAsyncReceive() again: asyncRead() puts the receiver's callback back.
Rearm ==
    /\ At("rearm")
    /\ event' = NoEvent \/ Goes("stuck")
    /\ EventsOnly
    /\ UNCHANGED <<clientVars, dataVars, listenerVars>>

-----------------------------------------------------------------------------
(* stop() and shutdown(), which the destructor calls, too                  *)

Stop ==
    /\ phase \in {"initialized", "started", "failed"}
    /\ phase' = "stopping"
    /\ isRunning' = FALSE
    /\ UNCHANGED serverSocket
    /\ OwnersOnly

\* asyncIoManager->shutdown() joins the threads that events run on: it does not
\* come back while one is stuck.  WindowsIOCP closes the sockets that are
\* registered, LinuxEpoll leaves them open.
ShutdownAsyncIO ==
    /\ event = NoEvent
    /\ Moves("stopping", "closing")
    /\ connection' \in {connection, [d \in Descriptors |-> NoClient]}
    /\ UNCHANGED <<isRunning, serverSocket, clientSockets, messageBuffers, event,
                   dataVars, listenerVars>>

\* Then, under clientsMutex, all clients and the server socket are closed.
\* messageBuffers_ is not cleared.
CloseAll ==
    /\ Moves("closing", "down")
    /\ connection' = [d \in Descriptors |->
                         IF d \in clientSockets THEN NoClient ELSE connection[d]]
    /\ clientSockets' = {}
    /\ serverSocket' = FALSE
    /\ UNCHANGED <<isRunning, messageBuffers, event, dataVars, listenerVars>>

-----------------------------------------------------------------------------
OwnerStep ==
    \/ InitializeAsyncIO \/ CreateSocket \/ BindAndListen
    \/ RegisterServerSocket \/ Start \/ StartEventLoop \/ Stop

ShutdownStep == ShutdownAsyncIO \/ CloseAll

EventArrives ==
    \E d \in Descriptors :
        \/ \E c \in Clients : AcceptEvent(c, d)
        \/ \E data \in Chunks : ReadEvent(d, data)
        \/ WriteEvent(d) \/ ErrorEvent(d)

EventStep ==
    \/ AddClient \/ RegisterClient \/ RemoveFailed \/ CloseFailed \/ Notify
    \/ AppendData \/ AppendFails \/ HandOver \/ HandOverFails \/ Respond
    \/ EndRead \/ Rearm

\* Other threads at the list of listeners.
ListenerCall ==
    /\ Dispatcher!ListenerCall
    /\ UNCHANGED <<lifeVars, clientVars, event, dataVars>>

Next == OwnerStep \/ ShutdownStep \/ EventArrives \/ EventStep \/ ListenerCall

\* The thread of an event and that of shutdown() run.
Spec == Init /\ [][Next]_vars /\ WF_vars(EventStep) /\ WF_vars(ShutdownStep)

-----------------------------------------------------------------------------
(* Properties                                                              *)

\* However the bytes of a descriptor are cut into read events, whichever of its
\* messages fails on the way to the main loop, and whoever had the descriptor
\* before: what went to the main loop and what waits in the buffer are the bytes
\* appended since its client was accepted, once and in their order.  Bytes are
\* given up only to a client that began a message longer than the buffer.
FramedAsReceived ==
    \A d \in Descriptors :
        LET c == connection[d]
        IN c # NoClient /\ d \in clientSockets /\ c \notin overlong
             => handed[c] \o messageBuffers[d] = received[c]

\* The lists name no descriptor that has been given back: the server closes
\* and sends to what is in clientSockets, and a buffer without a client would
\* be the next one's.
ListsFollowDescriptors ==
    phase \notin {"closing", "down"} =>
        \A d \in Descriptors :
            connection[d] = NoClient => d \notin clientSockets /\ messageBuffers[d] = <<>>

\* When the server is down no client and no server socket is left open,
\* whatever failed on the way.
NothingLeftOpen ==
    phase = "down" =>
        /\ ~serverSocket
        /\ \A d \in Descriptors : connection[d] = NoClient

\* A listener that has been removed is silent.
SilentAfterRemoval == Dispatcher!SilentAfterRemoval

\* An event is dealt with in the end, for any data and while listeners come and
\* go: nothing keeps its thread but a call that does not come back.
EventsEnd == event # NoEvent ~> event = NoEvent \/ event.at = "stuck"
=============================================================================
