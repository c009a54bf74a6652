----------------------------- MODULE LinuxEpoll -----------------------------
(***************************************************************************)
(* The Linux back end of the asynchronous I/O, src/network/LinuxEpoll: an  *)
(* epoll instance, contexts per socket under contextsMutex_, and           *)
(* processEvents(), which takes the context of each event out of the table *)
(* and runs the callbacks of NetworkServer without the mutex.              *)
(*                                                                         *)
(* processEvents() takes the result of epoll_wait() as a parameter and     *)
(* nothing in the program calls it.  The Pollers stand for the threads     *)
(* that would; Report is what epoll_wait() may tell them.                  *)
(***************************************************************************)
EXTENDS Integers

CONSTANTS
    Sockets,       \* the descriptors the system hands out
    Pollers,       \* the threads that call processEvents()
    DataSizes,     \* lengths of the data given to asyncWrite()
    MaxContexts    \* BOUND: calls of addSocket()

\* Assumed by AsyncIOManager.
EpollAssumption ==
    /\ DataSizes \in SUBSET (Nat \ {0})
    /\ MaxContexts \in Nat

NoContext == [id |-> 0]   \* the socket is not in socketContexts_

VARIABLES
    open,       \* the sockets that are open
    contexts,   \* socketContexts_
    lastId,     \* calls of addSocket() so far: names the contexts
    running,    \* running_, which no thread reads
    interest,   \* what epoll watches on each socket
    calls,      \* the calls that are between epoll_ctl() and the table, one
                \* per socket at most
    batch,      \* the events each poller has still to look at
    current,    \* the event each poller is at
    held,       \* the context each poller has taken out of the table
    stage       \* where it stands with that context

sockVars == <<open, contexts, lastId>>
pollVars == <<batch, current, held, stage>>
vars == <<sockVars, running, interest, calls, pollVars>>

Registered(s) == contexts[s] # NoContext

NewContext(id) ==
    [id |-> id, callback |-> "none", writeBuffer |-> 0]

ContextType ==
    [id : 1..MaxContexts, callback : {"none", "receive", "send"}, writeBuffer : Nat]

\* A call of addSocket() has the id of its context, which it makes last.
Calls ==
    [kind : {"add"}, socket : Sockets, id : 1..MaxContexts]
      \cup [kind : {"remove"}, socket : Sockets]

Stages == <<"in", "out", "hup">>

Events == [socket : Sockets, flags : SUBSET {"in", "out", "hup"}]
NoEvent == [flags |-> {}]

TypeOK ==
    /\ open \in SUBSET Sockets
    /\ DOMAIN contexts = Sockets
    /\ \A s \in Sockets : Registered(s) => contexts[s] \in ContextType
    /\ lastId \in 0..MaxContexts
    /\ running \in BOOLEAN
    /\ interest \in [Sockets -> SUBSET {"in", "out", "hup"}]
    /\ calls \in SUBSET Calls
    /\ batch \in [Pollers -> SUBSET Events]
    /\ current \in [Pollers -> Events \cup {NoEvent}]
    /\ held \in [Pollers -> ContextType \cup {NoContext}]
    /\ stage \in [Pollers -> {"idle", "in", "out", "hup"}]

Init ==
    /\ open = {}
    /\ contexts = [s \in Sockets |-> NoContext]
    /\ lastId = 0
    /\ running = FALSE
    /\ interest = [s \in Sockets |-> {}]
    /\ calls = {}
    /\ batch = [p \in Pollers |-> {}]
    /\ current = [p \in Pollers |-> NoEvent]
    /\ held = [p \in Pollers |-> NoContext]
    /\ stage = [p \in Pollers |-> "idle"]

-----------------------------------------------------------------------------
(* The calls of the server.                                                *)

\* A socket comes from accept(), addSocket() sets O_NONBLOCK and registers it
\* for READ.  Errors and hang-ups are always reported.
AddSocket(s) ==
    /\ s \notin open
    /\ \A c \in calls : c.socket # s
    /\ lastId < MaxContexts
    /\ lastId' = lastId + 1
    /\ open' = open \cup {s}
    /\ interest' = [interest EXCEPT ![s] = {"in", "hup"}]
    /\ calls' = calls \cup {[kind |-> "add", socket |-> s, id |-> lastId']}
    /\ UNCHANGED <<contexts, running, pollVars>>

\* The rest of addSocket(): the context.
SaveContext(c) ==
    /\ c.kind = "add"
    /\ contexts' = [contexts EXCEPT ![c.socket] = NewContext(c.id)]
    /\ calls' = calls \ {c}
    /\ UNCHANGED <<open, lastId, running, interest, pollVars>>

\* removeSocket() fails on a socket that epoll does not watch.
RemoveSocket(s) ==
    /\ interest[s] # {}
    /\ \A c \in calls : c.socket # s
    /\ interest' = [interest EXCEPT ![s] = {}]
    /\ calls' = calls \cup {[kind |-> "remove", socket |-> s]}
    /\ UNCHANGED <<sockVars, running, pollVars>>

\* The rest of removeSocket(), after which the caller closes the socket.
EraseContext(c) ==
    /\ c.kind = "remove"
    /\ contexts' = [contexts EXCEPT ![c.socket] = NoContext]
    /\ open' = open \ {c.socket}
    /\ interest' = [interest EXCEPT ![c.socket] = {}]
    /\ calls' = calls \ {c}
    /\ UNCHANGED <<lastId, running, pollVars>>

\* modifySocket().  The events it also keeps in the context are never read.
ModifySocket(s, events) ==
    /\ interest[s] # {}
    /\ interest' = [interest EXCEPT ![s] = events \cup {"hup"}]
    /\ UNCHANGED <<sockVars, running, calls, pollVars>>

\* asyncRead(): only the callback is kept.
AsyncRead(s) ==
    /\ Registered(s)
    /\ contexts' = [contexts EXCEPT ![s].callback = "receive"]
    /\ UNCHANGED <<open, lastId, running, interest, calls, pollVars>>

\* asyncWrite(): the callback and the data, in the place of those of a read
\* or of data not yet sent.
AsyncWrite(s, n) ==
    /\ Registered(s)
    /\ contexts' = [contexts EXCEPT ![s].callback = "send", ![s].writeBuffer = n]
    /\ UNCHANGED <<open, lastId, running, interest, calls, pollVars>>

-----------------------------------------------------------------------------
(* processEvents()                                                         *)

\* What epoll_wait() returns: some of the conditions watched for, on one
\* socket or on more.
Report(p, e, f) ==
    /\ batch[p] = {} /\ stage[p] = "idle"
    /\ \A g \in {e, f} : g.flags # {} /\ g.flags \subseteq interest[g.socket]
    /\ e.socket = f.socket => e = f
    /\ batch' = [batch EXCEPT ![p] = {e, f}]
    /\ UNCHANGED <<sockVars, running, interest, calls, current, held, stage>>

\* The first stage from the i-th on that the event asks for.
StageFrom(i, e) ==
    LET asked == {j \in i..3 : Stages[j] \in e.flags}
    IN IF asked = {} THEN "idle"
       ELSE Stages[CHOOSE j \in asked : \A k \in asked : j <= k]

\* Mutant: the context is used where it is.
Taken_Shared(s) == contexts

\* The table once the context of s has been moved out and its entry erased.
Taken(s) == [contexts EXCEPT ![s] = NoContext]

\* The events are in an array, in an order the caller chose.
Take(p, e) ==
    /\ stage[p] = "idle"
    /\ e \in batch[p]
    /\ batch' = [batch EXCEPT ![p] = @ \ {e}]
    /\ \/ /\ Registered(e.socket)
          /\ held' = [held EXCEPT ![p] = contexts[e.socket]]
          /\ contexts' = Taken(e.socket)
          /\ current' = [current EXCEPT ![p] = e]
          /\ stage' = [stage EXCEPT ![p] = StageFrom(1, e)]
       \/ /\ ~Registered(e.socket)
          /\ UNCHANGED <<contexts, held, current, stage>>
    /\ UNCHANGED <<open, lastId, running, interest, calls>>

\* On to the next stage of the event; after the last one the context is gone.
Advance(p, i) ==
    LET next == StageFrom(i, current[p])
    IN /\ stage' = [stage EXCEPT ![p] = next]
       /\ held' = [held EXCEPT ![p] = IF next = "idle" THEN NoContext ELSE @]
       /\ current' = [current EXCEPT ![p] = IF next = "idle" THEN NoEvent ELSE @]

\* The callback with IOERROR: the server forgets and closes the client.  The
\* descriptor may have gone to another client since the context was taken.
CloseBy(s) ==
    /\ open' = open \ {s}
    /\ interest' = [interest EXCEPT ![s] = {}]

\* The callback of startAsyncReceive() with data: asyncRead() again, on the
\* context the table has now, which is not the one taken.
ReadAgain(s) ==
    contexts' = IF Registered(s)
                  THEN [contexts EXCEPT ![s].callback = "receive"]
                  ELSE contexts

\* handleReadEvent(): data, end of the stream or an error, or nothing yet.
HandleRead(p) ==
    LET s == current[p].socket
    IN /\ stage[p] = "in"
       /\ \/ /\ s \in open
             /\ held[p].callback = "receive"
             /\ ReadAgain(s)
             /\ UNCHANGED <<open, interest>>
          \/ /\ held[p].callback # "none"
             /\ CloseBy(s)
             /\ UNCHANGED contexts
          \/ UNCHANGED <<open, interest, contexts>>
       /\ Advance(p, 2)
       /\ UNCHANGED <<lastId, running, calls, batch>>

\* handleWriteEvent(): all the data is sent, only some of it, or there is an
\* error.  What is not sent goes with the context.
HandleWrite(p) ==
    LET s == current[p].socket
        data == held[p].writeBuffer
    IN /\ stage[p] = "out"
       /\ \/ /\ s \in open /\ data > 0
             /\ held[p].callback = "receive"
             /\ ReadAgain(s)
             /\ UNCHANGED <<open, interest>>
          \/ /\ data > 0
             /\ held[p].callback # "none"
             /\ CloseBy(s)
             /\ UNCHANGED contexts
          \/ UNCHANGED <<open, interest, contexts>>
       /\ Advance(p, 3)
       /\ UNCHANGED <<lastId, running, calls, batch>>

\* EPOLLERR or EPOLLHUP: the callback once more, also after an IOERROR.
HandleHangUp(p) ==
    /\ stage[p] = "hup"
    /\ \/ /\ held[p].callback # "none"
          /\ CloseBy(current[p].socket)
       \/ /\ held[p].callback = "none"
          /\ UNCHANGED <<open, interest>>
    /\ Advance(p, 4)
    /\ UNCHANGED <<contexts, lastId, running, calls, batch>>

-----------------------------------------------------------------------------
(* Start and stop: startEventLoop() makes no thread.                       *)

StartEventLoop ==
    /\ ~running
    /\ running' = TRUE
    /\ UNCHANGED <<sockVars, interest, calls, pollVars>>

StopEventLoop ==
    /\ running' = FALSE
    /\ UNCHANGED <<sockVars, interest, calls, pollVars>>

\* shutdown(): the table and the epoll instance go, the sockets stay open.  It
\* waits for nobody: a thread in processEvents() keeps the events and the
\* context it has taken, and a call that is past epoll_ctl() goes on to the
\* table.
CloseAll ==
    /\ running' = FALSE
    /\ contexts' = [s \in Sockets |-> NoContext]
    /\ interest' = [s \in Sockets |-> {}]
    /\ UNCHANGED <<open, lastId, calls, pollVars>>

-----------------------------------------------------------------------------
PollerStep(p) ==
    \/ \E e \in batch[p] : Take(p, e)
    \/ HandleRead(p) \/ HandleWrite(p) \/ HandleHangUp(p)

CallEnds == \E c \in calls : SaveContext(c) \/ EraseContext(c)

KernelStep == \E p \in Pollers, e, f \in Events : Report(p, e, f)

-----------------------------------------------------------------------------
(* Properties                                                              *)

\* The callbacks of a context run without the mutex, so its poller must be
\* the only one to have it: it is in the table or with one poller, never in
\* two places.  processEvents() moves it out before it lets the mutex go.
OnePollerPerContext ==
    \A p \in Pollers :
        held[p] # NoContext =>
            /\ \A s \in Sockets : contexts[s].id # held[p].id
            /\ \A q \in Pollers \ {p} : held[q].id # held[p].id
=============================================================================
