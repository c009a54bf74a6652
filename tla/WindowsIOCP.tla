---------------------------- MODULE WindowsIOCP ----------------------------
(***************************************************************************)
(* The Windows back end of the asynchronous I/O, src/network/WindowsIOCP:  *)
(* contexts per socket under contextsMutex_, a completion port, and the    *)
(* worker threads that take completions from it and run the callbacks of   *)
(* NetworkServer (startAsyncReceive(), sendAsync()) with the mutex held.   *)
(*                                                                         *)
(* A critical section is one action; a completion is several, since its    *)
(* callback closes the socket, which another thread may get from accept()  *)
(* before the worker is through.  Bytes are counted, never looked at: what *)
(* a read delivers is not what was received anyway, see Received below.    *)
(***************************************************************************)
EXTENDS Integers, Sequences, FiniteSets

CONSTANTS
    Sockets,         \* the descriptors the system hands out
    MAX_THREADS,     \* threads that startEventLoop() makes
    BUFFER_SIZE,     \* of a read
    DataSizes,       \* lengths of the data given to asyncWrite()
    RelockOutcome,   \* locking a std::mutex one holds: "blocks", "proceeds"
    MaxContexts,     \* BOUND: calls of addSocket()
    MaxUnderWay      \* BOUND: operations under way when the server starts one

Workers == 1..MAX_THREADS

Free == 0   \* nobody holds contextsMutex_

\* Assumed by AsyncIOManager.
IOCPAssumption ==
    /\ MAX_THREADS \in Nat
    /\ BUFFER_SIZE \in Nat \ {0}
    /\ DataSizes \in SUBSET (Nat \ {0})
    /\ RelockOutcome \in SUBSET {"blocks", "proceeds"}
    /\ MaxContexts \in Nat
    /\ MaxUnderWay \in Nat

NoContext == [id |-> 0]   \* the socket is not in socketContexts_

VARIABLES
    open,        \* the sockets that are open
    contexts,    \* socketContexts_
    lastId,      \* calls of addSocket() so far: names the contexts
    running,     \* running_
    mutex,       \* who holds contextsMutex_ beyond a step
    inFlight,    \* operations the kernel works on
    port,        \* the completions in the port, in order
    worker,      \* where each worker stands
    hand         \* the completion each worker has taken

sockVars == <<open, contexts, lastId>>
ioVars == <<inFlight, port>>
threadVars == <<worker, hand>>
vars == <<sockVars, running, mutex, ioVars, threadVars>>

Wake == [kind |-> "wake"]     \* PostQueuedCompletionStatus(..., NULL)
Nothing == [kind |-> "none"]

Registered(s) == contexts[s] # NoContext

\* The fields readOverlapped and writeOverlapped are the flags reading and
\* writing: the code never follows the pointers.  readBuffer and writeBuffer
\* are the lengths of the strings.
NewContext(id) ==
    [id |-> id, callback |-> "none", readBuffer |-> 0, writeBuffer |-> 0,
     writeOffset |-> 0, reading |-> FALSE, writing |-> FALSE]

ContextType ==
    [id : 1..MaxContexts, callback : {"none", "receive", "send"},
     readBuffer : Nat, writeBuffer : Nat, writeOffset : Nat,
     reading : BOOLEAN, writing : BOOLEAN]

Operations ==
    [kind : {"read", "write"}, socket : Sockets, id : 1..MaxContexts, size : Nat]

Completions ==
    [kind : {"read", "write"}, socket : Sockets, id : 1..MaxContexts, bytes : Nat]

TypeOK ==
    /\ open \in SUBSET Sockets
    /\ DOMAIN contexts = Sockets
    /\ \A s \in Sockets : Registered(s) => contexts[s] \in ContextType
    /\ lastId \in 0..MaxContexts
    /\ running \in BOOLEAN
    /\ mutex \in Workers \cup {Free}
    /\ inFlight \in SUBSET Operations
    /\ port \in Seq(Completions \cup {Wake})
    /\ worker \in [Workers -> {"none", "test", "wait", "lock", "call", "finish",
                               "stuck", "exited"}]
    /\ hand \in [Workers -> Completions \cup {Nothing}]

Init ==
    /\ open = {}
    /\ contexts = [s \in Sockets |-> NoContext]
    /\ lastId = 0
    /\ running = FALSE
    /\ mutex = Free
    /\ inFlight = {}
    /\ port = <<>>
    /\ worker = [w \in Workers |-> "none"]
    /\ hand = [w \in Workers |-> Nothing]

-----------------------------------------------------------------------------
(* Posting operations, with contextsMutex_ held.  The socket s has the     *)
(* context c; the operation may be refused at once.                        *)

\* Mutant: the test of readOverlapped is missing.
PostRead_Unguarded(s, c) ==
    /\ inFlight' = inFlight \cup
           {[kind |-> "read", socket |-> s, id |-> c.id, size |-> BUFFER_SIZE]}
    /\ contexts' = [contexts EXCEPT ![s] = [c EXCEPT !.reading = TRUE]]

\* postRead().  readOverlapped is set and never cleared: the first read of a
\* context is its last.
PostRead(s, c) ==
    \/ /\ ~c.reading
       /\ s \in open
       /\ inFlight' = inFlight \cup
              {[kind |-> "read", socket |-> s, id |-> c.id, size |-> BUFFER_SIZE]}
       /\ contexts' = [contexts EXCEPT ![s] = [c EXCEPT !.reading = TRUE]]
    \/ /\ contexts' = [contexts EXCEPT ![s] = c]
       /\ UNCHANGED inFlight

\* postWrite(), the same with writeOverlapped and what is left to send.  The
\* substr() of it throws when the offset is beyond the data, which is shorter
\* than the data it took the place of.
PostWrite(s, c) ==
    \/ /\ ~c.writing
       /\ c.writeBuffer > 0
       /\ c.writeOffset <= c.writeBuffer
       /\ s \in open
       /\ inFlight' = inFlight \cup
              {[kind |-> "write", socket |-> s, id |-> c.id,
                size |-> c.writeBuffer - c.writeOffset]}
       /\ contexts' = [contexts EXCEPT ![s] = [c EXCEPT !.writing = TRUE]]
    \/ /\ contexts' = [contexts EXCEPT ![s] = c]
       /\ UNCHANGED inFlight

-----------------------------------------------------------------------------
(* The calls of the server.                                                *)

\* A socket comes from accept() and addSocket() makes its context.
AddSocket(s) ==
    /\ mutex = Free
    /\ s \notin open
    /\ lastId < MaxContexts
    /\ lastId' = lastId + 1
    /\ open' = open \cup {s}
    /\ contexts' = [contexts EXCEPT ![s] = NewContext(lastId')]
    /\ UNCHANGED <<running, mutex, ioVars, threadVars>>

\* removeSocket(), after which the caller closes the socket.
RemoveSocket(s) ==
    /\ mutex = Free
    /\ s \in open
    /\ contexts' = [contexts EXCEPT ![s] = NoContext]
    /\ open' = open \ {s}
    /\ UNCHANGED <<lastId, running, mutex, ioVars, threadVars>>

Bounded == Cardinality(inFlight) + Len(port) < MaxUnderWay

\* asyncRead() with the callback of startAsyncReceive().
AsyncRead(s) ==
    /\ Bounded
    /\ mutex = Free
    /\ Registered(s)
    /\ PostRead(s, [contexts[s] EXCEPT !.callback = "receive"])
    /\ UNCHANGED <<open, lastId, running, mutex, port, threadVars>>

\* asyncWrite() with the callback of sendAsync(): it takes the place of the
\* callback of a read, and the data that of data not yet sent.
AsyncWrite(s, n) ==
    /\ Bounded
    /\ mutex = Free
    /\ Registered(s)
    /\ PostWrite(s, [contexts[s] EXCEPT !.callback = "send", !.writeBuffer = n])
    /\ UNCHANGED <<open, lastId, running, mutex, port, threadVars>>

\* The kernel is done with an operation: some bytes, or none when the peer is
\* gone, the operation failed or the socket it was posted on is closed.
Complete(op) ==
    /\ op \in inFlight
    /\ inFlight' = inFlight \ {op}
    /\ \E n \in 0..op.size :
          /\ n > 0 => op.socket \in open /\ contexts[op.socket].id = op.id
          /\ port' = Append(port, [kind |-> op.kind, socket |-> op.socket,
                                   id |-> op.id, bytes |-> n])
    /\ UNCHANGED <<sockVars, running, mutex, threadVars>>

-----------------------------------------------------------------------------
(* workerThread() and processCompletion()                                  *)

Goes(w, to) == worker' = [worker EXCEPT ![w] = to]

LoopTest(w) ==
    /\ worker[w] = "test"
    /\ Goes(w, IF running THEN "wait" ELSE "exited")
    /\ UNCHANGED <<sockVars, running, mutex, ioVars, hand>>

\* GetQueuedCompletionStatus(..., INFINITE), after which a worker that is to
\* stop drops what it got, whatever it is.  (The port does not depend on the
\* flag, so the two are one step.)
Dequeue(w) ==
    /\ worker[w] = "wait"
    /\ port # <<>>
    /\ port' = Tail(port)
    /\ Goes(w, IF ~running THEN "exited"
               ELSE IF Head(port) = Wake THEN "test" ELSE "lock")
    /\ hand' = [hand EXCEPT ![w] =
                    IF running /\ Head(port) # Wake THEN Head(port) ELSE Nothing]
    /\ UNCHANGED <<sockVars, running, mutex, inFlight>>

\* Mutant: the bytes are consumed before they have come.
Received_Consumed(c, n) == [c EXCEPT !.readBuffer = @ - n]

\* readBuffer.append(overlappedEx->buffer, n) takes the tail of a string of
\* BUFFER_SIZE filler bytes from position n on; the bytes that came in went
\* to a buffer that is gone.
Received(c, n) == [c EXCEPT !.readBuffer = @ + (BUFFER_SIZE - n)]

Sent(c, n) == [c EXCEPT !.writeOffset = @ + n]

AllSent(c) == c.writeOffset >= c.writeBuffer

\* The worker is through with its completion.
Done(w) ==
    /\ Goes(w, "test")
    /\ hand' = [hand EXCEPT ![w] = Nothing]

\* Mutant: the mutex is given up before the callback.
KeepsMutex_Not(w) == mutex' = Free

\* The lock_guard lives to the end of processCompletion().
KeepsMutex(w) == mutex' = w

\* The context of the socket is found; its callback is next, if it has one.
\* A write that is not complete calls postWrite(), which finds
\* writeOverlapped set.
StartCompletion(w) ==
    LET c == contexts[hand[w].socket]  n == hand[w].bytes  s == hand[w].socket
        event == CASE n = 0 -> c
                   [] n > 0 /\ hand[w].kind = "read" -> Received(c, n)
                   [] n > 0 /\ hand[w].kind = "write" -> Sent(c, n)
    IN IF n > 0 /\ hand[w].kind = "write" /\ ~AllSent(event)
         THEN /\ PostWrite(s, event)
              /\ Done(w)
              /\ UNCHANGED mutex
         ELSE /\ contexts' = [contexts EXCEPT ![s] = event]
              /\ KeepsMutex(w)
              /\ Goes(w, IF c.callback = "none" THEN "finish" ELSE "call")
              /\ UNCHANGED <<inFlight, hand>>

\* processCompletion() up to the callback; without a context nothing is done.
ProcessCompletion(w) ==
    /\ worker[w] = "lock"
    /\ mutex = Free
    /\ \/ /\ Registered(hand[w].socket)
          /\ StartCompletion(w)
       \/ /\ ~Registered(hand[w].socket)
          /\ Done(w)
          /\ UNCHANGED <<contexts, mutex, inFlight>>
    /\ UNCHANGED <<open, lastId, running, port>>

Reads(w) == hand[w].kind = "read" /\ hand[w].bytes > 0
Fails(w) == hand[w].bytes = 0

\* The callback of a failure: the server forgets and closes the client.
CallbackCloses(w) ==
    /\ worker[w] = "call"
    /\ Fails(w)
    /\ open' = open \ {hand[w].socket}
    /\ Goes(w, "finish")
    /\ UNCHANGED <<contexts, lastId, running, mutex, ioVars, hand>>

\* The bytes the event carries: all that were received, or all that were sent.
EventData(w) ==
    LET c == contexts[hand[w].socket]
    IN IF Reads(w) THEN c.readBuffer ELSE c.writeBuffer

\* The callback of startAsyncReceive() takes any event with data for a read,
\* that of a write too: there is one callback for both.
TakenForRead(w) ==
    /\ ~Fails(w)
    /\ contexts[hand[w].socket].callback = "receive"
    /\ EventData(w) > 0

\* It then calls asyncRead(), which locks contextsMutex_ again.
CallbackReadsAgain(w) ==
    /\ worker[w] = "call"
    /\ TakenForRead(w)
    /\ \/ /\ "blocks" \in RelockOutcome
          /\ Goes(w, "stuck")
          /\ UNCHANGED <<contexts, inFlight>>
       \/ /\ "proceeds" \in RelockOutcome
          /\ PostRead(hand[w].socket, contexts[hand[w].socket])
          /\ Goes(w, "finish")
    /\ UNCHANGED <<open, lastId, running, mutex, port, hand>>

\* Any other callback: it only writes to the log.
CallbackReturns(w) ==
    /\ worker[w] = "call"
    /\ ~Fails(w) /\ ~TakenForRead(w)
    /\ Goes(w, "finish")
    /\ UNCHANGED <<sockVars, running, mutex, ioVars, hand>>

\* After the callback: the context goes, reads on, or starts a new buffer.
FinishCompletion(w) ==
    LET s == hand[w].socket  c == contexts[s]
    IN /\ worker[w] = "finish"
       /\ \/ /\ Fails(w)
             /\ contexts' = [contexts EXCEPT ![s] = NoContext]
             /\ UNCHANGED inFlight
          \/ /\ Reads(w)
             /\ PostRead(s, c)
          \/ /\ ~Fails(w) /\ ~Reads(w)
             /\ contexts' = [contexts EXCEPT ![s].writeBuffer = 0, ![s].writeOffset = 0]
             /\ UNCHANGED inFlight
       /\ Done(w)
       /\ mutex' = Free
       /\ UNCHANGED <<open, lastId, running, port>>

-----------------------------------------------------------------------------
(* Start and stop                                                          *)

StartEventLoop ==
    /\ ~running
    /\ running' = TRUE
    /\ worker' = [w \in Workers |-> "test"]
    /\ UNCHANGED <<sockVars, mutex, ioVars, hand>>

\* Mutant: running_ stays set, and a worker that is woken waits again.
StopFlag_Kept == UNCHANGED <<sockVars, running, mutex, ioVars, threadVars>>

\* stopEventLoop(): the flag, and then one wakeup per worker.
StopFlag ==
    /\ running' = FALSE
    /\ UNCHANGED <<sockVars, mutex, ioVars, threadVars>>

\* Mutant: one wakeup for all.
Wakeups_Single == <<Wake>>

Wakeups == [w \in Workers |-> Wake]

PostWakeups ==
    /\ port' = port \o Wakeups
    /\ UNCHANGED <<sockVars, running, mutex, inFlight, threadVars>>

\* What the joins of shutdown() wait for.
Joined == \A w \in Workers : worker[w] \in {"none", "exited"}

\* The rest of shutdown(): every socket with a context is closed, the table
\* cleared, the port closed with what is in it.
CloseAll ==
    /\ Joined
    /\ mutex = Free
    /\ open' = {s \in open : ~Registered(s)}
    /\ contexts' = [s \in Sockets |-> NoContext]
    /\ inFlight' = {}
    /\ port' = <<>>
    /\ UNCHANGED <<lastId, running, mutex, threadVars>>

-----------------------------------------------------------------------------
WorkerStep(w) ==
    \/ LoopTest(w) \/ Dequeue(w) \/ ProcessCompletion(w)
    \/ CallbackCloses(w) \/ CallbackReadsAgain(w) \/ CallbackReturns(w)
    \/ FinishCompletion(w)

KernelStep == \E op \in inFlight : Complete(op)

-----------------------------------------------------------------------------
(* Properties                                                              *)

\* Where the operations of one kind of a context are: with the kernel, in the
\* port, or taken by a worker that has not processed them.
Outstanding(kind, id) ==
    {<<"kernel", op>> : op \in {o \in inFlight : o.kind = kind /\ o.id = id}}
      \cup {<<"port", i>> : i \in {j \in 1..Len(port) :
                 port[j].kind = kind /\ port[j].id = id}}
      \cup {<<"hand", w>> : w \in {v \in Workers :
                 /\ worker[v] = "lock"
                 /\ hand[v].kind = kind
                 /\ hand[v].id = id}}

\* A connection has one read and one write under way at most, also while it
\* is read and written by several threads: with two reads, two workers could
\* hand over its bytes in the wrong order.
OneOperationPerDirection ==
    \A id \in 1..lastId, kind \in {"read", "write"} :
        \A a, b \in Outstanding(kind, id) : a = b

\* From the moment a callback starts until its worker has cleaned up, nobody
\* removes or replaces the context it runs on: the worker uses it afterwards,
\* and erases it by its descriptor, which by then may be a new client's.
ContextStays ==
    \A w \in Workers :
        worker[w] \in {"call", "finish"} /\ worker'[w] \in {"call", "finish"}
          => contexts'[hand[w].socket].id = contexts[hand[w].socket].id
=============================================================================
