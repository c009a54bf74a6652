----------------------- MODULE AsyncIOManager_proofs -----------------------
(***************************************************************************)
(* Proofs about AsyncIOManager and its two back ends, for every set of     *)
(* descriptors and of threads that poll, every number of worker threads,   *)
(* every size of the buffer and of the data, and both outcomes of locking  *)
(* a mutex one holds.                                                      *)
(***************************************************************************)
EXTENDS AsyncIOManager, FiniteSetTheorems, SequenceTheorems, TLAPS

-----------------------------------------------------------------------------
(* The inductive invariant                                                 *)

\* How far the manager is, what there is of its thread and its back end; of
\* the back end there is not, nothing.
ManagerInv ==
    /\ phase \in {"created", "initialized"} =>
          ~running /\ \A w \in Workers : worker[w] = "none"
    /\ phase \in {"created", "initialized", "starting"} => loop = "none"
    /\ running => phase \in {"starting", "started"}
    /\ phase \in {"stopped", "down"} => loop \in {"none", "ended"}
    /\ OnWindows => /\ calls = {}
                    /\ \A p \in Pollers : stage[p] = "idle" /\ batch[p] = {}
    /\ OnLinux => /\ \A w \in Workers : worker[w] = "none"
                  /\ inFlight = {} /\ port = <<>>

\* A read is of a whole buffer, and no completion of one is of more.
ReadsFit ==
    /\ \A op \in inFlight : op.kind = "read" => op.size = BUFFER_SIZE
    /\ \A i \in 1..Len(port) : port[i].kind = "read" => port[i].bytes <= BUFFER_SIZE
    /\ \A w \in Workers : hand[w].kind = "read" => hand[w].bytes <= BUFFER_SIZE

\* A worker that is at a completion has one, and has contextsMutex_ as long as
\* it uses the context, which is in the table all the time.
WorkersInv ==
    /\ \A w \in Workers :
          worker[w] \in {"lock", "call", "finish", "stuck"} => hand[w] \in Windows!Completions
    /\ \A w \in Workers : worker[w] \in {"call", "finish", "stuck"} <=> mutex = w
    /\ \A w \in Workers : mutex = w => Windows!Registered(hand[w].socket)

WindowsTypes == Windows!TypeOK /\ ReadsFit /\ WorkersInv

\* The operation or completion that worker w has still to process.
Pending(w) == worker[w] = "lock"

\* A context that has an operation of this kind under way is marked so.
Marked(kind, id) ==
    \A s \in Sockets :
        contexts[s].id = id =>
            IF kind = "read" THEN contexts[s].reading ELSE contexts[s].writing

Same(a, b) == a.kind = b.kind /\ a.id = b.id

\* A context has its number from addSocket(), which counts on; operations and
\* completions have that of a context there is or was.
NumbersInv ==
    /\ \A s \in Sockets : contexts[s].id <= lastId
    /\ \A s, t \in Sockets :
          contexts[s].id = contexts[t].id => s = t \/ contexts[s].id = 0
    /\ \A op \in inFlight : op.id <= lastId
    /\ \A i \in 1..Len(port) : port[i] # Windows!Wake => port[i].id <= lastId
    /\ \A w \in Workers : Pending(w) => hand[w].id <= lastId

\* The marks that keep a second operation from being posted.
MarksInv ==
    /\ \A op \in inFlight : Marked(op.kind, op.id)
    /\ \A i \in 1..Len(port) :
          port[i] # Windows!Wake => Marked(port[i].kind, port[i].id)
    /\ \A w \in Workers : Pending(w) => Marked(hand[w].kind, hand[w].id)

\* OneOperationPerDirection, place by place: the kernel, the port, the hands of
\* the workers, and two of them.
KernelInv ==
    /\ \A op, other \in inFlight : Same(op, other) => op = other
    /\ \A op \in inFlight, i \in 1..Len(port) : ~Same(op, port[i])
    /\ \A op \in inFlight, w \in Workers : Pending(w) => ~Same(op, hand[w])

PortInv ==
    /\ \A i, j \in 1..Len(port) :
          port[i] # Windows!Wake /\ port[j] # Windows!Wake /\ Same(port[i], port[j]) => i = j
    /\ \A i \in 1..Len(port), w \in Workers : Pending(w) => ~Same(port[i], hand[w])
    /\ \A v, w \in Workers : Pending(v) /\ Pending(w) /\ Same(hand[v], hand[w]) => v = w

OperationsInv == NumbersInv /\ MarksInv /\ KernelInv /\ PortInv

\* Where a context of LinuxEpoll is: in the table, with a poller, or still in
\* the addSocket() that makes it.
PlacesInv ==
    /\ \A s, t \in Sockets :
          contexts[s].id = contexts[t].id => s = t \/ contexts[s].id = 0
    /\ \A s \in Sockets : contexts[s].id <= lastId
    /\ \A p \in Pollers : held[p].id <= lastId
    /\ \A c \in calls : c.kind = "add" =>
          /\ c.id <= lastId
          /\ \A s \in Sockets : contexts[s].id # c.id
          /\ \A p \in Pollers : held[p].id # c.id
          /\ \A d \in calls : d.kind = "add" /\ d.id = c.id => d = c

IOInv ==
    /\ TypeOK
    /\ ManagerInv
    /\ WakeupForEachWaiter
    /\ OnWindows => WindowsTypes /\ OperationsInv
    /\ OnLinux => PlacesInv /\ Linux!OnePollerPerContext

-----------------------------------------------------------------------------
(* WindowsIOCP: the types                                                  *)

\* What the assumptions say of the constants of WindowsIOCP.
LEMMA WindowsConstants ==
  /\ MAX_THREADS \in Nat /\ Workers = 1..MAX_THREADS /\ Windows!Workers = Workers
  /\ Windows!Free \notin Workers
  /\ BUFFER_SIZE \in Nat \ {0}
  /\ DataSizes \in SUBSET (Nat \ {0})
  /\ MaxContexts \in Nat
  BY PlatformsAssumption DEF Windows!IOCPAssumption, Windows!Workers, Workers, Windows!Free

\* One entry of the table changes.
LEMMA TableTypes ==
  ASSUME Windows!TypeOK, NEW s \in Sockets,
         NEW c \in Windows!ContextType \cup {Windows!NoContext},
         contexts' = [contexts EXCEPT ![s] = c]
  PROVE  /\ DOMAIN contexts' = Sockets
         /\ contexts'[s] = c
         /\ \A t \in Sockets : t # s => contexts'[t] = contexts[t]
         /\ \A t \in Sockets : Windows!Registered(t)' => contexts'[t] \in Windows!ContextType
  BY DEF Windows!TypeOK, Windows!Registered

\* Posting an operation changes the mark of the context and adds the operation,
\* or does nothing.
LEMMA PostedTypes ==
  ASSUME Windows!TypeOK, ReadsFit, NEW s \in Sockets, NEW c \in Windows!ContextType,
         Windows!PostRead(s, c) \/ Windows!PostWrite(s, c)
  PROVE  /\ DOMAIN contexts' = Sockets
         /\ contexts'[s] \in Windows!ContextType /\ contexts'[s].id = c.id
         /\ \A t \in Sockets : t # s => contexts'[t] = contexts[t]
         /\ \A t \in Sockets : Windows!Registered(t)' => contexts'[t] \in Windows!ContextType
         /\ inFlight' \in SUBSET Windows!Operations
         /\ \A op \in inFlight' : op.kind = "read" => op.size = BUFFER_SIZE
  <1>1. PICK d \in Windows!ContextType :
          contexts' = [contexts EXCEPT ![s] = d] /\ d.id = c.id
    <2>1. [c EXCEPT !.reading = TRUE] \in Windows!ContextType /\ [c EXCEPT !.reading = TRUE].id = c.id
      BY DEF Windows!ContextType
    <2>2. [c EXCEPT !.writing = TRUE] \in Windows!ContextType /\ [c EXCEPT !.writing = TRUE].id = c.id
      BY DEF Windows!ContextType
    <2> QED  BY <2>1, <2>2 DEF Windows!PostRead, Windows!PostWrite
  <1>2. /\ inFlight' \in SUBSET Windows!Operations
        /\ \A op \in inFlight' : op.kind = "read" => op.size = BUFFER_SIZE
    <2>1. CASE Windows!PostRead(s, c)
      BY <2>1, WindowsConstants
      DEF Windows!PostRead, ReadsFit, Windows!Operations, Windows!ContextType, Windows!TypeOK
    <2>2. CASE Windows!PostWrite(s, c)
      <3>1. c.writeOffset <= c.writeBuffer => c.writeBuffer - c.writeOffset \in Nat
        BY DEF Windows!ContextType
      <3> QED
        BY <2>2, <3>1
        DEF Windows!PostWrite, ReadsFit, Windows!Operations, Windows!ContextType, Windows!TypeOK
    <2> QED  BY <2>1, <2>2
  <1> QED  BY <1>1, <1>2, TableTypes

\* A step of the threads or of the server that leaves the port alone and takes
\* nothing from it.
LEMMA TypesOnceHandsKept ==
  ASSUME WindowsTypes,
         /\ open' \in SUBSET Sockets
         /\ DOMAIN contexts' = Sockets
         /\ \A t \in Sockets : Windows!Registered(t)' => contexts'[t] \in Windows!ContextType
         /\ lastId' \in 0..MaxContexts
         /\ running' \in BOOLEAN
         /\ inFlight' \in SUBSET Windows!Operations
         /\ \A op \in inFlight' : op.kind = "read" => op.size = BUFFER_SIZE,
         UNCHANGED <<port, worker, hand, mutex>>,
         \A t \in Sockets : mutex # Windows!Free /\ Windows!Registered(t) => Windows!Registered(t)'
  PROVE  WindowsTypes'
  <1>1. Windows!TypeOK'
    BY DEF WindowsTypes, Windows!TypeOK
  <1>2. ReadsFit'
    BY DEF WindowsTypes, ReadsFit
  <1>3. ASSUME NEW w \in Workers, mutex = w
        PROVE  contexts'[hand[w].socket] # Windows!NoContext
    <2>1. /\ worker[w] \in {"call", "finish", "stuck"}
          /\ hand[w] \in Windows!Completions
          /\ Windows!Registered(hand[w].socket)
      BY <1>3 DEF WindowsTypes, WorkersInv
    <2>2. hand[w].socket \in Sockets
      BY <2>1 DEF Windows!Completions
    <2> QED  BY <1>3, <2>1, <2>2, WindowsConstants DEF Windows!Registered
  <1>4. WorkersInv'
    BY <1>3 DEF WindowsTypes, WorkersInv, Windows!Registered
  <1> QED  BY <1>1, <1>2, <1>4 DEF WindowsTypes

\* The calls of the server keep the types of WindowsIOCP.
LEMMA ServerCallTypes ==
  ASSUME WindowsTypes,
         NEW s \in Sockets,
         \/ Windows!AddSocket(s) \/ Windows!RemoveSocket(s) \/ Windows!AsyncRead(s)
         \/ \E n \in DataSizes : Windows!AsyncWrite(s, n)
  PROVE  WindowsTypes'
  <1>0. Windows!TypeOK /\ ReadsFit
    BY DEF WindowsTypes
  <1>1. CASE Windows!AddSocket(s)
    <2>1. Windows!NewContext(lastId') \in Windows!ContextType /\ lastId' \in 0..MaxContexts
      BY <1>0, <1>1, WindowsConstants
      DEF Windows!AddSocket, Windows!NewContext, Windows!ContextType, Windows!TypeOK
    <2> QED
      BY <1>0, <1>1, <2>1, TableTypes, TypesOnceHandsKept
      DEF Windows!AddSocket, Windows!ioVars, Windows!threadVars, Windows!TypeOK, ReadsFit
  <1>2. CASE Windows!RemoveSocket(s)
    BY <1>0, <1>2, TableTypes, TypesOnceHandsKept
    DEF Windows!RemoveSocket, Windows!ioVars, Windows!threadVars, Windows!TypeOK, ReadsFit
  <1>3. CASE Windows!AsyncRead(s)
    <2>1. [contexts[s] EXCEPT !.callback = "receive"] \in Windows!ContextType
      BY <1>0, <1>3 DEF Windows!AsyncRead, Windows!ContextType, Windows!TypeOK
    <2> QED
      BY <1>0, <1>3, <2>1, PostedTypes, TypesOnceHandsKept
      DEF Windows!AsyncRead, Windows!threadVars, Windows!TypeOK
  <1>4. ASSUME NEW n \in DataSizes, Windows!AsyncWrite(s, n) PROVE WindowsTypes'
    <2>1. [contexts[s] EXCEPT !.callback = "send", !.writeBuffer = n] \in Windows!ContextType
      BY <1>0, <1>4, WindowsConstants DEF Windows!AsyncWrite, Windows!ContextType, Windows!TypeOK
    <2> QED
      BY <1>0, <1>4, <2>1, PostedTypes, TypesOnceHandsKept
      DEF Windows!AsyncWrite, Windows!threadVars, Windows!TypeOK
  <1> QED  BY <1>1, <1>2, <1>3, <1>4

\* The kernel adds at the end of the port, a worker takes from its front.
LEMMA CompleteTypes ==
  ASSUME WindowsTypes, Windows!KernelStep
  PROVE  WindowsTypes'
  <1>0. Windows!TypeOK /\ ReadsFit
    BY DEF WindowsTypes
  <1>1. PICK op \in inFlight : Windows!Complete(op)
    BY DEF Windows!KernelStep
  <1>2. op \in Windows!Operations /\ (op.kind = "read" => op.size = BUFFER_SIZE)
    BY <1>0 DEF Windows!TypeOK, ReadsFit
  <1>3. PICK n \in 0..op.size :
          port' = Append(port, [kind |-> op.kind, socket |-> op.socket, id |-> op.id, bytes |-> n])
    BY <1>1 DEF Windows!Complete
  <1> DEFINE completion == [kind |-> op.kind, socket |-> op.socket, id |-> op.id, bytes |-> n]
  <1>4. /\ completion \in Windows!Completions
        /\ completion.kind = "read" => completion.bytes <= BUFFER_SIZE
    BY <1>2, <1>3, WindowsConstants DEF Windows!Operations, Windows!Completions
  <1>5. port' = Append(port, completion)
    BY <1>3
  <1> HIDE DEF completion
  <1>6. /\ port' \in Seq(Windows!Completions \cup {Windows!Wake})
        /\ Len(port) \in Nat /\ Len(port') = Len(port) + 1
        /\ \A i \in 1..Len(port') : port'[i] = IF i <= Len(port) THEN port[i] ELSE completion
    BY <1>0, <1>4, <1>5 DEF Windows!TypeOK
  <1>7. Windows!TypeOK'
    BY <1>0, <1>1, <1>6 DEF Windows!Complete, Windows!TypeOK, Windows!Registered,
       Windows!sockVars, Windows!threadVars
  <1>8. ReadsFit'
    BY <1>0, <1>1, <1>4, <1>6 DEF Windows!Complete, ReadsFit, Windows!threadVars
  <1>9. WorkersInv'
    BY <1>1 DEF Windows!Complete, WindowsTypes, WorkersInv, Windows!Registered,
       Windows!sockVars, Windows!threadVars
  <1> QED  BY <1>7, <1>8, <1>9 DEF WindowsTypes

\* A worker that takes a completion or a wakeup from the port keeps the types.
LEMMA DequeueTypes ==
  ASSUME WindowsTypes, NEW w \in Workers, Windows!Dequeue(w)
  PROVE  WindowsTypes'
  <1>0. Windows!TypeOK /\ ReadsFit /\ WorkersInv
    BY DEF WindowsTypes
  <1>1. /\ port' \in Seq(Windows!Completions \cup {Windows!Wake})
        /\ Len(port) \in Nat /\ Len(port') = Len(port) - 1 /\ Len(port) > 0
        /\ \A i \in 1..Len(port') : port'[i] = port[i + 1]
        /\ Head(port) = port[1] /\ port[1] \in Windows!Completions \cup {Windows!Wake}
    BY <1>0 DEF Windows!Dequeue, Windows!TypeOK
  <1>2. /\ hand'[w] \in Windows!Completions \cup {Windows!Nothing}
        /\ hand'[w].kind = "read" => hand'[w].bytes <= BUFFER_SIZE
        /\ worker'[w] \in {"exited", "test", "lock"}
        /\ worker'[w] = "lock" => hand'[w] \in Windows!Completions
        /\ \A v \in Workers : v # w => hand'[v] = hand[v] /\ worker'[v] = worker[v]
    <2>1. /\ hand \in [Workers -> Windows!Completions \cup {Windows!Nothing}]
          /\ DOMAIN worker = Workers
      BY <1>0, WindowsConstants DEF Windows!TypeOK
    <2>2. port[1].kind = "read" => port[1].bytes <= BUFFER_SIZE
      BY <1>0, <1>1 DEF ReadsFit
    <2> QED
      BY <1>1, <2>1, <2>2 DEF Windows!Dequeue, Windows!Goes, Windows!Nothing, Windows!Wake
  <1>3. Windows!TypeOK'
    <2>1. hand' \in [Windows!Workers -> Windows!Completions \cup {Windows!Nothing}]
      BY <1>0, <1>2, WindowsConstants DEF Windows!Dequeue, Windows!TypeOK
    <2>2. worker' \in [Windows!Workers -> {"none", "test", "wait", "lock", "call", "finish",
                                           "stuck", "exited"}]
      BY <1>0 DEF Windows!Dequeue, Windows!Goes, Windows!TypeOK
    <2> QED
      BY <1>0, <1>1, <2>1, <2>2
      DEF Windows!Dequeue, Windows!TypeOK, Windows!Registered, Windows!sockVars
  <1>4. ReadsFit'
    BY <1>0, <1>1, <1>2 DEF Windows!Dequeue, ReadsFit
  <1>5. WorkersInv'
    <2>1. mutex # w /\ mutex' = mutex /\ contexts' = contexts
      BY <1>0 DEF Windows!Dequeue, Windows!sockVars, WorkersInv
    <2> QED  BY <1>0, <1>2, <2>1 DEF WorkersInv, Windows!Registered
  <1> QED  BY <1>3, <1>4, <1>5 DEF WindowsTypes

\* A worker that has contextsMutex_ or takes it goes on: it keeps its
\* completion and the mutex, or gives both up.
LEMMA TypesOnceWorkerMoves ==
  ASSUME WindowsTypes, NEW w \in Workers,
         mutex \in {Windows!Free, w},
         \/ /\ \E to \in {"call", "finish", "stuck"} : Windows!Goes(w, to)
            /\ mutex' = w /\ hand' = hand
            /\ hand[w] \in Windows!Completions
            /\ contexts'[hand[w].socket] # Windows!NoContext
         \/ /\ Windows!Done(w)
            /\ mutex' = Windows!Free,
         /\ open' \in SUBSET Sockets
         /\ DOMAIN contexts' = Sockets
         /\ \A t \in Sockets : Windows!Registered(t)' => contexts'[t] \in Windows!ContextType
         /\ inFlight' \in SUBSET Windows!Operations
         /\ \A op \in inFlight' : op.kind = "read" => op.size = BUFFER_SIZE,
         UNCHANGED <<port, lastId, running>>
  PROVE  WindowsTypes'
  <1>0. Windows!TypeOK /\ ReadsFit /\ WorkersInv
    BY DEF WindowsTypes
  <1>a. PICK to \in {"test", "call", "finish", "stuck"} :
          /\ worker' = [worker EXCEPT ![w] = to]
          /\ \/ /\ to # "test" /\ mutex' = w /\ hand' = hand
                /\ hand[w] \in Windows!Completions
                /\ contexts'[hand[w].socket] # Windows!NoContext
             \/ /\ to = "test" /\ mutex' = Windows!Free
                /\ hand' = [hand EXCEPT ![w] = Windows!Nothing]
    BY DEF Windows!Goes, Windows!Done
  <1>1. /\ w \in Windows!Workers
        /\ worker \in [Windows!Workers -> {"none", "test", "wait", "lock", "call", "finish",
                                           "stuck", "exited"}]
        /\ hand \in [Windows!Workers -> Windows!Completions \cup {Windows!Nothing}]
    BY <1>0, WindowsConstants DEF Windows!Goes, Windows!TypeOK
  <1>2. Windows!TypeOK'
    <2>1. worker' \in [Windows!Workers -> {"none", "test", "wait", "lock", "call", "finish",
                                           "stuck", "exited"}]
      BY <1>1, <1>a
    <2>2. hand' \in [Windows!Workers -> Windows!Completions \cup {Windows!Nothing}]
      BY <1>1, <1>a
    <2>3. mutex' \in Windows!Workers \cup {Windows!Free}
      BY <1>1, <1>a
    <2> QED  BY <1>0, <2>1, <2>2, <2>3 DEF Windows!TypeOK
  <1>3. ReadsFit'
    <2>1. \A v \in Workers : hand'[v] = hand[v] \/ hand'[v].kind = "none"
      BY <1>1, <1>a, WindowsConstants DEF Windows!Nothing
    <2> QED  BY <1>0, <2>1 DEF ReadsFit
  <1>4. WorkersInv'
    <2>1. /\ \A v \in Workers : v # w => worker'[v] = worker[v] /\ hand'[v] = hand[v] /\ mutex # v
          /\ worker'[w] = to
      BY <1>1, <1>a, WindowsConstants
    <2> QED  BY <1>0, <1>a, <2>1, WindowsConstants DEF WorkersInv, Windows!Registered
  <1> QED  BY <1>2, <1>3, <1>4 DEF WindowsTypes

\* processCompletion() up to its callback keeps the types: what a completed
\* write takes off the buffer is no more than the buffer has.
LEMMA ProcessTypes ==
  ASSUME WindowsTypes, NEW w \in Workers, Windows!ProcessCompletion(w)
  PROVE  WindowsTypes'
  <1>0. Windows!TypeOK /\ ReadsFit /\ WorkersInv
    BY DEF WindowsTypes
  <1>1. /\ mutex = Windows!Free /\ worker[w] = "lock"
        /\ UNCHANGED <<port, lastId, running, open>>
        /\ open \in SUBSET Sockets
    BY <1>0 DEF Windows!ProcessCompletion, Windows!TypeOK
  <1> DEFINE s == hand[w].socket
             n == hand[w].bytes
  <1>2. /\ hand[w] \in Windows!Completions /\ s \in Sockets /\ n \in Nat
        /\ hand[w].kind = "read" => n <= BUFFER_SIZE
        /\ hand[w].kind \in {"read", "write"}
    BY <1>0, <1>1 DEF WorkersInv, Windows!Completions, ReadsFit
  <1>3. CASE ~Windows!Registered(s)
    <2>1. Windows!Done(w) /\ UNCHANGED <<contexts, mutex, inFlight>>
      BY <1>3 DEF Windows!ProcessCompletion
    <2>2. mutex' = Windows!Free
      BY <1>1, <2>1
    <2>3. /\ DOMAIN contexts' = Sockets
          /\ \A t \in Sockets : Windows!Registered(t)' => contexts'[t] \in Windows!ContextType
          /\ inFlight' \in SUBSET Windows!Operations
          /\ \A op \in inFlight' : op.kind = "read" => op.size = BUFFER_SIZE
      BY <1>0, <2>1 DEF Windows!TypeOK, ReadsFit, Windows!Registered
    <2> QED
      BY <1>1, <2>1, <2>2, <2>3, TypesOnceWorkerMoves
  <1>4. CASE Windows!Registered(s)
    <2> DEFINE c == contexts[s]
               event == CASE n = 0 -> c
                          [] n > 0 /\ hand[w].kind = "read" -> Windows!Received(c, n)
                          [] n > 0 /\ hand[w].kind = "write" -> Windows!Sent(c, n)
    <2>1. event \in Windows!ContextType
      <3>1. c \in Windows!ContextType
        BY <1>0, <1>2, <1>4 DEF Windows!TypeOK
      <3>2. ASSUME hand[w].kind = "read" PROVE Windows!Received(c, n) \in Windows!ContextType
        <4>1. BUFFER_SIZE - n \in Nat
          BY <1>2, <3>2, WindowsConstants
        <4> HIDE DEF c, n
        <4> QED  BY <3>1, <4>1 DEF Windows!Received, Windows!ContextType
      <3>3. Windows!Sent(c, n) \in Windows!ContextType
        <4> HIDE DEF c
        <4> QED  BY <1>2, <3>1 DEF Windows!Sent, Windows!ContextType
      <3> HIDE DEF c
      <3>4. CASE n = 0
        BY <3>1, <3>4
      <3>5. CASE n # 0 /\ hand[w].kind = "read"
        <4>1. n > 0
          BY <1>2, <3>5
        <4> HIDE DEF n
        <4> QED  BY <3>2, <3>5, <4>1
      <3>6. CASE n # 0 /\ hand[w].kind = "write"
        <4>1. n > 0
          BY <1>2, <3>6
        <4> HIDE DEF n
        <4> QED  BY <3>3, <3>6, <4>1
      <3> QED  BY <1>2, <3>4, <3>5, <3>6
    <2>2. Windows!StartCompletion(w)
      BY <1>4 DEF Windows!ProcessCompletion
    <2>3. \/ Windows!PostWrite(s, event) /\ Windows!Done(w) /\ UNCHANGED mutex
          \/ /\ contexts' = [contexts EXCEPT ![s] = event]
             /\ mutex' = w
             /\ Windows!Goes(w, IF c.callback = "none" THEN "finish" ELSE "call")
             /\ UNCHANGED <<inFlight, hand>>
      BY <2>2 DEF Windows!StartCompletion, Windows!KeepsMutex
    <2> HIDE DEF event
    <2>4. CASE Windows!PostWrite(s, event) /\ Windows!Done(w) /\ UNCHANGED mutex
      <3>1. Windows!Done(w) /\ mutex' = Windows!Free
        BY <1>1, <2>4
      <3>2. /\ DOMAIN contexts' = Sockets
            /\ \A t \in Sockets : Windows!Registered(t)' => contexts'[t] \in Windows!ContextType
            /\ inFlight' \in SUBSET Windows!Operations
            /\ \A op \in inFlight' : op.kind = "read" => op.size = BUFFER_SIZE
        BY <1>0, <1>2, <2>1, <2>4, PostedTypes
      <3> QED
        BY <1>1, <3>1, <3>2, TypesOnceWorkerMoves
    <2>5. CASE /\ contexts' = [contexts EXCEPT ![s] = event]
               /\ mutex' = w
               /\ Windows!Goes(w, IF c.callback = "none" THEN "finish" ELSE "call")
               /\ UNCHANGED <<inFlight, hand>>
      <3>1. /\ DOMAIN contexts' = Sockets
            /\ \A t \in Sockets : Windows!Registered(t)' => contexts'[t] \in Windows!ContextType
            /\ contexts'[s] = event
        BY <1>0, <1>2, <2>1, <2>5, TableTypes
      <3>2. event # Windows!NoContext
        BY <2>1, WindowsConstants DEF Windows!NoContext, Windows!ContextType
      <3>3. /\ inFlight' \in SUBSET Windows!Operations
            /\ \A op \in inFlight' : op.kind = "read" => op.size = BUFFER_SIZE
        BY <1>0, <2>5 DEF Windows!TypeOK, ReadsFit
      <3>4. PICK to \in {"call", "finish"} : Windows!Goes(w, to)
        BY <2>5
      <3> QED
        BY <1>1, <1>2, <2>5, <3>1, <3>2, <3>3, <3>4, TypesOnceWorkerMoves
    <2> QED  BY <2>3, <2>4, <2>5
  <1> QED  BY <1>3, <1>4

\* What a callback does keeps the types.
LEMMA CallbackTypes ==
  ASSUME WindowsTypes, NEW w \in Workers,
         \/ Windows!CallbackCloses(w) \/ Windows!CallbackReadsAgain(w)
         \/ Windows!CallbackReturns(w)
  PROVE  WindowsTypes'
  <1>0. Windows!TypeOK /\ ReadsFit /\ WorkersInv
    BY DEF WindowsTypes
  <1>1. /\ worker[w] = "call" /\ UNCHANGED <<port, lastId, running, mutex, hand>>
    BY DEF Windows!CallbackCloses, Windows!CallbackReadsAgain, Windows!CallbackReturns,
       Windows!sockVars, Windows!ioVars
  <1>2. /\ mutex = w /\ hand[w] \in Windows!Completions
        /\ hand[w].socket \in Sockets
        /\ Windows!Registered(hand[w].socket)
        /\ contexts[hand[w].socket] # Windows!NoContext
    BY <1>0, <1>1 DEF WorkersInv, Windows!Registered, Windows!Completions
  <1>3. open' \in SUBSET Sockets
    BY <1>0 DEF Windows!CallbackCloses, Windows!CallbackReadsAgain, Windows!CallbackReturns,
       Windows!sockVars, Windows!TypeOK
  <1>4. CASE UNCHANGED <<contexts, inFlight>>
    <2>1. PICK to \in {"finish", "stuck"} : Windows!Goes(w, to)
      BY DEF Windows!CallbackCloses, Windows!CallbackReadsAgain, Windows!CallbackReturns
    <2>2. /\ DOMAIN contexts' = Sockets
          /\ \A t \in Sockets : Windows!Registered(t)' => contexts'[t] \in Windows!ContextType
          /\ inFlight' \in SUBSET Windows!Operations
          /\ \A op \in inFlight' : op.kind = "read" => op.size = BUFFER_SIZE
      BY <1>0, <1>4 DEF Windows!TypeOK, ReadsFit, Windows!Registered
    <2> QED
      BY <1>1, <1>2, <1>3, <1>4, <2>1, <2>2, TypesOnceWorkerMoves
  <1>5. CASE Windows!PostRead(hand[w].socket, contexts[hand[w].socket]) /\ Windows!Goes(w, "finish")
    <2>1. contexts[hand[w].socket] \in Windows!ContextType
      BY <1>0, <1>2 DEF Windows!TypeOK
    <2>2. /\ DOMAIN contexts' = Sockets
          /\ contexts'[hand[w].socket] \in Windows!ContextType
          /\ \A t \in Sockets : Windows!Registered(t)' => contexts'[t] \in Windows!ContextType
          /\ inFlight' \in SUBSET Windows!Operations
          /\ \A op \in inFlight' : op.kind = "read" => op.size = BUFFER_SIZE
      BY <1>0, <1>2, <1>5, <2>1, PostedTypes
    <2>3. contexts'[hand[w].socket] # Windows!NoContext
      BY <2>2, WindowsConstants DEF Windows!ContextType, Windows!NoContext
    <2> QED
      BY <1>1, <1>2, <1>3, <1>5, <2>2, <2>3, TypesOnceWorkerMoves
  <1> QED
    BY <1>4, <1>5 DEF Windows!CallbackCloses, Windows!CallbackReadsAgain,
       Windows!CallbackReturns, Windows!sockVars, Windows!ioVars

\* processCompletion() after its callback keeps the types.
LEMMA FinishTypes ==
  ASSUME WindowsTypes, NEW w \in Workers, Windows!FinishCompletion(w)
  PROVE  WindowsTypes'
  <1>0. Windows!TypeOK /\ ReadsFit /\ WorkersInv
    BY DEF WindowsTypes
  <1> DEFINE s == hand[w].socket
             c == contexts[s]
  <1>1. /\ worker[w] = "finish" /\ UNCHANGED <<port, lastId, running, open>>
        /\ mutex' = Windows!Free /\ Windows!Done(w)
    BY DEF Windows!FinishCompletion
  <1>2. mutex = w /\ s \in Sockets /\ c \in Windows!ContextType
    BY <1>0, <1>1 DEF WorkersInv, Windows!Registered, Windows!Completions, Windows!TypeOK
  <1>3. /\ DOMAIN contexts' = Sockets
        /\ \A t \in Sockets : Windows!Registered(t)' => contexts'[t] \in Windows!ContextType
        /\ inFlight' \in SUBSET Windows!Operations
        /\ \A op \in inFlight' : op.kind = "read" => op.size = BUFFER_SIZE
    <2>1. CASE Windows!PostRead(s, c)
      BY <1>0, <1>2, <2>1, PostedTypes
    <2>2. ASSUME NEW d \in Windows!ContextType \cup {Windows!NoContext},
                 contexts' = [contexts EXCEPT ![s] = d], UNCHANGED inFlight
          PROVE  <1>3!:
      BY <1>0, <1>2, <2>2, TableTypes DEF Windows!TypeOK, ReadsFit
    <2>3. CASE contexts' = [contexts EXCEPT ![s] = Windows!NoContext] /\ UNCHANGED inFlight
      BY <2>2, <2>3
    <2>4. CASE /\ contexts' = [contexts EXCEPT ![s].writeBuffer = 0, ![s].writeOffset = 0]
               /\ UNCHANGED inFlight
      <3>1. [c EXCEPT !.writeBuffer = 0, !.writeOffset = 0] \in Windows!ContextType
        <4> HIDE DEF c
        <4> QED  BY <1>2 DEF Windows!ContextType
      <3>2. contexts' = [contexts EXCEPT ![s] = [c EXCEPT !.writeBuffer = 0, !.writeOffset = 0]]
        BY <1>0, <1>2, <2>4 DEF Windows!TypeOK
      <3> QED  BY <2>2, <2>4, <3>1, <3>2
    <2> QED  BY <2>1, <2>3, <2>4 DEF Windows!FinishCompletion
  <1>4. open' \in SUBSET Sockets
    BY <1>0, <1>1 DEF Windows!TypeOK
  <1> QED
    BY <1>1, <1>2, <1>3, <1>4, TypesOnceWorkerMoves

\* The wakeups come after what is in the port.
LEMMA WakeupsAppended ==
  ASSUME port \in Seq(Windows!Completions \cup {Windows!Wake}), Windows!PostWakeups
  PROVE  /\ port' \in Seq(Windows!Completions \cup {Windows!Wake})
         /\ Len(port) \in Nat /\ Len(port') \in Nat /\ Len(port') >= Len(port)
         /\ \A i \in 1..Len(port') :
               port'[i] = IF i <= Len(port) THEN port[i] ELSE Windows!Wake
  <1> DEFINE T == Windows!Completions \cup {Windows!Wake}
  <1>1. /\ Windows!Wakeups \in Seq(T) /\ Len(Windows!Wakeups) = MAX_THREADS
        /\ \A i \in 1..MAX_THREADS : Windows!Wakeups[i] = Windows!Wake
    BY WindowsConstants DEF Windows!Wakeups
  <1>2. port \in Seq(T) /\ port' = port \o Windows!Wakeups
    BY DEF Windows!PostWakeups
  <1> HIDE DEF T
  <1>3. /\ port' \in Seq(T)
        /\ Len(port') = Len(port) + MAX_THREADS
        /\ \A i \in 1..Len(port') :
              port'[i] = IF i <= Len(port) THEN port[i] ELSE Windows!Wakeups[i - Len(port)]
    BY <1>1, <1>2, ConcatProperties
  <1>4. Len(port) \in Nat
    BY <1>2
  <1>5. \A i \in 1..Len(port') : i > Len(port) => i - Len(port) \in 1..MAX_THREADS
    BY <1>3, <1>4, WindowsConstants
  <1> QED  BY <1>1, <1>3, <1>4, <1>5, WindowsConstants DEF T

\* startEventLoop(), the parts of stopEventLoop() and the end keep the types.
LEMMA LifecycleTypes ==
  ASSUME WindowsTypes,
         \/ Windows!StartEventLoop /\ \A w \in Workers : worker[w] = "none"
         \/ Windows!StopFlag \/ Windows!PostWakeups \/ Windows!CloseAll
         \/ \E w \in Workers : Windows!LoopTest(w)
  PROVE  WindowsTypes'
  <1>0. Windows!TypeOK /\ ReadsFit /\ WorkersInv
    BY DEF WindowsTypes
  <1>1. ASSUME Windows!StartEventLoop, \A w \in Workers : worker[w] = "none"
        PROVE  WindowsTypes'
    <2>1. Windows!TypeOK'
      BY <1>0, <1>1 DEF Windows!StartEventLoop, Windows!TypeOK, Windows!Registered,
         Windows!sockVars, Windows!ioVars
    <2>2. ReadsFit'
      BY <1>0, <1>1 DEF Windows!StartEventLoop, ReadsFit, Windows!ioVars
    <2>3. \A w \in Workers : worker'[w] = "test" /\ mutex # w
      BY <1>0, <1>1, WindowsConstants DEF Windows!StartEventLoop, WorkersInv
    <2>4. WorkersInv'
      BY <1>0, <1>1, <2>3 DEF Windows!StartEventLoop, WorkersInv
    <2> QED  BY <2>1, <2>2, <2>4 DEF WindowsTypes
  <1>2. CASE Windows!StopFlag
    BY <1>0, <1>2 DEF Windows!StopFlag, WindowsTypes, Windows!TypeOK, ReadsFit, WorkersInv,
       Windows!Registered, Windows!sockVars, Windows!ioVars, Windows!threadVars
  <1>3. CASE Windows!PostWakeups
    <2>1. /\ port' \in Seq(Windows!Completions \cup {Windows!Wake})
          /\ Len(port) \in Nat /\ Len(port') \in Nat /\ Len(port') >= Len(port)
          /\ \A i \in 1..Len(port') :
                port'[i] = IF i <= Len(port) THEN port[i] ELSE Windows!Wake
      BY <1>0, <1>3, WakeupsAppended DEF Windows!TypeOK
    <2>2. UNCHANGED <<open, contexts, lastId, running, mutex, inFlight, worker, hand>>
      BY <1>3 DEF Windows!PostWakeups, Windows!sockVars, Windows!threadVars
    <2>3. Windows!TypeOK'
      BY <1>0, <2>1, <2>2 DEF Windows!TypeOK, Windows!Registered
    <2>4. ReadsFit'
      BY <1>0, <2>1, <2>2 DEF ReadsFit, Windows!Wake
    <2>5. WorkersInv'
      BY <1>0, <2>2 DEF WorkersInv, Windows!Registered
    <2> QED  BY <2>3, <2>4, <2>5 DEF WindowsTypes
  <1>4. CASE Windows!CloseAll
    <2>1. Windows!TypeOK'
      BY <1>0, <1>4 DEF Windows!CloseAll, Windows!TypeOK, Windows!Registered, Windows!threadVars
    <2>2. ReadsFit'
      BY <1>0, <1>4 DEF Windows!CloseAll, ReadsFit, Windows!threadVars
    <2>3. WorkersInv'
      BY <1>0, <1>4, WindowsConstants
      DEF Windows!CloseAll, WorkersInv, Windows!threadVars
    <2> QED  BY <2>1, <2>2, <2>3 DEF WindowsTypes
  <1>5. ASSUME NEW w \in Workers, Windows!LoopTest(w) PROVE WindowsTypes'
    <2>1. UNCHANGED <<open, contexts, lastId, running, mutex, inFlight, port, hand>>
      BY <1>5 DEF Windows!LoopTest, Windows!sockVars, Windows!ioVars
    <2>2. PICK to \in {"wait", "exited"} : worker' = [worker EXCEPT ![w] = to]
      BY <1>5 DEF Windows!LoopTest, Windows!Goes
    <2>3. Windows!TypeOK'
      BY <1>0, <2>1, <2>2 DEF Windows!TypeOK, Windows!Registered
    <2>4. ReadsFit'
      BY <1>0, <2>1 DEF ReadsFit
    <2>5. /\ worker'[w] = to /\ worker[w] = "test"
          /\ \A v \in Workers : v # w => worker'[v] = worker[v]
      BY <1>0, <1>5, <2>2, WindowsConstants DEF Windows!TypeOK, Windows!LoopTest
    <2>6. WorkersInv'
      BY <1>0, <2>1, <2>5 DEF WorkersInv, Windows!Registered
    <2> QED  BY <2>3, <2>4, <2>6 DEF WindowsTypes
  <1> QED  BY <1>1, <1>2, <1>3, <1>4, <1>5

-----------------------------------------------------------------------------
(* WindowsIOCP: the operations                                             *)

\* What the types say of the numbers and kinds.
LEMMA PlacesTyped ==
  ASSUME WindowsTypes
  PROVE  /\ \A s \in Sockets : contexts[s].id \in Nat
         /\ \A s \in Sockets : Windows!Registered(s) <=> contexts[s].id # 0
         /\ lastId \in Nat
         /\ \A op \in inFlight : op.kind \in {"read", "write"} /\ op.id \in Nat \ {0}
         /\ Len(port) \in Nat
         /\ \A i \in 1..Len(port) : port[i] # Windows!Wake =>
               port[i].kind \in {"read", "write"} /\ port[i].id \in Nat \ {0}
         /\ Windows!Wake.kind \notin {"read", "write"}
         /\ \A w \in Workers : Pending(w) =>
               hand[w].kind \in {"read", "write"} /\ hand[w].id \in Nat \ {0}
  <1>0. Windows!TypeOK /\ WorkersInv
    BY DEF WindowsTypes
  <1>1. \A s \in Sockets : /\ contexts[s].id \in Nat
                           /\ Windows!Registered(s) <=> contexts[s].id # 0
    <2>1. TAKE s \in Sockets
    <2>2. CASE Windows!Registered(s)
      BY <1>0, <2>2, WindowsConstants DEF Windows!TypeOK, Windows!ContextType
    <2>3. CASE ~Windows!Registered(s)
      BY <2>3 DEF Windows!Registered, Windows!NoContext
    <2> QED  BY <2>2, <2>3
  <1>2. lastId \in Nat
    BY <1>0, WindowsConstants DEF Windows!TypeOK
  <1>3. \A op \in inFlight : op.kind \in {"read", "write"} /\ op.id \in Nat \ {0}
    BY <1>0, WindowsConstants DEF Windows!TypeOK, Windows!Operations
  <1>4. /\ Len(port) \in Nat
        /\ \A i \in 1..Len(port) : port[i] # Windows!Wake =>
              port[i].kind \in {"read", "write"} /\ port[i].id \in Nat \ {0}
    <2>1. \A x \in Windows!Completions : x.kind \in {"read", "write"} /\ x.id \in Nat \ {0}
      BY WindowsConstants DEF Windows!Completions
    <2>2. \A i \in 1..Len(port) : port[i] \in Windows!Completions \cup {Windows!Wake}
      BY <1>0 DEF Windows!TypeOK
    <2> QED  BY <1>0, <2>1, <2>2 DEF Windows!TypeOK
  <1>5. \A w \in Workers : Pending(w) =>
           hand[w].kind \in {"read", "write"} /\ hand[w].id \in Nat \ {0}
    BY <1>0, WindowsConstants DEF WorkersInv, Pending, Windows!Completions
  <1>6. Windows!Wake.kind \notin {"read", "write"}
    BY DEF Windows!Wake
  <1> QED  BY <1>1, <1>2, <1>3, <1>4, <1>5, <1>6

\* Marks are not taken off: a context stays, marked at least as it was, or goes.
MarksStay ==
    \A s \in Sockets :
        \/ contexts'[s].id = 0
        \/ /\ contexts'[s].id = contexts[s].id
           /\ contexts[s].reading => contexts'[s].reading
           /\ contexts[s].writing => contexts'[s].writing

\* An operation that was marked still is.
LEMMA StillMarked ==
  ASSUME MarksStay, NEW kind, NEW id \in Nat \ {0}, Marked(kind, id)
  PROVE  Marked(kind, id)'
  BY DEF MarksStay, Marked

\* A step that posts nothing and takes nothing from the port.
LEMMA OperationsOnceQuiet ==
  ASSUME WindowsTypes, OperationsInv, MarksStay,
         inFlight' \in SUBSET inFlight,
         UNCHANGED <<port, lastId>>,
         \A w \in Workers : Pending(w)' => Pending(w) /\ hand'[w] = hand[w]
  PROVE  OperationsInv'
  <1>1. NumbersInv'
    BY PlacesTyped DEF OperationsInv, NumbersInv, MarksStay
  <1>2. MarksInv'
    BY PlacesTyped, StillMarked DEF OperationsInv, MarksInv
  <1>3. KernelInv'
    BY DEF OperationsInv, KernelInv, Same
  <1>4. PortInv'
    BY DEF OperationsInv, PortInv, Same
  <1> QED  BY <1>1, <1>2, <1>3, <1>4 DEF OperationsInv

\* What is under way when a context has not been marked: nothing of it.
LEMMA NothingWithoutMark ==
  ASSUME WindowsTypes, OperationsInv,
         NEW op, op.kind \in {"read", "write"}, ~Marked(op.kind, op.id)
  PROVE  /\ \A other \in inFlight : ~Same(op, other)
         /\ \A i \in 1..Len(port) : ~Same(op, port[i])
         /\ \A w \in Workers : Pending(w) => ~Same(op, hand[w])
  BY PlacesTyped DEF OperationsInv, MarksInv, Same

\* A step that posts an operation op and marks the context of the socket s.
LEMMA OperationsOncePosted ==
  ASSUME WindowsTypes, OperationsInv, MarksStay,
         NEW s \in Sockets, NEW op,
         op.kind \in {"read", "write"},
         op.id = contexts[s].id,
         contexts[s].id # 0,
         ~Marked(op.kind, op.id),
         contexts'[s].id = contexts[s].id,
         IF op.kind = "read" THEN contexts'[s].reading ELSE contexts'[s].writing,
         inFlight' = inFlight \cup {op},
         UNCHANGED <<port, lastId>>,
         \A w \in Workers : Pending(w)' => Pending(w) /\ hand'[w] = hand[w]
  PROVE  OperationsInv'
  <1>1. NumbersInv'
    <2>1. op.id <= lastId
      BY DEF OperationsInv, NumbersInv
    <2>2. /\ \A t \in Sockets : contexts'[t].id <= lastId
          /\ \A t, u \in Sockets :
                contexts'[t].id = contexts'[u].id => t = u \/ contexts'[t].id = 0
      BY PlacesTyped DEF OperationsInv, NumbersInv, MarksStay
    <2> QED  BY <2>1, <2>2 DEF OperationsInv, NumbersInv
  <1>2. MarksInv'
    <2>1. Marked(op.kind, op.id)'
      <3>1. \A t \in Sockets : contexts'[t].id = op.id => t = s
        BY PlacesTyped DEF OperationsInv, NumbersInv, MarksStay
      <3> QED  BY <3>1 DEF Marked
    <2> QED  BY <2>1, PlacesTyped, StillMarked DEF OperationsInv, MarksInv
  <1>3. KernelInv'
    BY NothingWithoutMark DEF OperationsInv, KernelInv, Same
  <1>4. PortInv'
    BY DEF OperationsInv, PortInv, Same
  <1> QED  BY <1>1, <1>2, <1>3, <1>4 DEF OperationsInv

\* postRead() and postWrite() look at the mark before they post.
LEMMA PostingGuarded ==
  ASSUME WindowsTypes, OperationsInv,
         NEW s \in Sockets, NEW c \in Windows!ContextType,
         Windows!Registered(s),
         /\ c.id = contexts[s].id
         /\ c.reading = contexts[s].reading
         /\ c.writing = contexts[s].writing,
         Windows!PostRead(s, c) \/ Windows!PostWrite(s, c),
         UNCHANGED <<port, lastId>>,
         \A w \in Workers : Pending(w)' => Pending(w) /\ hand'[w] = hand[w]
  PROVE  OperationsInv'
  <1>0. DOMAIN contexts = Sockets /\ contexts[s].id # 0
    BY PlacesTyped DEF WindowsTypes, Windows!TypeOK
  <1>1. CASE contexts' = [contexts EXCEPT ![s] = c] /\ UNCHANGED inFlight
    <2>1. MarksStay
      BY <1>0, <1>1 DEF MarksStay
    <2> QED  BY <1>1, <2>1, OperationsOnceQuiet
  <1>2. CASE /\ ~c.reading
             /\ inFlight' = inFlight \cup
                    {[kind |-> "read", socket |-> s, id |-> c.id, size |-> BUFFER_SIZE]}
             /\ contexts' = [contexts EXCEPT ![s] = [c EXCEPT !.reading = TRUE]]
    <2>1. PICK op : op = [kind |-> "read", socket |-> s, id |-> c.id, size |-> BUFFER_SIZE]
      OBVIOUS
    <2>2. /\ contexts'[s].id = c.id /\ contexts'[s].reading /\ contexts'[s].writing = c.writing
          /\ \A t \in Sockets : t # s => contexts'[t] = contexts[t]
      BY <1>0, <1>2 DEF Windows!ContextType
    <2>3. MarksStay
      BY <2>2 DEF MarksStay
    <2>4. ~Marked(op.kind, op.id)
      BY <1>2, <2>1 DEF Marked
    <2> QED  BY <1>0, <1>2, <2>1, <2>2, <2>3, <2>4, OperationsOncePosted
  <1>3. ASSUME NEW size,
               ~c.writing,
               inFlight' = inFlight \cup
                    {[kind |-> "write", socket |-> s, id |-> c.id, size |-> size]},
               contexts' = [contexts EXCEPT ![s] = [c EXCEPT !.writing = TRUE]]
        PROVE  OperationsInv'
    <2>1. PICK op : op = [kind |-> "write", socket |-> s, id |-> c.id, size |-> size]
      OBVIOUS
    <2>2. /\ contexts'[s].id = c.id /\ contexts'[s].writing /\ contexts'[s].reading = c.reading
          /\ \A t \in Sockets : t # s => contexts'[t] = contexts[t]
      BY <1>0, <1>3 DEF Windows!ContextType
    <2>3. MarksStay
      BY <2>2 DEF MarksStay
    <2>4. ~Marked(op.kind, op.id)
      BY <1>3, <2>1 DEF Marked
    <2> QED  BY <1>0, <1>3, <2>1, <2>2, <2>3, <2>4, OperationsOncePosted
  <1> QED  BY <1>1, <1>2, <1>3 DEF Windows!PostRead, Windows!PostWrite

\* The calls of the server post no second operation of a kind.
LEMMA ServerCallOperations ==
  ASSUME WindowsTypes, OperationsInv,
         NEW s \in Sockets,
         \/ Windows!AddSocket(s) \/ Windows!RemoveSocket(s) \/ Windows!AsyncRead(s)
         \/ \E n \in DataSizes : Windows!AsyncWrite(s, n)
  PROVE  OperationsInv'
  <1>0. DOMAIN contexts = Sockets
        /\ \A t \in Sockets : Windows!Registered(t) => contexts[t] \in Windows!ContextType
    BY DEF WindowsTypes, Windows!TypeOK
  <1>1. CASE Windows!AddSocket(s)
    <2>1. /\ lastId' = lastId + 1 /\ UNCHANGED <<inFlight, port, worker, hand>>
          /\ contexts'[s] = Windows!NewContext(lastId + 1)
          /\ contexts'[s].id = lastId + 1
          /\ \A t \in Sockets : t # s => contexts'[t] = contexts[t]
      BY <1>0, <1>1
      DEF Windows!AddSocket, Windows!ioVars, Windows!threadVars, Windows!NewContext
    <2>2. NumbersInv'
      BY <2>1, PlacesTyped DEF OperationsInv, NumbersInv, Pending
    <2>3. ASSUME NEW kind, NEW id \in Nat, id <= lastId, Marked(kind, id)
          PROVE  Marked(kind, id)'
      BY <2>1, <2>3, PlacesTyped DEF Marked
    <2>4. MarksInv'
      <3>1. \A op \in inFlight' : Marked(op.kind, op.id)'
        BY <2>1, <2>3, PlacesTyped DEF OperationsInv, NumbersInv, MarksInv
      <3>2. \A i \in 1..Len(port') :
                port'[i] # Windows!Wake => Marked(port[i].kind, port[i].id)'
        BY <2>1, <2>3, PlacesTyped DEF OperationsInv, NumbersInv, MarksInv
      <3>3. \A w \in Workers : Pending(w)' => Marked(hand[w].kind, hand[w].id)'
        BY <2>1, <2>3, PlacesTyped DEF OperationsInv, NumbersInv, MarksInv, Pending
      <3> QED  BY <2>1, <3>1, <3>2, <3>3 DEF MarksInv
    <2>5. KernelInv' /\ PortInv'
      BY <2>1 DEF OperationsInv, KernelInv, PortInv, Same, Pending
    <2> QED  BY <2>2, <2>4, <2>5 DEF OperationsInv
  <1>2. CASE Windows!RemoveSocket(s)
    <2>1. MarksStay
      BY <1>0, <1>2 DEF Windows!RemoveSocket, MarksStay, Windows!NoContext
    <2> QED
      BY <1>2, <2>1, OperationsOnceQuiet
      DEF Windows!RemoveSocket, Windows!ioVars, Windows!threadVars, Pending
  <1>3. CASE Windows!AsyncRead(s)
    <2>1. PICK c \in Windows!ContextType : c = [contexts[s] EXCEPT !.callback = "receive"]
      BY <1>0, <1>3 DEF Windows!AsyncRead, Windows!ContextType
    <2>2. /\ c.id = contexts[s].id
          /\ c.reading = contexts[s].reading
          /\ c.writing = contexts[s].writing
      BY <1>0, <1>3, <2>1 DEF Windows!AsyncRead, Windows!ContextType
    <2> QED
      BY <1>3, <2>1, <2>2, PostingGuarded DEF Windows!AsyncRead, Windows!threadVars, Pending
  <1>4. ASSUME NEW n \in DataSizes, Windows!AsyncWrite(s, n) PROVE OperationsInv'
    <2>1. PICK c \in Windows!ContextType :
            c = [contexts[s] EXCEPT !.callback = "send", !.writeBuffer = n]
      BY <1>0, <1>4, WindowsConstants DEF Windows!AsyncWrite, Windows!ContextType
    <2>2. /\ c.id = contexts[s].id
          /\ c.reading = contexts[s].reading
          /\ c.writing = contexts[s].writing
      BY <1>0, <1>4, <2>1 DEF Windows!AsyncWrite, Windows!ContextType
    <2> QED
      BY <1>4, <2>1, <2>2, PostingGuarded DEF Windows!AsyncWrite, Windows!threadVars, Pending
  <1> QED  BY <1>1, <1>2, <1>3, <1>4

\* From the kernel to the port, and from there to a worker.
LEMMA CompleteOperations ==
  ASSUME WindowsTypes, OperationsInv, Windows!KernelStep
  PROVE  OperationsInv'
  <1>1. PICK op \in inFlight : Windows!Complete(op)
    BY DEF Windows!KernelStep
  <1>2. PICK n \in 0..op.size :
          port' = Append(port, [kind |-> op.kind, socket |-> op.socket, id |-> op.id, bytes |-> n])
    BY <1>1 DEF Windows!Complete
  <1>3. PICK x : x = [kind |-> op.kind, socket |-> op.socket, id |-> op.id, bytes |-> n]
    OBVIOUS
  <1>4. /\ x.kind = op.kind /\ x.id = op.id
        /\ port' = Append(port, x)
    BY <1>2, <1>3
  <1>5. /\ Len(port) \in Nat /\ Len(port') = Len(port) + 1
        /\ \A i \in 1..Len(port) : port'[i] = port[i]
        /\ port'[Len(port) + 1] = x
    BY <1>4 DEF WindowsTypes, Windows!TypeOK
  <1>6. \A i \in 1..Len(port') :
          \/ i \in 1..Len(port) /\ port'[i] = port[i]
          \/ i = Len(port) + 1 /\ port'[i] = x
    <2>1. TAKE i \in 1..Len(port')
    <2>2. i \in 1..Len(port) \/ i = Len(port) + 1
      BY <1>5
    <2> QED  BY <1>5, <2>2
  <1>7. /\ inFlight' = inFlight \ {op} /\ UNCHANGED <<contexts, lastId, worker, hand>>
    BY <1>1 DEF Windows!Complete, Windows!sockVars, Windows!threadVars
  <1>8. NumbersInv'
    BY <1>4, <1>6, <1>7 DEF OperationsInv, NumbersInv, Pending
  <1>9. MarksInv'
    BY <1>4, <1>6, <1>7 DEF OperationsInv, MarksInv, Pending, Marked
  <1>10. KernelInv'
    BY <1>4, <1>6, <1>7 DEF OperationsInv, KernelInv, Pending, Same
  <1>11. PortInv'
    <2>1. \A i, j \in 1..Len(port') :
             port'[i] # Windows!Wake /\ port'[j] # Windows!Wake /\ Same(port'[i], port'[j]) => i = j
      BY <1>4, <1>6, <1>7 DEF OperationsInv, KernelInv, PortInv, Same
    <2>2. \A i \in 1..Len(port'), w \in Workers : Pending(w)' => ~Same(port'[i], hand'[w])
      BY <1>4, <1>6, <1>7 DEF OperationsInv, KernelInv, PortInv, Pending, Same
    <2> QED  BY <1>7, <2>1, <2>2 DEF OperationsInv, PortInv, Pending, Same
  <1> QED  BY <1>8, <1>9, <1>10, <1>11 DEF OperationsInv

\* A completion that a worker takes is no longer in the port.
LEMMA DequeueOperations ==
  ASSUME WindowsTypes, OperationsInv, NEW w \in Workers, Windows!Dequeue(w)
  PROVE  OperationsInv'
  <1>1. /\ Len(port) \in Nat /\ Len(port) > 0 /\ Len(port') = Len(port) - 1
        /\ \A i \in 1..Len(port') : port'[i] = port[i + 1]
        /\ Head(port) = port[1] /\ 1 \in 1..Len(port)
    BY DEF Windows!Dequeue, WindowsTypes, Windows!TypeOK
  <1>2. \A i \in 1..Len(port') : i + 1 \in 1..Len(port) /\ i + 1 # 1
    BY <1>1
  <1>3. /\ UNCHANGED <<contexts, lastId, inFlight>>
        /\ ~Pending(w)
        /\ \A v \in Workers : v # w => worker'[v] = worker[v] /\ hand'[v] = hand[v]
        /\ Pending(w)' => hand'[w] = port[1] /\ port[1] # Windows!Wake
    BY <1>1, WindowsConstants
    DEF Windows!Dequeue, Windows!Goes, Windows!sockVars, Pending, WindowsTypes, Windows!TypeOK
  <1>4. NumbersInv'
    BY <1>1, <1>2, <1>3 DEF OperationsInv, NumbersInv, Pending
  <1>5. MarksInv'
    <2>1. \A v \in Workers : Pending(v)' => Marked(hand'[v].kind, hand'[v].id)
      BY <1>1, <1>3 DEF OperationsInv, MarksInv, Pending
    <2>2. \A i \in 1..Len(port') :
             port'[i] # Windows!Wake => Marked(port'[i].kind, port'[i].id)
      BY <1>1, <1>2, <1>3 DEF OperationsInv, MarksInv
    <2> QED  BY <1>3, <2>1, <2>2 DEF OperationsInv, MarksInv, Pending, Marked
  <1>6. KernelInv'
    BY <1>1, <1>2, <1>3 DEF OperationsInv, KernelInv, Pending, Same
  <1>7. PortInv'
    <2>1. \A i, j \in 1..Len(port') :
             port'[i] # Windows!Wake /\ port'[j] # Windows!Wake /\ Same(port'[i], port'[j]) => i = j
      <3>1. TAKE i, j \in 1..Len(port')
      <3>2. HAVE port'[i] # Windows!Wake /\ port'[j] # Windows!Wake /\ Same(port'[i], port'[j])
      <3>3. i + 1 = j + 1
        BY <1>1, <1>2, <3>2 DEF OperationsInv, PortInv
      <3> QED  BY <1>1, <3>3
    <2>2. \A i \in 1..Len(port'), v \in Workers : Pending(v)' => ~Same(port'[i], hand'[v])
      <3>1. TAKE i \in 1..Len(port'), v \in Workers
      <3>2. HAVE Pending(v)'
      <3>3. CASE v = w
        <4>1. port[1].kind \in {"read", "write"} /\ hand'[v] = port[1]
          BY <1>1, <1>3, <3>2, <3>3, PlacesTyped
        <4>2. port[i + 1] = Windows!Wake => ~Same(port[i + 1], port[1])
          BY <4>1, PlacesTyped DEF Same
        <4>3. Same(port[i + 1], port[1]) => i + 1 = 1
          BY <1>1, <1>2, <1>3, <3>2, <3>3, <4>2 DEF OperationsInv, PortInv
        <4> QED  BY <1>1, <1>2, <4>1, <4>3
      <3>4. CASE v # w
        BY <1>1, <1>2, <1>3, <3>2, <3>4 DEF OperationsInv, PortInv, Pending
      <3> QED  BY <3>3, <3>4
    <2>3. \A u, v \in Workers :
             Pending(u)' /\ Pending(v)' /\ Same(hand'[u], hand'[v]) => u = v
      BY <1>1, <1>3 DEF OperationsInv, PortInv, Pending, Same
    <2> QED  BY <2>1, <2>2, <2>3 DEF PortInv, Same
  <1> QED  BY <1>4, <1>5, <1>6, <1>7 DEF OperationsInv

\* A worker that is at a completion moves on, and with it the completion is
\* not pending any more.
LEMMA WorkerStepOperations ==
  ASSUME WindowsTypes, OperationsInv, NEW w \in Workers,
         \/ Windows!LoopTest(w) \/ Windows!ProcessCompletion(w)
         \/ Windows!CallbackCloses(w) \/ Windows!CallbackReadsAgain(w)
         \/ Windows!CallbackReturns(w) \/ Windows!FinishCompletion(w)
  PROVE  OperationsInv'
  <1>0. /\ DOMAIN contexts = Sockets
        /\ \A t \in Sockets : Windows!Registered(t) => contexts[t] \in Windows!ContextType
        /\ Windows!Workers = Workers /\ DOMAIN worker = Workers /\ DOMAIN hand = Workers
        /\ WorkersInv /\ UNCHANGED <<port, lastId>>
    BY WindowsConstants
    DEF WindowsTypes, Windows!TypeOK, Windows!LoopTest, Windows!ProcessCompletion,
        Windows!CallbackCloses, Windows!CallbackReadsAgain, Windows!CallbackReturns,
        Windows!FinishCompletion, Windows!sockVars, Windows!ioVars
  <1>1. \A v \in Workers : Pending(v)' => Pending(v) /\ hand'[v] = hand[v]
    <2>1. ASSUME NEW to, to # "lock", Windows!Goes(w, to),
                 hand' = hand \/ hand' = [hand EXCEPT ![w] = Windows!Nothing]
          PROVE  \A v \in Workers : Pending(v)' => Pending(v) /\ hand'[v] = hand[v]
      BY <1>0, <2>1 DEF Pending, Windows!Goes
    <2>2. ASSUME Windows!Done(w)
          PROVE  \A v \in Workers : Pending(v)' => Pending(v) /\ hand'[v] = hand[v]
      BY <1>0, <2>2 DEF Windows!Done, Pending, Windows!Goes
    <2>3. CASE Windows!ProcessCompletion(w)
      BY <2>1, <2>2, <2>3 DEF Windows!ProcessCompletion, Windows!StartCompletion
    <2>4. CASE Windows!LoopTest(w) \/ Windows!CallbackCloses(w) \/ Windows!CallbackReadsAgain(w)
                 \/ Windows!CallbackReturns(w)
      BY <2>1, <2>4 DEF Windows!LoopTest, Windows!CallbackCloses, Windows!CallbackReadsAgain,
         Windows!CallbackReturns
    <2>5. CASE Windows!FinishCompletion(w)
      BY <2>2, <2>5 DEF Windows!FinishCompletion
    <2> QED  BY <2>3, <2>4, <2>5
  <1>2. CASE UNCHANGED <<contexts, inFlight>>
    BY <1>0, <1>1, <1>2, OperationsOnceQuiet DEF MarksStay
  <1>3. CASE Windows!ProcessCompletion(w) /\ ~UNCHANGED <<contexts, inFlight>>
    <2> DEFINE s == hand[w].socket
               n == hand[w].bytes
               c == contexts[s]
               event == CASE n = 0 -> c
                          [] n > 0 /\ hand[w].kind = "read" -> Windows!Received(c, n)
                          [] n > 0 /\ hand[w].kind = "write" -> Windows!Sent(c, n)
    <2>1. /\ hand[w] \in Windows!Completions /\ s \in Sockets /\ n \in Nat
          /\ hand[w].kind \in {"read", "write"}
          /\ hand[w].kind = "read" => n <= BUFFER_SIZE
      BY <1>0, <1>3
      DEF Windows!ProcessCompletion, WorkersInv, Windows!Completions, WindowsTypes, ReadsFit
    <2>2. Windows!Registered(s) /\ Windows!StartCompletion(w)
      BY <1>3 DEF Windows!ProcessCompletion
    <2>3. c \in Windows!ContextType
      BY <1>0, <2>1, <2>2
    <2>4. /\ event \in Windows!ContextType
          /\ event.id = c.id /\ event.reading = c.reading /\ event.writing = c.writing
      <3>1. ASSUME hand[w].kind = "read"
            PROVE  LET d == Windows!Received(c, n)
                   IN  /\ d \in Windows!ContextType
                       /\ d.id = c.id /\ d.reading = c.reading /\ d.writing = c.writing
        <4>1. BUFFER_SIZE - n \in Nat
          BY <2>1, <3>1, WindowsConstants
        <4> HIDE DEF c, n
        <4> QED  BY <2>3, <4>1 DEF Windows!Received, Windows!ContextType
      <3>2. LET d == Windows!Sent(c, n)
            IN  /\ d \in Windows!ContextType
                /\ d.id = c.id /\ d.reading = c.reading /\ d.writing = c.writing
        <4> HIDE DEF c
        <4> QED  BY <2>1, <2>3 DEF Windows!Sent, Windows!ContextType
      <3> HIDE DEF c
      <3>3. CASE n = 0
        BY <2>3, <3>3
      <3>4. CASE n # 0
        <4>1. n > 0
          BY <2>1, <3>4
        <4> HIDE DEF n
        <4> QED  BY <2>1, <3>1, <3>2, <3>4, <4>1
      <3> QED  BY <3>3, <3>4
    <2>5. \/ Windows!PostWrite(s, event)
          \/ contexts' = [contexts EXCEPT ![s] = event] /\ UNCHANGED inFlight
      BY <2>2 DEF Windows!StartCompletion
    <2>6. CASE Windows!PostWrite(s, event)
      <3> HIDE DEF event
      <3> QED  BY <1>0, <1>1, <2>1, <2>2, <2>4, <2>6, PostingGuarded
    <2>7. CASE contexts' = [contexts EXCEPT ![s] = event] /\ UNCHANGED inFlight
      <3> HIDE DEF event
      <3>1. MarksStay
        BY <1>0, <2>1, <2>4, <2>7 DEF MarksStay
      <3> QED  BY <1>0, <1>1, <2>7, <3>1, OperationsOnceQuiet
    <2> QED  BY <2>5, <2>6, <2>7
  <1>4. ASSUME worker[w] \in {"call", "finish"},
               Windows!PostRead(hand[w].socket, contexts[hand[w].socket])
        PROVE  OperationsInv'
    <2>1. hand[w].socket \in Sockets /\ Windows!Registered(hand[w].socket)
      BY <1>0, <1>4 DEF WorkersInv, Windows!Completions
    <2>2. PICK c \in Windows!ContextType : c = contexts[hand[w].socket]
      BY <1>0, <2>1
    <2> QED  BY <1>0, <1>1, <1>4, <2>1, <2>2, PostingGuarded
  <1>5. CASE Windows!CallbackReadsAgain(w) /\ ~UNCHANGED <<contexts, inFlight>>
    BY <1>4, <1>5 DEF Windows!CallbackReadsAgain
  <1>6. CASE Windows!FinishCompletion(w) /\ ~UNCHANGED <<contexts, inFlight>>
    <2> DEFINE s == hand[w].socket
    <2>1. s \in Sockets /\ contexts[s] \in Windows!ContextType
      BY <1>0, <1>6 DEF Windows!FinishCompletion, WorkersInv, Windows!Completions
    <2>2. CASE Windows!PostRead(s, contexts[s])
      BY <1>4, <1>6, <2>2 DEF Windows!FinishCompletion
    <2>3. CASE contexts' = [contexts EXCEPT ![s] = Windows!NoContext] /\ UNCHANGED inFlight
      <3>1. MarksStay
        BY <1>0, <2>1, <2>3 DEF MarksStay, Windows!NoContext
      <3> QED  BY <1>0, <1>1, <2>3, <3>1, OperationsOnceQuiet
    <2>4. CASE /\ contexts' = [contexts EXCEPT ![s].writeBuffer = 0, ![s].writeOffset = 0]
               /\ UNCHANGED inFlight
      <3>1. /\ contexts'[s].id = contexts[s].id
            /\ contexts'[s].reading = contexts[s].reading
            /\ contexts'[s].writing = contexts[s].writing
            /\ \A t \in Sockets : t # s => contexts'[t] = contexts[t]
        BY <1>0, <2>1, <2>4 DEF Windows!ContextType
      <3>2. MarksStay
        BY <3>1 DEF MarksStay
      <3> QED  BY <1>0, <1>1, <2>4, <3>2, OperationsOnceQuiet
    <2> QED  BY <1>6, <2>2, <2>3, <2>4 DEF Windows!FinishCompletion
  <1> QED
    BY <1>2, <1>3, <1>5, <1>6
    DEF Windows!LoopTest, Windows!CallbackCloses, Windows!CallbackReturns,
        Windows!sockVars, Windows!ioVars

\* Starting and stopping post wakeups only, and the end leaves no operation.
LEMMA LifecycleOperations ==
  ASSUME WindowsTypes, OperationsInv,
         \/ Windows!StartEventLoop \/ Windows!StopFlag
         \/ Windows!PostWakeups \/ Windows!CloseAll
  PROVE  OperationsInv'
  <1>1. CASE Windows!StartEventLoop
    <2>1. \A w \in Workers : ~Pending(w)'
      BY <1>1, WindowsConstants DEF Windows!StartEventLoop, Pending
    <2> QED
      BY <1>1, <2>1, OperationsOnceQuiet
      DEF Windows!StartEventLoop, MarksStay, Windows!sockVars, Windows!ioVars
  <1>2. CASE Windows!StopFlag
    BY <1>2, OperationsOnceQuiet
    DEF Windows!StopFlag, MarksStay, Windows!sockVars, Windows!ioVars, Windows!threadVars, Pending
  <1>3. CASE Windows!PostWakeups
    <2>1. /\ Len(port) \in Nat /\ Len(port') \in Nat /\ Len(port') >= Len(port)
          /\ \A i \in 1..Len(port') :
                port'[i] = IF i <= Len(port) THEN port[i] ELSE Windows!Wake
      BY <1>3, WakeupsAppended DEF WindowsTypes, Windows!TypeOK
    <2>2. \A i \in 1..Len(port') :
             \/ i \in 1..Len(port) /\ port'[i] = port[i]
             \/ port'[i] = Windows!Wake
      <3>1. TAKE i \in 1..Len(port')
      <3>2. CASE i <= Len(port)
        BY <2>1, <3>2
      <3>3. CASE ~(i <= Len(port))
        BY <2>1, <3>3
      <3> QED  BY <3>2, <3>3
    <2>3. UNCHANGED <<contexts, lastId, inFlight, worker, hand>>
      BY <1>3 DEF Windows!PostWakeups, Windows!sockVars, Windows!threadVars
    <2>4. NumbersInv' /\ MarksInv'
      BY <2>2, <2>3 DEF OperationsInv, NumbersInv, MarksInv, Marked, Pending
    <2>5. KernelInv'
      BY <2>2, <2>3, PlacesTyped DEF OperationsInv, KernelInv, Same, Pending
    <2>6. PortInv'
      BY <2>2, <2>3, PlacesTyped DEF OperationsInv, PortInv, Same, Pending
    <2> QED  BY <2>4, <2>5, <2>6 DEF OperationsInv
  <1>4. CASE Windows!CloseAll
    <2>1. /\ inFlight' = {} /\ Len(port') = 0 /\ lastId' = lastId
          /\ \A s \in Sockets : contexts'[s].id = 0
          /\ \A w \in Workers : ~Pending(w)'
      BY <1>4, WindowsConstants
      DEF Windows!CloseAll, Windows!Joined, Windows!NoContext, Windows!threadVars, Pending
    <2> QED
      BY <2>1, PlacesTyped
      DEF OperationsInv, NumbersInv, MarksInv, KernelInv, PortInv
  <1> QED  BY <1>1, <1>2, <1>3, <1>4

\* What the places say, taken together: two operations of one kind of a context
\* are one and the same.
LEMMA PlacesAreOne ==
  ASSUME WindowsTypes, OperationsInv
  PROVE  Windows!OneOperationPerDirection
  <1> SUFFICES ASSUME NEW id \in 1..lastId, NEW kind \in {"read", "write"},
                      NEW a \in Windows!Outstanding(kind, id),
                      NEW b \in Windows!Outstanding(kind, id)
               PROVE  a = b
    BY DEF Windows!OneOperationPerDirection
  <1> DEFINE Of(x) == x.kind = kind /\ x.id = id
             InKernel(x) == \E op \in inFlight : Of(op) /\ x = <<"kernel", op>>
             InPort(x) == \E i \in 1..Len(port) : Of(port[i]) /\ x = <<"port", i>>
             InHand(x) == \E w \in Workers : Pending(w) /\ Of(hand[w]) /\ x = <<"hand", w>>
  <1>1. /\ InKernel(a) \/ InPort(a) \/ InHand(a)
        /\ InKernel(b) \/ InPort(b) \/ InHand(b)
    BY WindowsConstants DEF Windows!Outstanding, Pending
  <1>2. \A i \in 1..Len(port) : Of(port[i]) => port[i] # Windows!Wake
    BY PlacesTyped
  <1>3. CASE InKernel(a)
    BY <1>1, <1>3 DEF OperationsInv, KernelInv, Same
  <1>4. CASE InKernel(b)
    BY <1>1, <1>4 DEF OperationsInv, KernelInv, Same
  <1>5. CASE InPort(a) /\ ~InKernel(b)
    BY <1>1, <1>2, <1>5 DEF OperationsInv, PortInv, Same
  <1>6. CASE InHand(a) /\ ~InKernel(b)
    BY <1>1, <1>6 DEF OperationsInv, PortInv, Same
  <1> QED  BY <1>1, <1>3, <1>4, <1>5, <1>6

-----------------------------------------------------------------------------
(* WindowsIOCP: the context of a callback                                  *)

\* No step of the server, of the kernel or of another worker touches it: they
\* lock contextsMutex_ first, and shutdown() joins.
LEMMA CallbackKeepsContext ==
  ASSUME WindowsTypes, NEW v \in Workers,
         worker[v] \in {"call", "finish"}, worker'[v] \in {"call", "finish"},
         \/ \E s \in Sockets :
               \/ Windows!AddSocket(s) \/ Windows!RemoveSocket(s) \/ Windows!AsyncRead(s)
               \/ \E n \in DataSizes : Windows!AsyncWrite(s, n)
         \/ Windows!KernelStep
         \/ \E w \in Workers : Windows!WorkerStep(w)
         \/ Windows!StartEventLoop \/ Windows!StopFlag
         \/ Windows!PostWakeups \/ Windows!CloseAll
  PROVE  contexts'[hand[v].socket].id = contexts[hand[v].socket].id
  <1>0. Windows!TypeOK /\ WorkersInv /\ DOMAIN worker = Workers
    BY WindowsConstants DEF WindowsTypes, Windows!TypeOK
  <1>1. /\ mutex = v /\ mutex # Windows!Free
        /\ hand[v].socket \in Sockets /\ contexts[hand[v].socket] \in Windows!ContextType
    BY <1>0, WindowsConstants DEF WorkersInv, Windows!Completions, Windows!TypeOK
  <1>2. CASE \E s \in Sockets :
               \/ Windows!AddSocket(s) \/ Windows!RemoveSocket(s) \/ Windows!AsyncRead(s)
               \/ \E n \in DataSizes : Windows!AsyncWrite(s, n)
    BY <1>1, <1>2 DEF Windows!AddSocket, Windows!RemoveSocket, Windows!AsyncRead,
       Windows!AsyncWrite
  <1>3. CASE Windows!KernelStep
    BY <1>3 DEF Windows!KernelStep, Windows!Complete, Windows!sockVars
  <1>4. CASE Windows!StartEventLoop \/ Windows!StopFlag \/ Windows!PostWakeups
    BY <1>4 DEF Windows!StartEventLoop, Windows!StopFlag, Windows!PostWakeups, Windows!sockVars
  <1>5. CASE Windows!CloseAll
    BY <1>1, <1>5 DEF Windows!CloseAll
  <1>6. ASSUME NEW w \in Workers, Windows!WorkerStep(w)
        PROVE  contexts'[hand[v].socket].id = contexts[hand[v].socket].id
    <2>1. CASE Windows!LoopTest(w) \/ Windows!Dequeue(w) \/ Windows!CallbackCloses(w)
                 \/ Windows!CallbackReturns(w)
      BY <2>1 DEF Windows!LoopTest, Windows!Dequeue, Windows!CallbackCloses,
         Windows!CallbackReturns, Windows!sockVars
    <2>2. CASE Windows!ProcessCompletion(w)
      BY <1>1, <2>2 DEF Windows!ProcessCompletion
    <2>3. CASE Windows!CallbackReadsAgain(w)
      <3>1. w = v
        BY <1>0, <1>1, <2>3 DEF Windows!CallbackReadsAgain, WorkersInv
      <3>2. CASE UNCHANGED contexts
        BY <3>2
      <3>3. CASE Windows!PostRead(hand[v].socket, contexts[hand[v].socket])
        <4>1. ReadsFit
          BY DEF WindowsTypes
        <4> QED  BY <1>0, <1>1, <3>3, <4>1, PostedTypes
      <3> QED  BY <2>3, <3>1, <3>2, <3>3 DEF Windows!CallbackReadsAgain
    <2>4. CASE Windows!FinishCompletion(w)
      <3>1. w = v
        BY <1>0, <1>1, <2>4 DEF Windows!FinishCompletion, WorkersInv
      <3>2. worker'[v] = "test"
        BY <1>0, <2>4, <3>1 DEF Windows!FinishCompletion, Windows!Done, Windows!Goes
      <3> QED  BY <3>2
    <2> QED  BY <1>6, <2>1, <2>2, <2>3, <2>4 DEF Windows!WorkerStep
  <1> QED  BY <1>2, <1>3, <1>4, <1>5, <1>6

-----------------------------------------------------------------------------
(* LinuxEpoll: the types                                                   *)

\* What the assumptions say of the constants of LinuxEpoll.
LEMMA LinuxConstants ==
  DataSizes \in SUBSET (Nat \ {0}) /\ MaxContexts \in Nat
  BY PlatformsAssumption DEF Linux!EpollAssumption

\* The stages that are still to come have a first one.
LEMMA StagesOrdered ==
  ASSUME NEW i \in 1..4, NEW e
  PROVE  Linux!StageFrom(i, e) \in {"idle", "in", "out", "hup"}
  <1> DEFINE asked == {j \in i..3 : Linux!Stages[j] \in e.flags}
  <1>1. asked \in SUBSET {1, 2, 3}
    OBVIOUS
  <1>2. Linux!Stages[1] = "in" /\ Linux!Stages[2] = "out" /\ Linux!Stages[3] = "hup"
    BY DEF Linux!Stages
  <1>3. CASE asked = {}
    BY <1>3 DEF Linux!StageFrom
  <1>4. CASE asked # {}
    <2> HIDE DEF asked
    <2>1. \E j \in asked : \A k \in asked : j <= k
      <3>1. CASE 1 \in asked
        BY <1>1, <3>1
      <3>2. CASE 1 \notin asked /\ 2 \in asked
        BY <1>1, <3>2
      <3>3. CASE 1 \notin asked /\ 2 \notin asked
        <4>1. asked = {3}
          BY <1>1, <1>4, <3>3
        <4> QED  BY <4>1
      <3> QED  BY <3>1, <3>2, <3>3
    <2>2. (CHOOSE j \in asked : \A k \in asked : j <= k) \in asked
      BY <2>1
    <2>3. (CHOOSE j \in asked : \A k \in asked : j <= k) \in {1, 2, 3}
      BY <1>1, <2>2
    <2>4. Linux!StageFrom(i, e) = Linux!Stages[CHOOSE j \in asked : \A k \in asked : j <= k]
      BY <1>4 DEF Linux!StageFrom, asked
    <2> QED  BY <1>2, <2>3, <2>4
  <1> QED  BY <1>3, <1>4

\* A poller that goes to the next branch of its event keeps the types.
LEMMA AdvanceTypes ==
  ASSUME Linux!TypeOK, NEW p \in Pollers, NEW i \in 1..4, Linux!Advance(p, i)
  PROVE  /\ stage' \in [Pollers -> {"idle", "in", "out", "hup"}]
         /\ held' \in [Pollers -> Linux!ContextType \cup {Linux!NoContext}]
         /\ current' \in [Pollers -> Linux!Events \cup {Linux!NoEvent}]
  <1>1. Linux!StageFrom(i, current[p]) \in {"idle", "in", "out", "hup"}
    BY StagesOrdered
  <1>2. PICK next \in {"idle", "in", "out", "hup"} : next = Linux!StageFrom(i, current[p])
    BY <1>1
  <1>3. /\ stage' = [stage EXCEPT ![p] = next]
        /\ held' = [held EXCEPT ![p] = IF next = "idle" THEN Linux!NoContext ELSE @]
        /\ current' = [current EXCEPT ![p] = IF next = "idle" THEN Linux!NoEvent ELSE @]
    BY <1>2 DEF Linux!Advance
  <1> QED  BY <1>2, <1>3 DEF Linux!TypeOK

\* The read that a callback asks for changes the context of its socket only.
LEMMA ReadAgainTypes ==
  ASSUME Linux!TypeOK, NEW s, Linux!ReadAgain(s) \/ UNCHANGED contexts
  PROVE  /\ DOMAIN contexts' = Sockets
         /\ \A t \in Sockets : Linux!Registered(t)' => contexts'[t] \in Linux!ContextType
         /\ \A t \in Sockets : contexts'[t].id = contexts[t].id
  <1>1. CASE UNCHANGED contexts
    BY <1>1 DEF Linux!TypeOK, Linux!Registered
  <1>2. CASE contexts' = [contexts EXCEPT ![s].callback = "receive"] /\ Linux!Registered(s)
    BY <1>2 DEF Linux!TypeOK, Linux!Registered, Linux!ContextType
  <1> QED  BY <1>1, <1>2 DEF Linux!ReadAgain

\* The calls of the server keep the types of LinuxEpoll.
LEMMA EpollCallTypes ==
  ASSUME Linux!TypeOK, NEW s \in Sockets,
         \/ Linux!AddSocket(s) \/ Linux!RemoveSocket(s) \/ Linux!AsyncRead(s)
         \/ \E n \in DataSizes : Linux!AsyncWrite(s, n)
         \/ \E events \in {{"in"}, {"in", "out"}} : Linux!ModifySocket(s, events)
         \/ Linux!CallEnds
  PROVE  Linux!TypeOK'
  <1> USE DEF Linux!pollVars
  <1>1. CASE Linux!AddSocket(s)
    <2>1. lastId' \in 1..MaxContexts
      BY <1>1, LinuxConstants DEF Linux!AddSocket, Linux!TypeOK
    <2> QED
      BY <1>1, <2>1 DEF Linux!AddSocket, Linux!TypeOK, Linux!Registered, Linux!Calls
  <1>2. CASE Linux!RemoveSocket(s)
    BY <1>2 DEF Linux!RemoveSocket, Linux!TypeOK, Linux!Registered, Linux!Calls, Linux!sockVars
  <1>3. CASE Linux!AsyncRead(s)
    BY <1>3 DEF Linux!AsyncRead, Linux!TypeOK, Linux!Registered, Linux!ContextType
  <1>4. ASSUME NEW n \in DataSizes, Linux!AsyncWrite(s, n) PROVE Linux!TypeOK'
    BY <1>4, LinuxConstants
    DEF Linux!AsyncWrite, Linux!TypeOK, Linux!Registered, Linux!ContextType
  <1>5. ASSUME NEW events \in {{"in"}, {"in", "out"}}, Linux!ModifySocket(s, events)
        PROVE  Linux!TypeOK'
    <2>1. events \cup {"hup"} \in SUBSET {"in", "out", "hup"}
      BY <1>5
    <2> QED
      BY <1>5, <2>1 DEF Linux!ModifySocket, Linux!TypeOK, Linux!Registered, Linux!sockVars
  <1>6. ASSUME NEW c \in calls, Linux!SaveContext(c) PROVE Linux!TypeOK'
    <2>1. c \in [kind : {"add"}, socket : Sockets, id : 1..MaxContexts]
      BY <1>6 DEF Linux!SaveContext, Linux!TypeOK, Linux!Calls
    <2>2. Linux!NewContext(c.id) \in Linux!ContextType
      BY <2>1 DEF Linux!NewContext, Linux!ContextType
    <2>3. /\ DOMAIN contexts' = Sockets
          /\ \A t \in Sockets : Linux!Registered(t)' => contexts'[t] \in Linux!ContextType
      BY <1>6, <2>2 DEF Linux!SaveContext, Linux!TypeOK, Linux!Registered
    <2> QED  BY <1>6, <2>3 DEF Linux!SaveContext, Linux!TypeOK
  <1>7. ASSUME NEW c \in calls, Linux!EraseContext(c) PROVE Linux!TypeOK'
    <2>1. c.socket \in Sockets
      BY <1>7 DEF Linux!TypeOK, Linux!Calls
    <2>2. /\ DOMAIN contexts' = Sockets
          /\ \A t \in Sockets : Linux!Registered(t)' => contexts'[t] \in Linux!ContextType
      BY <1>7 DEF Linux!EraseContext, Linux!TypeOK, Linux!Registered
    <2> QED  BY <1>7, <2>1, <2>2 DEF Linux!EraseContext, Linux!TypeOK
  <1> QED  BY <1>1, <1>2, <1>3, <1>4, <1>5, <1>6, <1>7 DEF Linux!CallEnds

\* processEvents() keeps the types.
LEMMA PollerTypes ==
  ASSUME Linux!TypeOK, NEW p \in Pollers, Linux!PollerStep(p)
  PROVE  Linux!TypeOK'
  <1>1. ASSUME NEW e \in batch[p], Linux!Take(p, e) PROVE Linux!TypeOK'
    <2>1. /\ e \in Linux!Events /\ e.socket \in Sockets
          /\ batch' \in [Pollers -> SUBSET Linux!Events]
      BY <1>1 DEF Linux!Take, Linux!TypeOK, Linux!Events
    <2>2. CASE UNCHANGED <<contexts, held, current, stage>>
      BY <1>1, <2>1, <2>2 DEF Linux!Take, Linux!TypeOK, Linux!Registered
    <2>3. CASE /\ Linux!Registered(e.socket)
               /\ held' = [held EXCEPT ![p] = contexts[e.socket]]
               /\ contexts' = Linux!Taken(e.socket)
               /\ current' = [current EXCEPT ![p] = e]
               /\ stage' = [stage EXCEPT ![p] = Linux!StageFrom(1, e)]
      <3>1. Linux!StageFrom(1, e) \in {"idle", "in", "out", "hup"}
        BY StagesOrdered
      <3>2. /\ stage' \in [Pollers -> {"idle", "in", "out", "hup"}]
            /\ held' \in [Pollers -> Linux!ContextType \cup {Linux!NoContext}]
            /\ current' \in [Pollers -> Linux!Events \cup {Linux!NoEvent}]
        BY <2>1, <2>3, <3>1 DEF Linux!TypeOK
      <3>3. /\ DOMAIN contexts' = Sockets
            /\ \A t \in Sockets : Linux!Registered(t)' => contexts'[t] \in Linux!ContextType
        BY <2>1, <2>3 DEF Linux!Taken, Linux!TypeOK, Linux!Registered
      <3> QED  BY <1>1, <2>1, <3>2, <3>3 DEF Linux!Take, Linux!TypeOK
    <2> QED  BY <1>1, <2>2, <2>3 DEF Linux!Take
  <1>2. ASSUME NEW i \in 1..4, Linux!Advance(p, i),
               NEW s, Linux!ReadAgain(s) \/ UNCHANGED contexts,
               UNCHANGED <<open, interest>> \/ Linux!CloseBy(s),
               UNCHANGED <<lastId, running, calls, batch>>
        PROVE  Linux!TypeOK'
    <2>1. /\ stage' \in [Pollers -> {"idle", "in", "out", "hup"}]
          /\ held' \in [Pollers -> Linux!ContextType \cup {Linux!NoContext}]
          /\ current' \in [Pollers -> Linux!Events \cup {Linux!NoEvent}]
      BY <1>2, AdvanceTypes
    <2>2. /\ DOMAIN contexts' = Sockets
          /\ \A t \in Sockets : Linux!Registered(t)' => contexts'[t] \in Linux!ContextType
      BY <1>2, ReadAgainTypes
    <2>3. open' \in SUBSET Sockets /\ interest' \in [Sockets -> SUBSET {"in", "out", "hup"}]
      BY <1>2 DEF Linux!CloseBy, Linux!TypeOK
    <2> QED  BY <1>2, <2>1, <2>2, <2>3 DEF Linux!TypeOK
  <1>3. CASE Linux!HandleRead(p)
    BY <1>2, <1>3 DEF Linux!HandleRead
  <1>4. CASE Linux!HandleWrite(p)
    BY <1>2, <1>4 DEF Linux!HandleWrite
  <1>5. CASE Linux!HandleHangUp(p)
    BY <1>2, <1>5 DEF Linux!HandleHangUp
  <1> QED  BY <1>1, <1>3, <1>4, <1>5 DEF Linux!PollerStep

\* The kernel, starting, stopping and the end keep the types of LinuxEpoll.
LEMMA EpollOtherTypes ==
  ASSUME Linux!TypeOK,
         Linux!KernelStep \/ Linux!StartEventLoop \/ Linux!StopEventLoop \/ Linux!CloseAll
  PROVE  Linux!TypeOK'
  <1> USE DEF Linux!pollVars, Linux!sockVars
  <1>1. ASSUME NEW p \in Pollers, NEW e \in Linux!Events, NEW f \in Linux!Events,
               Linux!Report(p, e, f)
        PROVE  Linux!TypeOK'
    BY <1>1 DEF Linux!Report, Linux!TypeOK, Linux!Registered
  <1>2. CASE Linux!StartEventLoop \/ Linux!StopEventLoop
    BY <1>2 DEF Linux!StartEventLoop, Linux!StopEventLoop, Linux!TypeOK, Linux!Registered
  <1>3. CASE Linux!CloseAll
    BY <1>3 DEF Linux!CloseAll, Linux!TypeOK, Linux!Registered
  <1> QED  BY <1>1, <1>2, <1>3 DEF Linux!KernelStep

-----------------------------------------------------------------------------
(* LinuxEpoll: the places of a context                                     *)

\* Where contexts only change in place or disappear, they stay where they are.
LEMMA PlacesOnceQuiet ==
  ASSUME Linux!TypeOK, PlacesInv, Linux!OnePollerPerContext,
         \A s \in Sockets : contexts'[s].id \in {0, contexts[s].id},
         \A p \in Pollers : held'[p] \in {Linux!NoContext, held[p]},
         \A c \in calls' : c.kind = "add" => c \in calls,
         lastId' = lastId
  PROVE  PlacesInv' /\ Linux!OnePollerPerContext'
  <1>1. /\ lastId \in Nat /\ Linux!NoContext.id = 0
        /\ \A p \in Pollers : held[p].id \in Nat /\ (held[p] # Linux!NoContext => held[p].id # 0)
        /\ \A c \in calls : c.kind = "add" => c.id \in Nat \ {0}
    BY LinuxConstants DEF Linux!TypeOK, Linux!ContextType, Linux!NoContext, Linux!Calls
  <1>2. \A s \in Sockets : contexts[s].id \in Nat
    BY LinuxConstants DEF Linux!TypeOK, Linux!ContextType, Linux!NoContext, Linux!Registered
  <1>3. PlacesInv'
    BY <1>1, <1>2 DEF PlacesInv
  <1>4. Linux!OnePollerPerContext'
    BY <1>1, <1>2 DEF Linux!OnePollerPerContext
  <1> QED  BY <1>3, <1>4

\* The calls of the server put no context in two places: addSocket() makes a
\* new one, and removeSocket() takes one from the table.
LEMMA EpollCallPlaces ==
  ASSUME Linux!TypeOK, PlacesInv, Linux!OnePollerPerContext, NEW s \in Sockets,
         \/ Linux!AddSocket(s) \/ Linux!RemoveSocket(s) \/ Linux!AsyncRead(s)
         \/ \E n \in DataSizes : Linux!AsyncWrite(s, n)
         \/ \E events \in {{"in"}, {"in", "out"}} : Linux!ModifySocket(s, events)
         \/ Linux!CallEnds
  PROVE  PlacesInv' /\ Linux!OnePollerPerContext'
  <1> USE DEF Linux!pollVars, Linux!sockVars
  <1>1. /\ lastId \in Nat /\ Linux!NoContext.id = 0
        /\ \A p \in Pollers : held[p].id \in Nat /\ (held[p] # Linux!NoContext => held[p].id # 0)
        /\ \A c \in calls : c.socket \in Sockets /\ (c.kind = "add" => c.id \in Nat \ {0})
        /\ DOMAIN contexts = Sockets
    BY LinuxConstants DEF Linux!TypeOK, Linux!ContextType, Linux!NoContext, Linux!Calls
  <1>2. \A t \in Sockets : contexts[t].id \in Nat
    BY LinuxConstants DEF Linux!TypeOK, Linux!ContextType, Linux!NoContext, Linux!Registered
  <1>3. CASE Linux!AddSocket(s)
    <2>1. PICK c : c = [kind |-> "add", socket |-> s, id |-> lastId + 1]
      OBVIOUS
    <2>2. /\ UNCHANGED <<contexts, held>> /\ lastId' = lastId + 1
          /\ calls' = calls \cup {c} /\ c.id = lastId + 1
      BY <1>3, <2>1 DEF Linux!AddSocket
    <2>3. PlacesInv'
      BY <1>1, <1>2, <2>2 DEF PlacesInv
    <2> QED  BY <2>2, <2>3 DEF Linux!OnePollerPerContext
  <1>4. CASE Linux!RemoveSocket(s)
    <2>1. \A c \in calls' : c.kind = "add" => c \in calls
      BY <1>4 DEF Linux!RemoveSocket
    <2> QED  BY <1>4, <2>1, PlacesOnceQuiet DEF Linux!RemoveSocket
  <1>5. CASE Linux!AsyncRead(s) \/ \E n \in DataSizes : Linux!AsyncWrite(s, n)
    <2>1. \A t \in Sockets : contexts'[t].id \in {0, contexts[t].id}
      BY <1>1, <1>5 DEF Linux!AsyncRead, Linux!AsyncWrite, Linux!TypeOK, Linux!ContextType
    <2> QED  BY <1>5, <2>1, PlacesOnceQuiet DEF Linux!AsyncRead, Linux!AsyncWrite
  <1>6. CASE \E events \in {{"in"}, {"in", "out"}} : Linux!ModifySocket(s, events)
    BY <1>6, PlacesOnceQuiet DEF Linux!ModifySocket
  <1>7. ASSUME NEW c \in calls, Linux!SaveContext(c)
        PROVE  PlacesInv' /\ Linux!OnePollerPerContext'
    <2>1. /\ c.kind = "add" /\ UNCHANGED <<lastId, held>> /\ calls' = calls \ {c}
          /\ contexts'[c.socket].id = c.id
          /\ \A t \in Sockets : t # c.socket => contexts'[t] = contexts[t]
      BY <1>1, <1>7 DEF Linux!SaveContext, Linux!NewContext
    <2>2. PlacesInv'
      BY <1>1, <1>2, <2>1 DEF PlacesInv
    <2>3. Linux!OnePollerPerContext'
      BY <1>1, <1>2, <2>1 DEF PlacesInv, Linux!OnePollerPerContext
    <2> QED  BY <2>2, <2>3
  <1>8. ASSUME NEW c \in calls, Linux!EraseContext(c)
        PROVE  PlacesInv' /\ Linux!OnePollerPerContext'
    BY <1>1, <1>8, PlacesOnceQuiet DEF Linux!EraseContext
  <1> QED  BY <1>3, <1>4, <1>5, <1>6, <1>7, <1>8 DEF Linux!CallEnds

\* A poller takes the context out of the table before it calls back.
LEMMA PollerPlaces ==
  ASSUME Linux!TypeOK, PlacesInv, Linux!OnePollerPerContext, NEW p \in Pollers,
         Linux!PollerStep(p)
  PROVE  PlacesInv' /\ Linux!OnePollerPerContext'
  <1>1. /\ lastId \in Nat /\ Linux!NoContext.id = 0
        /\ \A q \in Pollers : held[q].id \in Nat /\ (held[q] # Linux!NoContext => held[q].id # 0)
        /\ \A c \in calls : c.kind = "add" => c.id \in Nat \ {0}
        /\ DOMAIN contexts = Sockets /\ DOMAIN held = Pollers
    BY LinuxConstants DEF Linux!TypeOK, Linux!ContextType, Linux!NoContext, Linux!Calls
  <1>2. \A t \in Sockets : /\ contexts[t].id \in Nat
                           /\ Linux!Registered(t) => contexts[t].id # 0
    BY LinuxConstants DEF Linux!TypeOK, Linux!ContextType, Linux!NoContext, Linux!Registered
  <1>3. ASSUME NEW e \in batch[p], Linux!Take(p, e)
        PROVE  PlacesInv' /\ Linux!OnePollerPerContext'
    <2>1. e.socket \in Sockets
      BY <1>3 DEF Linux!TypeOK, Linux!Events
    <2>2. CASE UNCHANGED <<contexts, held>>
      BY <1>1, <1>3, <2>2, PlacesOnceQuiet DEF Linux!Take
    <2>3. CASE /\ Linux!Registered(e.socket)
               /\ held' = [held EXCEPT ![p] = contexts[e.socket]]
               /\ contexts' = Linux!Taken(e.socket)
      <3>1. /\ UNCHANGED <<lastId, calls>>
            /\ held'[p].id = contexts[e.socket].id
            /\ \A q \in Pollers : q # p => held'[q] = held[q]
            /\ contexts'[e.socket].id = 0 /\ contexts[e.socket].id # 0
            /\ \A t \in Sockets : t # e.socket => contexts'[t] = contexts[t]
        BY <1>1, <1>2, <1>3, <2>1, <2>3 DEF Linux!Take, Linux!Taken
      <3>2. PlacesInv'
        BY <1>1, <1>2, <2>1, <3>1 DEF PlacesInv
      <3>3. Linux!OnePollerPerContext'
        BY <1>1, <1>2, <2>1, <3>1 DEF PlacesInv, Linux!OnePollerPerContext
      <3> QED  BY <3>2, <3>3
    <2> QED  BY <1>3, <2>2, <2>3 DEF Linux!Take
  <1>4. ASSUME NEW i, Linux!Advance(p, i),
               NEW s, Linux!ReadAgain(s) \/ UNCHANGED contexts,
               UNCHANGED <<lastId, calls>>
        PROVE  PlacesInv' /\ Linux!OnePollerPerContext'
    <2>1. \A q \in Pollers : held'[q] \in {Linux!NoContext, held[q]}
      BY <1>1, <1>4 DEF Linux!Advance
    <2>2. \A t \in Sockets : contexts'[t].id = contexts[t].id
      BY <1>4, ReadAgainTypes
    <2> QED  BY <1>4, <2>1, <2>2, PlacesOnceQuiet
  <1>5. CASE Linux!HandleRead(p) \/ Linux!HandleWrite(p) \/ Linux!HandleHangUp(p)
    BY <1>4, <1>5 DEF Linux!HandleRead, Linux!HandleWrite, Linux!HandleHangUp
  <1> QED  BY <1>3, <1>5 DEF Linux!PollerStep

\* The kernel, starting, stopping and the end move no context to a second place.
LEMMA EpollOtherPlaces ==
  ASSUME Linux!TypeOK, PlacesInv, Linux!OnePollerPerContext,
         Linux!KernelStep \/ Linux!StartEventLoop \/ Linux!StopEventLoop \/ Linux!CloseAll
  PROVE  PlacesInv' /\ Linux!OnePollerPerContext'
  <1> USE DEF Linux!pollVars, Linux!sockVars
  <1>1. CASE Linux!KernelStep \/ Linux!StartEventLoop \/ Linux!StopEventLoop
    BY <1>1, PlacesOnceQuiet
    DEF Linux!KernelStep, Linux!Report, Linux!StartEventLoop, Linux!StopEventLoop
  <1>2. CASE Linux!CloseAll
    <2>1. \A s \in Sockets : contexts'[s].id = 0
      BY <1>2 DEF Linux!CloseAll, Linux!NoContext
    <2> QED  BY <1>2, <2>1, PlacesOnceQuiet DEF Linux!CloseAll
  <1> QED  BY <1>1, <1>2

-----------------------------------------------------------------------------
(* The manager and its back end                                            *)

\* What a step of the manager does to WindowsIOCP.
WindowsDoes ==
    \/ \E s \in Sockets :
          \/ Windows!AddSocket(s) \/ Windows!RemoveSocket(s) \/ Windows!AsyncRead(s)
          \/ \E n \in DataSizes : Windows!AsyncWrite(s, n)
    \/ Windows!KernelStep
    \/ \E w \in Workers : Windows!WorkerStep(w)
    \/ Windows!StartEventLoop /\ \A w \in Workers : worker[w] = "none"
    \/ Windows!StopFlag \/ Windows!PostWakeups \/ Windows!CloseAll
    \/ UNCHANGED <<socketVars, windowsVars>>

\* And to LinuxEpoll.
LinuxDoes ==
    \/ \E s \in Sockets :
          \/ Linux!AddSocket(s) \/ Linux!RemoveSocket(s) \/ Linux!AsyncRead(s)
          \/ \E n \in DataSizes : Linux!AsyncWrite(s, n)
          \/ \E events \in {{"in"}, {"in", "out"}} : Linux!ModifySocket(s, events)
    \/ Linux!CallEnds
    \/ \E p \in Pollers : Linux!PollerStep(p)
    \/ Linux!KernelStep
    \/ Linux!StartEventLoop \/ Linux!StopEventLoop \/ Linux!CloseAll
    \/ UNCHANGED <<socketVars, linuxVars>>

\* The back end there is does one of its steps, the other one is not there.
BackendsDo ==
    /\ platform' = platform
    /\ OnWindows => WindowsDoes /\ UNCHANGED linuxVars
    /\ OnLinux => LinuxDoes /\ UNCHANGED windowsVars

\* A call of the server goes to the back end there is.
LEMMA ServerCallIsOfOne ==
  ASSUME ServerCall
  PROVE  BackendsDo
  <1>0. OnWindows => ~OnLinux
    BY DEF OnWindows, OnLinux
  <1>1. PICK s \in Sockets :
          \/ AddClient(s) \/ RemoveClient(s) \/ StartAsyncRead(s)
          \/ \E n \in DataSizes : StartAsyncWrite(s, n)
          \/ \E events \in {{"in"}, {"in", "out"}} : ModifyClient(s, events)
    BY DEF ServerCall
  <1>2. CASE AddClient(s)
    BY <1>0, <1>2 DEF AddClient, managerVars, BackendsDo, WindowsDoes, LinuxDoes
  <1>3. CASE RemoveClient(s)
    BY <1>0, <1>3 DEF RemoveClient, managerVars, BackendsDo, WindowsDoes, LinuxDoes
  <1>4. CASE StartAsyncRead(s)
    BY <1>0, <1>4 DEF StartAsyncRead, managerVars, BackendsDo, WindowsDoes, LinuxDoes
  <1>5. CASE \E n \in DataSizes : StartAsyncWrite(s, n)
    BY <1>0, <1>5 DEF StartAsyncWrite, managerVars, BackendsDo, WindowsDoes, LinuxDoes
  <1>6. CASE \E events \in {{"in"}, {"in", "out"}} : ModifyClient(s, events)
    BY <1>0, <1>6 DEF ModifyClient, managerVars, BackendsDo, WindowsDoes, LinuxDoes
  <1> QED  BY <1>1, <1>2, <1>3, <1>4, <1>5, <1>6

\* So does every step of the manager.
LEMMA NextIsOfOne ==
  ASSUME IOInv, [Next]_vars
  PROVE  BackendsDo
  <1>0. /\ OnWindows => ~OnLinux
        /\ phase = "initialized" => \A w \in Workers : worker[w] = "none"
    BY DEF OnWindows, OnLinux, IOInv, ManagerInv
  <1>1. CASE UNCHANGED vars
    BY <1>1 DEF vars, managerVars, BackendsDo, WindowsDoes, LinuxDoes
  <1>2. CASE ServerCall
    BY <1>2, ServerCallIsOfOne
  <1>3. CASE BackendStep
    BY <1>0, <1>3 DEF BackendStep, managerVars, BackendsDo, WindowsDoes, LinuxDoes
  <1>4. CASE Initialize \/ StartLoopThread \/ ShutdownUnstarted \/ JoinLoop \/ LoopEnds
    BY <1>4 DEF Initialize, StartLoopThread, ShutdownUnstarted, JoinLoop, LoopEnds,
       BackendsDo, WindowsDoes, LinuxDoes
  <1>5. CASE StartEventLoop
    BY <1>0, <1>5 DEF StartEventLoop, Moves, BackendsDo, WindowsDoes, LinuxDoes
  <1>6. CASE StopBackend
    BY <1>0, <1>6 DEF StopBackend, BackendsDo, WindowsDoes, LinuxDoes
  <1>7. CASE StopLoop
    BY <1>0, <1>7 DEF StopLoop, BackendsDo, WindowsDoes, LinuxDoes, socketVars
  <1>8. CASE ShutdownBackend
    BY <1>0, <1>8 DEF ShutdownBackend, BackendsDo, WindowsDoes, LinuxDoes
  <1> QED
    BY <1>1, <1>2, <1>3, <1>4, <1>5, <1>6, <1>7, <1>8
    DEF Next, LifecycleStep, ShutdownStep

\* Every step of WindowsIOCP keeps its part of the invariant.
LEMMA WindowsStep ==
  ASSUME IOInv, OnWindows, WindowsDoes
  PROVE  WindowsTypes' /\ OperationsInv'
  <1>0. WindowsTypes /\ OperationsInv
    BY DEF IOInv
  <1>1. CASE \E s \in Sockets :
               \/ Windows!AddSocket(s) \/ Windows!RemoveSocket(s) \/ Windows!AsyncRead(s)
               \/ \E n \in DataSizes : Windows!AsyncWrite(s, n)
    BY <1>0, <1>1, ServerCallTypes, ServerCallOperations
  <1>2. CASE Windows!KernelStep
    BY <1>0, <1>2, CompleteTypes, CompleteOperations
  <1>3. ASSUME NEW w \in Workers, Windows!WorkerStep(w)
        PROVE  WindowsTypes' /\ OperationsInv'
    <2>1. CASE Windows!Dequeue(w)
      BY <1>0, <2>1, DequeueTypes, DequeueOperations
    <2>2. CASE ~Windows!Dequeue(w)
      BY <1>0, <1>3, <2>2, LifecycleTypes, ProcessTypes, CallbackTypes, FinishTypes,
         WorkerStepOperations DEF Windows!WorkerStep
    <2> QED  BY <2>1, <2>2
  <1>4. CASE \/ Windows!StartEventLoop /\ \A w \in Workers : worker[w] = "none"
             \/ Windows!StopFlag \/ Windows!PostWakeups \/ Windows!CloseAll
    BY <1>0, <1>4, LifecycleTypes, LifecycleOperations
  <1>5. CASE UNCHANGED <<socketVars, windowsVars>>
    BY <1>0, <1>5 DEF socketVars, windowsVars, WindowsTypes, Windows!TypeOK, ReadsFit,
       WorkersInv, Windows!Registered, OperationsInv, NumbersInv, MarksInv, KernelInv,
       PortInv, Pending, Marked, Same
  <1> QED  BY <1>1, <1>2, <1>3, <1>4, <1>5 DEF WindowsDoes

\* Every step of LinuxEpoll keeps its part of the invariant.
LEMMA LinuxStep ==
  ASSUME IOInv, OnLinux, LinuxDoes
  PROVE  Linux!TypeOK' /\ PlacesInv' /\ Linux!OnePollerPerContext'
  <1>0. Linux!TypeOK /\ PlacesInv /\ Linux!OnePollerPerContext
    BY DEF IOInv, TypeOK
  <1>1. CASE \E s \in Sockets :
               \/ Linux!AddSocket(s) \/ Linux!RemoveSocket(s) \/ Linux!AsyncRead(s)
               \/ \E n \in DataSizes : Linux!AsyncWrite(s, n)
               \/ \E events \in {{"in"}, {"in", "out"}} : Linux!ModifySocket(s, events)
    BY <1>0, <1>1, EpollCallTypes, EpollCallPlaces
  <1>2. CASE Linux!CallEnds
    <2>1. PICK s \in Sockets : TRUE
      BY <1>0, <1>2 DEF Linux!CallEnds, Linux!TypeOK, Linux!Calls
    <2> QED  BY <1>0, <1>2, <2>1, EpollCallTypes, EpollCallPlaces
  <1>3. CASE \E p \in Pollers : Linux!PollerStep(p)
    BY <1>0, <1>3, PollerTypes, PollerPlaces
  <1>4. CASE Linux!KernelStep \/ Linux!StartEventLoop \/ Linux!StopEventLoop \/ Linux!CloseAll
    BY <1>0, <1>4, EpollOtherTypes, EpollOtherPlaces
  <1>5. CASE UNCHANGED <<socketVars, linuxVars>>
    BY <1>0, <1>5 DEF socketVars, linuxVars, Linux!TypeOK, Linux!Registered, PlacesInv,
       Linux!OnePollerPerContext
  <1> QED  BY <1>1, <1>2, <1>3, <1>4, <1>5 DEF LinuxDoes

\* The threads of WindowsIOCP start with its event loop and end before it is
\* shut down; nothing the manager or its back end does changes that.
LEMMA ManagerStep ==
  ASSUME IOInv, [Next]_vars
  PROVE  ManagerInv'
  <1>0. ManagerInv /\ (OnWindows => ~OnLinux)
    BY DEF IOInv, OnWindows, OnLinux
  <1> USE DEF OnWindows, OnLinux
  <1>1. CASE UNCHANGED vars
    BY <1>0, <1>1 DEF vars, managerVars, socketVars, windowsVars, linuxVars, ManagerInv
  <1>2. CASE ServerCall
    <2>1. PICK s \in Sockets :
            \/ AddClient(s) \/ RemoveClient(s) \/ StartAsyncRead(s)
            \/ \E n \in DataSizes : StartAsyncWrite(s, n)
            \/ \E events \in {{"in"}, {"in", "out"}} : ModifyClient(s, events)
      BY <1>2 DEF ServerCall
    <2>2. UNCHANGED <<platform, phase, loop, running, worker, stage, batch>>
      <3>1. CASE AddClient(s)
        BY <3>1 DEF AddClient, Usable, managerVars, windowsVars, linuxVars, Windows!AddSocket,
           Windows!threadVars, Linux!AddSocket, Linux!pollVars
      <3>2. CASE RemoveClient(s)
        BY <3>2 DEF RemoveClient, Usable, managerVars, windowsVars, linuxVars,
           Windows!RemoveSocket, Windows!threadVars, Linux!RemoveSocket, Linux!pollVars
      <3>3. CASE StartAsyncRead(s)
        BY <3>3 DEF StartAsyncRead, Usable, managerVars, windowsVars, linuxVars,
           Windows!AsyncRead, Windows!threadVars, Linux!AsyncRead, Linux!pollVars
      <3>4. CASE \E n \in DataSizes : StartAsyncWrite(s, n)
        BY <3>4 DEF StartAsyncWrite, Usable, managerVars, windowsVars, linuxVars,
           Windows!AsyncWrite, Windows!threadVars, Linux!AsyncWrite, Linux!pollVars
      <3>5. CASE \E events \in {{"in"}, {"in", "out"}} : ModifyClient(s, events)
        BY <3>5 DEF ModifyClient, Usable, managerVars, windowsVars, linuxVars,
           Linux!ModifySocket, Linux!pollVars
      <3> QED  BY <2>1, <3>1, <3>2, <3>3, <3>4, <3>5
    <2>3. /\ OnWindows => calls' = calls
          /\ OnLinux => inFlight' = inFlight /\ port' = port
      BY <1>2, ServerCallIsOfOne DEF BackendsDo, linuxVars, windowsVars
    <2> QED  BY <1>0, <2>2, <2>3 DEF ManagerInv
  <1>3. CASE /\ OnWindows
             /\ Windows!KernelStep \/ \E w \in Workers : Windows!WorkerStep(w)
             /\ UNCHANGED <<managerVars, linuxVars>>
    <2>1. CASE Windows!KernelStep
      <3>1. PICK op \in inFlight : Windows!Complete(op)
        BY <2>1 DEF Windows!KernelStep
      <3> QED
        BY <1>0, <1>3, <3>1 DEF Windows!Complete, Windows!threadVars, managerVars, linuxVars,
           ManagerInv
    <2>2. ASSUME NEW w \in Workers, Windows!WorkerStep(w)
          PROVE  ManagerInv'
      <3>1. worker[w] \notin {"none", "exited"} /\ running' = running
        BY <2>2 DEF Windows!WorkerStep, Windows!LoopTest, Windows!Dequeue,
           Windows!ProcessCompletion, Windows!CallbackCloses, Windows!CallbackReadsAgain,
           Windows!CallbackReturns, Windows!FinishCompletion
      <3>2. phase \notin {"created", "initialized"}
        BY <1>0, <3>1 DEF ManagerInv
      <3> QED
        BY <1>0, <1>3, <3>1, <3>2 DEF managerVars, linuxVars, ManagerInv
    <2> QED  BY <1>3, <2>1, <2>2
  <1>4. CASE /\ OnLinux
             /\ \/ running /\ Linux!KernelStep
                \/ Linux!CallEnds
                \/ \E p \in Pollers : Linux!PollerStep(p)
             /\ UNCHANGED <<managerVars, windowsVars>>
    <2>1. running' = running
      BY <1>4 DEF Linux!KernelStep, Linux!Report, Linux!CallEnds, Linux!SaveContext,
         Linux!EraseContext, Linux!PollerStep, Linux!Take, Linux!HandleRead,
         Linux!HandleWrite, Linux!HandleHangUp
    <2> QED
      BY <1>0, <1>4, <2>1 DEF managerVars, windowsVars, ManagerInv
  <1>5. CASE Initialize \/ StartLoopThread \/ ShutdownUnstarted \/ JoinLoop \/ LoopEnds
    BY <1>0, <1>5 DEF Initialize, StartLoopThread, ShutdownUnstarted, JoinLoop, LoopEnds,
       Moves, socketVars, windowsVars, linuxVars, ManagerInv
  <1>6. CASE StartEventLoop
    BY <1>0, <1>6 DEF StartEventLoop, Moves, windowsVars, linuxVars, Windows!StartEventLoop,
       Windows!ioVars, Linux!StartEventLoop, Linux!pollVars, ManagerInv
  <1>7. CASE StopBackend
    BY <1>0, <1>7 DEF StopBackend, Moves, windowsVars, linuxVars, Windows!StopFlag,
       Windows!ioVars, Windows!threadVars, Linux!StopEventLoop, Linux!pollVars, ManagerInv
  <1>8. CASE StopLoop
    BY <1>0, <1>8 DEF StopLoop, Moves, socketVars, windowsVars, linuxVars,
       Windows!PostWakeups, Windows!threadVars, ManagerInv
  <1>9. CASE ShutdownBackend
    <2>1. CASE OnWindows
      <3>1. Windows!CloseAll /\ UNCHANGED linuxVars
        BY <1>0, <1>9, <2>1 DEF ShutdownBackend
      <3> QED
        BY <1>0, <1>9, <2>1, <3>1, WindowsConstants
        DEF ShutdownBackend, Moves, Windows!CloseAll, Windows!Joined, Windows!threadVars,
            Windows!NoContext, linuxVars, ManagerInv
    <2>2. CASE OnLinux
      <3>1. Linux!CloseAll /\ UNCHANGED windowsVars
        BY <1>0, <1>9, <2>2 DEF ShutdownBackend
      <3> QED
        BY <1>0, <1>9, <2>2, <3>1
        DEF ShutdownBackend, Moves, Linux!CloseAll, Linux!pollVars, Linux!NoContext,
            windowsVars, ManagerInv
    <2> QED  BY <1>9, <2>1, <2>2 DEF ShutdownBackend
  <1> QED
    BY <1>1, <1>2, <1>3, <1>4, <1>5, <1>6, <1>7, <1>8, <1>9
    DEF Next, BackendStep, LifecycleStep, ShutdownStep

-----------------------------------------------------------------------------
(* WindowsIOCP: the wakeups                                                *)

\* What the counting needs: the workers are finitely many.
LEMMA WorkersCounted ==
  ASSUME NEW W \in SUBSET Workers
  PROVE  /\ IsFiniteSet(W) /\ Cardinality(W) \in Nat
         /\ Cardinality(W) <= MAX_THREADS
  <1>1. MAX_THREADS \in Nat /\ Workers = 1..MAX_THREADS
    BY WindowsConstants DEF Workers, Windows!Workers
  <1>2. IsFiniteSet(Workers) /\ Cardinality(Workers) = MAX_THREADS
    <2>1. 1 \in Int /\ MAX_THREADS \in Int
      BY <1>1
    <2>2. /\ IsFiniteSet(1..MAX_THREADS)
          /\ Cardinality(1..MAX_THREADS) = IF 1 > MAX_THREADS THEN 0 ELSE MAX_THREADS - 1 + 1
      BY <2>1, FS_Interval
    <2> QED  BY <1>1, <2>2
  <1>3. IsFiniteSet(W) /\ Cardinality(W) <= Cardinality(Workers)
    BY <1>2, FS_Subset
  <1> QED  BY <1>2, <1>3, FS_CardinalityType

\* Where nobody begins to wait and the port is not shortened, each waiting
\* worker keeps its wakeup.
LEMMA WakeupsKept ==
  ASSUME WindowsTypes, WindowsTypes',
         Cardinality(Waiting) <= Len(port),
         Waiting' \subseteq Waiting, Len(port') >= Len(port)
  PROVE  Cardinality(Waiting') <= Len(port')
  <1>1. Len(port) \in Nat /\ Len(port') \in Nat
    BY DEF WindowsTypes, Windows!TypeOK
  <1>2. Waiting \in SUBSET Workers /\ Waiting' \in SUBSET Workers
    BY DEF Waiting
  <1>3. IsFiniteSet(Waiting) /\ Cardinality(Waiting) \in Nat /\ Cardinality(Waiting') \in Nat
    BY <1>2, WorkersCounted
  <1>4. Cardinality(Waiting') <= Cardinality(Waiting)
    BY <1>3, FS_Subset
  <1> QED  BY <1>1, <1>3, <1>4

\* Nobody waits: there are no workers yet, or they have been joined.
LEMMA NobodyWaits ==
  ASSUME WindowsTypes', \A w \in Workers : worker'[w] \in {"none", "exited"}
  PROVE  Cardinality(Waiting') <= Len(port')
  <1>1. Waiting' = {}
    BY DEF Waiting
  <1>2. Len(port') \in Nat
    BY DEF WindowsTypes, Windows!TypeOK
  <1> QED  BY <1>1, <1>2, FS_EmptySet

\* A worker that takes a wakeup or a completion waits no longer.
LEMMA DequeueWakes ==
  ASSUME WindowsTypes, WindowsTypes', NEW w \in Workers, Windows!Dequeue(w),
         Cardinality(Waiting) <= Len(port)
  PROVE  Cardinality(Waiting') <= Len(port')
  <1>1. /\ worker[w] = "wait" /\ port # <<>> /\ port' = Tail(port)
        /\ \E to \in {"exited", "test", "lock"} : worker' = [worker EXCEPT ![w] = to]
    BY DEF Windows!Dequeue, Windows!Goes
  <1>2. worker \in [Workers -> {"none", "test", "wait", "lock", "call", "finish",
                                "stuck", "exited"}]
    BY DEF WindowsTypes, Windows!TypeOK, Workers
  <1>3. w \in Waiting /\ Waiting' = Waiting \ {w}
    BY <1>1, <1>2 DEF Waiting
  <1>4. /\ IsFiniteSet(Waiting) /\ Cardinality(Waiting) \in Nat /\ Len(port) \in Nat
    <2>1. Waiting \in SUBSET Workers
      BY DEF Waiting
    <2> QED  BY <2>1, WorkersCounted DEF WindowsTypes, Windows!TypeOK
  <1>5. Cardinality(Waiting') = Cardinality(Waiting) - 1
    BY <1>3, <1>4, FS_RemoveElement
  <1>6. port \in Seq(Windows!Completions \cup {Windows!Wake})
    BY DEF WindowsTypes, Windows!TypeOK
  <1>7. Len(port') = Len(port) - 1
    BY <1>1, <1>6, HeadTailProperties
  <1> QED  BY <1>4, <1>5, <1>7

\* The other steps of a worker begin no wait once running_ is cleared.
LEMMA WorkerBeginsNoWait ==
  ASSUME WindowsTypes, NEW w \in Workers, Windows!WorkerStep(w), ~Windows!Dequeue(w),
         ~running
  PROVE  Waiting' \subseteq Waiting /\ port' = port
  <1>1. worker \in [Workers -> {"none", "test", "wait", "lock", "call", "finish",
                                "stuck", "exited"}]
    BY DEF WindowsTypes, Windows!TypeOK, Workers
  <1>2. ASSUME NEW to \in {"test", "lock", "call", "finish", "stuck", "exited"},
               worker' = [worker EXCEPT ![w] = to]
        PROVE  Waiting' \subseteq Waiting
    BY <1>1, <1>2 DEF Waiting
  <1> USE DEF Windows!Goes, Windows!Done, Windows!ioVars
  <1>3. CASE Windows!LoopTest(w)
    BY <1>2, <1>3 DEF Windows!LoopTest
  <1>4. CASE Windows!ProcessCompletion(w)
    <2>1. port' = port
      BY <1>4 DEF Windows!ProcessCompletion
    <2>2. \E to \in {"test", "call", "finish"} : worker' = [worker EXCEPT ![w] = to]
      BY <1>4 DEF Windows!ProcessCompletion, Windows!StartCompletion
    <2> QED  BY <1>2, <2>1, <2>2
  <1>5. CASE Windows!CallbackCloses(w) \/ Windows!CallbackReturns(w)
    BY <1>2, <1>5 DEF Windows!CallbackCloses, Windows!CallbackReturns
  <1>6. CASE Windows!CallbackReadsAgain(w)
    BY <1>2, <1>6 DEF Windows!CallbackReadsAgain
  <1>7. CASE Windows!FinishCompletion(w)
    BY <1>2, <1>7 DEF Windows!FinishCompletion
  <1> QED  BY <1>3, <1>4, <1>5, <1>6, <1>7 DEF Windows!WorkerStep

\* Every step leaves a wakeup or a completion for each worker that waits.
LEMMA WakeupStep ==
  ASSUME IOInv, [Next]_vars, OnWindows, WindowsTypes, WindowsTypes',
         phase' \in {"join", "stopped", "down"}
  PROVE  Cardinality(Waiting') <= Len(port')
  <1>0. /\ ManagerInv /\ WakeupForEachWaiter /\ ~OnLinux
    BY DEF IOInv, OnWindows, OnLinux
  <1> USE DEF OnWindows, OnLinux
  <1>1. Len(port) \in Nat /\ Len(port') \in Nat
    BY DEF WindowsTypes, Windows!TypeOK
  <1>2. ASSUME phase \in {"join", "stopped", "down"}, UNCHANGED worker,
               Len(port') >= Len(port)
        PROVE  Cardinality(Waiting') <= Len(port')
    BY <1>0, <1>2, WakeupsKept DEF WakeupForEachWaiter, Waiting
  <1>3. CASE UNCHANGED vars
    BY <1>1, <1>2, <1>3 DEF vars, managerVars, windowsVars
  <1>4. CASE ServerCall
    <2>1. UNCHANGED <<phase, worker, port>>
      BY <1>0, <1>4 DEF ServerCall, AddClient, RemoveClient, ModifyClient, StartAsyncRead,
         StartAsyncWrite, managerVars, Windows!AddSocket, Windows!RemoveSocket,
         Windows!AsyncRead, Windows!AsyncWrite, Windows!ioVars, Windows!threadVars
    <2> QED  BY <1>1, <1>2, <2>1
  <1>5. CASE BackendStep
    <2>1. UNCHANGED phase /\ ~running
      BY <1>0, <1>5 DEF BackendStep, managerVars, ManagerInv
    <2>2. Windows!KernelStep \/ \E w \in Workers : Windows!WorkerStep(w)
      BY <1>0, <1>5 DEF BackendStep
    <2>3. CASE Windows!KernelStep
      <3>1. PICK op \in inFlight : Windows!Complete(op)
        BY <2>3 DEF Windows!KernelStep
      <3>2. /\ UNCHANGED worker
            /\ \E c : port' = Append(port, c)
        BY <3>1 DEF Windows!Complete, Windows!threadVars
      <3>3. Len(port') >= Len(port)
        <4>1. port \in Seq(Windows!Completions \cup {Windows!Wake})
          BY DEF WindowsTypes, Windows!TypeOK
        <4>2. PICK c : port' = Append(port, c)
          BY <3>2
        <4>3. Len(port') = Len(port) + 1
          BY <4>1, <4>2
        <4> QED  BY <1>1, <4>3
      <3> QED  BY <1>2, <2>1, <3>2, <3>3
    <2>4. ASSUME NEW w \in Workers, Windows!WorkerStep(w)
          PROVE  Cardinality(Waiting') <= Len(port')
      <3>1. Cardinality(Waiting) <= Len(port)
        BY <1>0, <2>1 DEF WakeupForEachWaiter
      <3>2. CASE Windows!Dequeue(w)
        BY <3>1, <3>2, DequeueWakes
      <3>3. CASE ~Windows!Dequeue(w)
        <4>1. Waiting' \subseteq Waiting /\ port' = port
          BY <2>1, <2>4, <3>3, WorkerBeginsNoWait
        <4> QED  BY <1>1, <3>1, <4>1, WakeupsKept
      <3> QED  BY <3>2, <3>3
    <2> QED  BY <2>2, <2>3, <2>4
  <1>6. CASE Initialize \/ ShutdownUnstarted
    <2>1. \A w \in Workers : worker'[w] = "none"
      BY <1>0, <1>6 DEF Initialize, ShutdownUnstarted, Moves, ManagerInv, windowsVars
    <2> QED  BY <2>1, NobodyWaits
  <1>7. CASE StartEventLoop \/ StartLoopThread \/ StopBackend
    BY <1>7 DEF StartEventLoop, StartLoopThread, StopBackend, Moves
  <1>8. CASE StopLoop
    <2>1. Windows!PostWakeups
      BY <1>0, <1>8 DEF StopLoop
    <2>2. port \in Seq(Windows!Completions \cup {Windows!Wake})
      BY DEF WindowsTypes, Windows!TypeOK
    <2>3. port' = port \o Windows!Wakeups
      BY <2>1 DEF Windows!PostWakeups
    <2>4. /\ Windows!Wakeups \in Seq(Windows!Completions \cup {Windows!Wake})
          /\ Len(Windows!Wakeups) = MAX_THREADS /\ MAX_THREADS \in Nat
      BY WindowsConstants DEF Windows!Wakeups
    <2>5. Len(port') = Len(port) + MAX_THREADS
      BY <2>2, <2>3, <2>4, ConcatProperties
    <2>6. Cardinality(Waiting') <= MAX_THREADS /\ Cardinality(Waiting') \in Nat
      <3>1. Waiting' \in SUBSET Workers
        BY DEF Waiting
      <3> QED  BY <3>1, WorkersCounted
    <2> QED  BY <1>1, <2>4, <2>5, <2>6
  <1>9. CASE JoinLoop \/ LoopEnds
    BY <1>1, <1>2, <1>9 DEF JoinLoop, LoopEnds, Moves, windowsVars
  <1>10. CASE ShutdownBackend
    <2>1. Windows!CloseAll
      BY <1>0, <1>10 DEF ShutdownBackend
    <2>2. \A w \in Workers : worker'[w] \in {"none", "exited"}
      BY <2>1 DEF Windows!CloseAll, Windows!Joined, Windows!threadVars, Workers
    <2> QED  BY <2>2, NobodyWaits
  <1> QED
    BY <1>3, <1>4, <1>5, <1>6, <1>7, <1>8, <1>9, <1>10
    DEF Next, LifecycleStep, ShutdownStep

-----------------------------------------------------------------------------
(* The theorems                                                            *)

\* The invariant holds before initialize().
LEMMA IOInit ==
  ASSUME Init
  PROVE  IOInv
  <1> USE DEF Init, Windows!Init, Linux!Init
  <1>1. /\ platform \in Platforms /\ phase = "created" /\ loop = "none"
        /\ isRunning = FALSE
    OBVIOUS
  <1>2. /\ \A s \in Sockets : contexts[s] = [id |-> 0]
        /\ \A w \in Workers : worker[w] = "none" /\ hand[w] = Windows!Nothing
        /\ \A p \in Pollers : stage[p] = "idle" /\ batch[p] = {} /\ held[p] = [id |-> 0]
        /\ port = <<>> /\ Len(port) = 0
    BY WindowsConstants DEF Windows!NoContext, Linux!NoContext
  <1>3. Windows!TypeOK
    <2>1. /\ open \in SUBSET Sockets /\ inFlight \in SUBSET Windows!Operations
          /\ port \in Seq(Windows!Completions \cup {Windows!Wake})
      OBVIOUS
    <2>2. /\ DOMAIN contexts = Sockets
          /\ \A s \in Sockets : ~Windows!Registered(s)
      BY DEF Windows!Registered
    <2>3. /\ worker \in [Windows!Workers -> {"none", "test", "wait", "lock", "call", "finish",
                                             "stuck", "exited"}]
          /\ hand \in [Windows!Workers -> Windows!Completions \cup {Windows!Nothing}]
      OBVIOUS
    <2>4. lastId \in 0..MaxContexts
      BY WindowsConstants
    <2> QED  BY <2>1, <2>2, <2>3, <2>4 DEF Windows!TypeOK
  <1>4. Linux!TypeOK
    <2>1. /\ DOMAIN contexts = Sockets
          /\ \A s \in Sockets : ~Linux!Registered(s)
      BY DEF Linux!Registered
    <2>2. lastId \in 0..MaxContexts
      BY LinuxConstants
    <2>3. /\ batch \in [Pollers -> SUBSET Linux!Events]
          /\ current \in [Pollers -> Linux!Events \cup {Linux!NoEvent}]
          /\ held \in [Pollers -> Linux!ContextType \cup {Linux!NoContext}]
          /\ stage \in [Pollers -> {"idle", "in", "out", "hup"}]
          /\ interest \in [Sockets -> SUBSET {"in", "out", "hup"}]
      OBVIOUS
    <2> QED  BY <2>1, <2>2, <2>3 DEF Linux!TypeOK
  <1>5. ReadsFit /\ WorkersInv
    BY <1>2, WindowsConstants DEF ReadsFit, WorkersInv, Windows!Nothing
  <1>6. OperationsInv
    BY <1>2 DEF OperationsInv, NumbersInv, MarksInv, KernelInv, PortInv, Pending
  <1>7. PlacesInv /\ Linux!OnePollerPerContext
    BY <1>2 DEF PlacesInv, Linux!OnePollerPerContext, Linux!NoContext
  <1>8. ManagerInv /\ WakeupForEachWaiter
    BY <1>1, <1>2 DEF ManagerInv, WakeupForEachWaiter
  <1>9. TypeOK
    BY <1>1, <1>3, <1>4 DEF TypeOK
  <1> QED  BY <1>3, <1>5, <1>6, <1>7, <1>8, <1>9 DEF IOInv, WindowsTypes

\* Every step keeps the invariant.
LEMMA IOStep ==
  ASSUME IOInv, [Next]_vars
  PROVE  IOInv'
  <1>1. BackendsDo
    BY NextIsOfOne
  <1>2. ManagerInv'
    BY ManagerStep
  <1>3. OnWindows' => WindowsTypes' /\ OperationsInv'
    BY <1>1, WindowsStep DEF BackendsDo, OnWindows
  <1>4. OnLinux' => Linux!TypeOK' /\ PlacesInv' /\ Linux!OnePollerPerContext'
    BY <1>1, LinuxStep DEF BackendsDo, OnLinux
  <1>5. /\ phase' \in {"created", "initialized", "starting", "started", "stopping",
                       "join", "stopped", "down"}
        /\ isRunning' \in BOOLEAN
        /\ loop' \in {"none", "running", "ended"}
    BY DEF IOInv, TypeOK, vars, managerVars, Next, ServerCall, AddClient, RemoveClient,
       ModifyClient, StartAsyncRead, StartAsyncWrite, BackendStep, LifecycleStep,
       ShutdownStep, Initialize, StartEventLoop, StartLoopThread, ShutdownUnstarted,
       StopBackend, StopLoop, JoinLoop, ShutdownBackend, LoopEnds, Moves
  <1>6. TypeOK'
    BY <1>1, <1>3, <1>4, <1>5 DEF TypeOK, WindowsTypes, BackendsDo, IOInv
  <1>7. WakeupForEachWaiter'
    <2>1. OnWindows' => OnWindows /\ WindowsTypes
      BY <1>1 DEF BackendsDo, OnWindows, IOInv
    <2> QED  BY <1>3, <2>1, WakeupStep DEF WakeupForEachWaiter
  <1> QED  BY <1>2, <1>3, <1>4, <1>6, <1>7 DEF IOInv

\* The inductive invariant holds in every reachable state: how far the manager
\* is, what its threads hold, and where each operation and each context is.
THEOREM IOInvariant == Spec => []IOInv
  <1>1. Init => IOInv
    BY IOInit
  <1>2. IOInv /\ [Next]_vars => IOInv'
    BY IOStep
  <1> QED  BY <1>1, <1>2, PTL DEF Spec

\* The variables of the manager and of the back end there is keep to their
\* types: no length of a buffer and no size of an operation goes below zero.
THEOREM IOTypeCorrect == Spec => []TypeOK
  <1>1. IOInv => TypeOK
    BY DEF IOInv
  <1> QED  BY <1>1, IOInvariant, PTL

\* WindowsIOCP never has two reads or two writes of a connection under way,
\* whatever the threads that call it and its workers do: the mark is set with
\* the operation, under contextsMutex_, and stays as long as the context.
THEOREM IOOneOperationPerDirection == Spec => []OneOperationPerDirection
  <1>1. IOInv => OneOperationPerDirection
    BY PlacesAreOne DEF IOInv, OneOperationPerDirection
  <1> QED  BY <1>1, IOInvariant, PTL

\* The context of a callback of WindowsIOCP is neither removed nor replaced
\* until its worker is through with it: contextsMutex_ is held over the callback.
THEOREM IOContextOutlivesCallback == Spec => ContextOutlivesCallback
  <1>1. IOInv /\ [Next]_vars => [OnWindows => Windows!ContextStays]_vars
    <2> SUFFICES ASSUME IOInv, [Next]_vars, OnWindows, NEW w \in Workers,
                        worker[w] \in {"call", "finish"}, worker'[w] \in {"call", "finish"}
                 PROVE  contexts'[hand[w].socket].id = contexts[hand[w].socket].id
      BY WindowsConstants DEF Windows!ContextStays
    <2>1. WindowsDoes /\ WindowsTypes
      BY NextIsOfOne DEF BackendsDo, IOInv
    <2>2. CASE UNCHANGED <<socketVars, windowsVars>>
      BY <2>2 DEF socketVars
    <2> QED  BY <2>1, <2>2, CallbackKeepsContext DEF WindowsDoes
  <1> QED  BY <1>1, IOInvariant, PTL DEF Spec, ContextOutlivesCallback

\* A context of LinuxEpoll is in the table or with one thread that polls, never
\* in two places: it is moved out before its callbacks run without the mutex.
THEOREM IOOnePollerPerContext == Spec => []OnePollerPerContext
  <1>1. IOInv => OnePollerPerContext
    BY DEF IOInv, OnePollerPerContext
  <1> QED  BY <1>1, IOInvariant, PTL

\* Once stopEventLoop() of WindowsIOCP has posted its wakeups, each worker that
\* waits for a completion, without a time limit, has one or a wakeup in the
\* port, whatever completions come and whoever takes them.
THEOREM IOWakeupForEachWaiter == Spec => []WakeupForEachWaiter
  <1>1. IOInv => WakeupForEachWaiter
    BY DEF IOInv
  <1> QED  BY <1>1, IOInvariant, PTL
=============================================================================
