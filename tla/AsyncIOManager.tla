--------------------------- MODULE AsyncIOManager ---------------------------
(***************************************************************************)
(* AsyncIOManager, src/network/AsyncIOManager.cpp: the asynchronous I/O    *)
(* the server sees.  It owns a back end, counts the sockets added to it,   *)
(* and has a thread of its own that only sleeps: for how long is all the   *)
(* count decides, so it is left out.  The build decides which back end     *)
(* there is; a behaviour of this module has one of the Platforms.          *)
(*                                                                         *)
(* NetworkServer adds its own socket before it starts the event loop, does *)
(* so once, and shuts down once; its other calls come from callbacks, so   *)
(* until the threads have been joined.                                     *)
(***************************************************************************)
EXTENDS Integers, Sequences, FiniteSets

CONSTANTS
    Platforms,      \* the back ends: "windows", "linux"
    Sockets, Pollers,
    MAX_THREADS, BUFFER_SIZE, DataSizes, RelockOutcome,
    MaxContexts,    \* BOUND: calls of addSocket()
    MaxUnderWay     \* BOUND: of WindowsIOCP

VARIABLES
    platform,             \* which back end createAsyncIO() makes
    phase,                \* how far the server's calls have come
    isRunning,            \* isRunning_
    loop,                 \* eventLoopThread_
    open, contexts, lastId, running,             \* of the back end
    mutex, inFlight, port, worker, hand,         \* of WindowsIOCP only
    interest, calls, batch, current, held, stage \* of LinuxEpoll only

managerVars == <<platform, phase, isRunning, loop>>
socketVars == <<open, contexts, lastId, running>>
windowsVars == <<mutex, inFlight, port, worker, hand>>
linuxVars == <<interest, calls, batch, current, held, stage>>
vars == <<managerVars, socketVars, windowsVars, linuxVars>>

Windows == INSTANCE WindowsIOCP
Linux == INSTANCE LinuxEpoll

ASSUME PlatformsAssumption ==
    /\ Platforms \in SUBSET {"windows", "linux"}
    /\ Windows!IOCPAssumption
    /\ Linux!EpollAssumption

Workers == Windows!Workers

OnWindows == platform = "windows"
OnLinux == platform = "linux"

TypeOK ==
    /\ platform \in Platforms
    /\ phase \in {"created", "initialized", "starting", "started", "stopping",
                  "join", "stopped", "down"}
    /\ isRunning \in BOOLEAN
    /\ loop \in {"none", "running", "ended"}
    /\ OnWindows => Windows!TypeOK
    /\ OnLinux => Linux!TypeOK

Init ==
    /\ platform \in Platforms
    /\ phase = "created"
    /\ isRunning = FALSE
    /\ loop = "none"
    /\ Windows!Init
    /\ Linux!Init

-----------------------------------------------------------------------------
Moves(from, to) == phase = from /\ phase' = to

\* initialize() succeeds, or the back end could not be set up and is dropped:
\* all that is left to do with the manager is to shut it down.
Initialize ==
    /\ \/ Moves("created", "initialized")
       \/ Moves("created", "stopped")
    /\ UNCHANGED <<platform, isRunning, loop, socketVars, windowsVars, linuxVars>>

\* When callbacks run, and call the server, which calls the manager.
Usable == phase \in {"started", "stopping", "join"}

\* addSocket() and addClient()
AddClient(s) ==
    /\ Usable \/ phase = "initialized"
    /\ \/ OnWindows /\ Windows!AddSocket(s) /\ UNCHANGED linuxVars
       \/ OnLinux /\ Linux!AddSocket(s) /\ UNCHANGED windowsVars
    /\ UNCHANGED managerVars

RemoveClient(s) ==
    /\ Usable
    /\ \/ OnWindows /\ Windows!RemoveSocket(s) /\ UNCHANGED linuxVars
       \/ OnLinux /\ Linux!RemoveSocket(s) /\ UNCHANGED windowsVars
    /\ UNCHANGED managerVars

ModifyClient(s, events) ==
    /\ Usable
    /\ OnLinux /\ Linux!ModifySocket(s, events)
    /\ UNCHANGED <<managerVars, windowsVars>>

StartAsyncRead(s) ==
    /\ Usable
    /\ \/ OnWindows /\ Windows!AsyncRead(s) /\ UNCHANGED linuxVars
       \/ OnLinux /\ Linux!AsyncRead(s) /\ UNCHANGED windowsVars
    /\ UNCHANGED managerVars

StartAsyncWrite(s, n) ==
    /\ Usable
    /\ \/ OnWindows /\ Windows!AsyncWrite(s, n) /\ UNCHANGED linuxVars
       \/ OnLinux /\ Linux!AsyncWrite(s, n) /\ UNCHANGED windowsVars
    /\ UNCHANGED managerVars

ServerCall ==
    \E s \in Sockets :
        \/ AddClient(s) \/ RemoveClient(s) \/ StartAsyncRead(s)
        \/ \E n \in DataSizes : StartAsyncWrite(s, n)
        \/ \E events \in {{"in"}, {"in", "out"}} : ModifyClient(s, events)

\* The back end's own steps.
BackendStep ==
    \/ /\ OnWindows
       /\ Windows!KernelStep \/ \E w \in Workers : Windows!WorkerStep(w)
       /\ UNCHANGED <<managerVars, linuxVars>>
    \/ /\ OnLinux
       /\ \/ running /\ Linux!KernelStep
          \/ Linux!CallEnds
          \/ \E p \in Pollers : Linux!PollerStep(p)
       /\ UNCHANGED <<managerVars, windowsVars>>

-----------------------------------------------------------------------------
\* startEventLoop(): the back end first.
StartEventLoop ==
    /\ Moves("initialized", "starting")
    /\ \/ OnWindows /\ Windows!StartEventLoop /\ UNCHANGED linuxVars
       \/ OnLinux /\ Linux!StartEventLoop /\ UNCHANGED windowsVars
    /\ UNCHANGED <<platform, isRunning, loop>>

\* Then the flag and the thread that tests it.
StartLoopThread ==
    /\ Moves("starting", "started")
    /\ isRunning' = TRUE
    /\ loop' = "running"
    /\ UNCHANGED <<platform, socketVars, windowsVars, linuxVars>>

\* eventLoop(): the thread sleeps and tests the flag, and runs no callback.
LoopEnds ==
    /\ loop = "running"
    /\ ~isRunning
    /\ loop' = "ended"
    /\ UNCHANGED <<platform, phase, isRunning, socketVars, windowsVars, linuxVars>>

-----------------------------------------------------------------------------
(* shutdown() and the stopEventLoop() it calls                             *)

\* A manager that was never started has nothing to stop.
ShutdownUnstarted ==
    /\ Moves("initialized", "stopped")
    /\ UNCHANGED <<platform, isRunning, loop, socketVars, windowsVars, linuxVars>>

\* The back end's stopEventLoop(), its flag first.
StopBackend ==
    /\ Moves("started", "stopping")
    /\ \/ OnWindows /\ Windows!StopFlag /\ UNCHANGED linuxVars
       \/ OnLinux /\ Linux!StopEventLoop /\ UNCHANGED windowsVars
    /\ UNCHANGED <<platform, isRunning, loop>>

\* Its wakeups, then isRunning_, which only the loop thread reads.
StopLoop ==
    /\ Moves("stopping", "join")
    /\ \/ OnWindows /\ Windows!PostWakeups
       \/ OnLinux /\ UNCHANGED <<socketVars, windowsVars>>
    /\ isRunning' = FALSE
    /\ UNCHANGED <<platform, loop, linuxVars>>

JoinLoop ==
    /\ loop = "ended"
    /\ Moves("join", "stopped")
    /\ UNCHANGED <<platform, isRunning, loop, socketVars, windowsVars, linuxVars>>

\* The back end's shutdown(), and asyncIO_ is reset.
ShutdownBackend ==
    /\ Moves("stopped", "down")
    /\ \/ OnWindows /\ Windows!CloseAll /\ UNCHANGED linuxVars
       \/ OnLinux /\ Linux!CloseAll /\ UNCHANGED windowsVars
    /\ UNCHANGED <<platform, isRunning, loop>>

LifecycleStep ==
    \/ Initialize \/ StartEventLoop \/ StartLoopThread
    \/ ShutdownUnstarted \/ StopBackend

ShutdownStep ==
    StopLoop \/ JoinLoop \/ ShutdownBackend

Next == ServerCall \/ BackendStep \/ LifecycleStep \/ ShutdownStep \/ LoopEnds

\* The threads are scheduled and std::mutex is given to someone who waits.
\* Nothing is assumed of the server's calls or of the kernel: operations may
\* stay under way for ever.
Fairness ==
    /\ WF_vars(ShutdownStep)
    /\ WF_vars(LoopEnds)
    /\ \A w \in Workers :
          WF_vars(/\ OnWindows
                  /\ Windows!WorkerStep(w)
                  /\ UNCHANGED <<managerVars, linuxVars>>)
    /\ WF_vars(OnLinux /\ Linux!CallEnds /\ UNCHANGED <<managerVars, windowsVars>>)
    /\ \A p \in Pollers :
          WF_vars(/\ OnLinux
                  /\ Linux!PollerStep(p)
                  /\ UNCHANGED <<managerVars, windowsVars>>)

Spec == Init /\ [][Next]_vars /\ Fairness

-----------------------------------------------------------------------------
(* Properties                                                              *)

\* WindowsIOCP: at most one read and one write per connection.
OneOperationPerDirection == OnWindows => Windows!OneOperationPerDirection

\* WindowsIOCP: a callback's context stays in the table while it runs.
ContextOutlivesCallback ==
    [][OnWindows => Windows!ContextStays]_vars

\* LinuxEpoll: a context is with one thread at most.
OnePollerPerContext == OnLinux => Linux!OnePollerPerContext

\* WindowsIOCP: the workers that GetQueuedCompletionStatus() keeps waiting.
Waiting == {w \in Workers : worker[w] = "wait"}

\* WindowsIOCP: once the wakeups are posted, and while the joins wait for the
\* workers, nobody waits for a completion that will not come: for each waiting
\* worker there is a wakeup or a completion in the port, although workers that
\* are at a completion take them too, and those still on their way to the port
\* when running_ was cleared come late.
WakeupForEachWaiter ==
    OnWindows /\ phase \in {"join", "stopped", "down"} =>
        Cardinality(Waiting) <= Len(port)

\* A shutdown that has begun returns: each worker waits for a completion
\* without a time limit, so each needs a wakeup of its own.  A worker that
\* waits for a mutex it has itself is the one thing that prevents it.
ShutdownReturns ==
    phase = "stopping" ~> \/ phase = "down"
                         \/ \E w \in Workers : worker[w] = "stuck"
=============================================================================
