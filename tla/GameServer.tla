------------------------------ MODULE GameServer ------------------------------
(***************************************************************************)
(* The program, src/GameServer.cpp: main() builds configuration, log,      *)
(* database, network server and main loop, starts the threads of the last  *)
(* two, and takes everything down again: after a stop(), after a failure   *)
(* of any part of the start, and twice when an exception reaches main().   *)
(*                                                                         *)
(* Threads: main, the network's threads, which hand messages to the main   *)
(* loop through a pointer of their own, and the loop's, whose handlers     *)
(* answer through the application's pointer to the server.                 *)
(***************************************************************************)
EXTENDS Integers, Sequences

CONSTANTS
    Messages, Types, TypeOf, HandlerOutcome,   \* of MainLoop
    NetworkThreads                             \* that run callbacks

ASSUME AppAssumption ==
    /\ TypeOf \in [Messages -> Types]
    /\ HandlerOutcome \in SUBSET {"returns", "throws", "blocks"}
    /\ {"LOGIN", "REGISTER"} \subseteq Types

VARIABLES
    pc,          \* the part main() is at
    todo,        \* what the shutdown() in progress has yet to do
    calls,       \* the calls of shutdown() that are not over
    result,      \* main()'s result
    isRunning,   \* isRunning
    pointers,    \* of config, server, mainLoop: those not null
    object,      \* what has become of the objects themselves
    serverRunning,   \* the server's isRunning
    eventLoop,       \* the network's threads may begin callbacks
    network,         \* where each of them stands
    crashed,         \* a use of a deleted object has ended the process
    queue, current, handlers, loopRunning, loop, owner, handled,   \* MainLoop
    dbInitialized, pools,                                          \* DatabaseManager
    logInitialized, logger, writers                                \* Log

appVars == <<pc, todo, calls, result, isRunning>>
objectVars == <<pointers, object>>
netVars == <<serverRunning, eventLoop, network>>
loopVars == <<queue, current, handlers, loopRunning, loop, owner, handled>>
dbVars == <<dbInitialized, pools>>
logVars == <<logInitialized, logger, writers>>
vars == <<appVars, objectVars, netVars, crashed, loopVars, dbVars, logVars>>

Loop == INSTANCE MainLoop WITH running <- loopRunning
Database == INSTANCE DatabaseManager WITH initialized <- dbInitialized
Logging == INSTANCE Log WITH initialized <- logInitialized

Objects == {"config", "server", "mainLoop"}

\* Mutant: the server goes first, so that no callback finds a deleted loop.
ShutdownOrder_ServerFirst ==
    <<"stop", "network", "server", "mainLoop", "database", "config", "log">>

\* Mutant: the log goes before the database.
ShutdownOrder_LogEarly ==
    <<"stop", "mainLoop", "network", "server", "log", "database", "config">>

\* shutdown(); "network" and "server" are the two halves of the server's
\* destructor.
ShutdownOrder ==
    <<"stop", "mainLoop", "network", "server", "database", "config", "log">>

Parts == {ShutdownOrder[i] : i \in 1..Len(ShutdownOrder)}

\* A pointer of the application is null or good: shutdown() may be repeated.
TypeOK ==
    /\ pc \in {"config", "log", "account", "game", "server", "initialize",
               "mainLoop", "start", "run", "wait", "shutdown", "returned"}
    /\ todo \in Seq(Parts)
    /\ calls \in 0..2
    /\ result \in {0, 1}
    /\ isRunning \in BOOLEAN
    /\ pointers \in SUBSET Objects
    /\ object \in [Objects -> {"none", "live", "deleted"}]
    /\ \A o \in pointers : object[o] = "live"
    /\ serverRunning \in BOOLEAN
    /\ eventLoop \in BOOLEAN
    /\ network \in [NetworkThreads -> {"none", "idle", "callback", "hung"}]
    /\ crashed \in BOOLEAN
    /\ Loop!TypeOK
    /\ Database!TypeOK
    /\ Logging!TypeOK

Init ==
    /\ pc = "config"
    /\ todo = <<>>
    /\ calls = 0
    /\ result = 0
    /\ isRunning = FALSE
    /\ pointers = {}
    /\ object = [o \in Objects |-> "none"]
    /\ serverRunning = FALSE
    /\ eventLoop = FALSE
    /\ network = [t \in NetworkThreads |-> "none"]
    /\ crashed = FALSE
    /\ Loop!Init
    /\ Database!Init
    /\ Logging!Init

-----------------------------------------------------------------------------
(* main(): initialize() and start()                                        *)

At(part) == pc = part

GoesTo(part) == pc' = part /\ UNCHANGED <<todo, calls, result, isRunning>>

\* shutdown() is called n times, one after the other.
ShutsDown(n, exitCode) ==
    /\ pc' = "shutdown"
    /\ todo' = ShutdownOrder
    /\ calls' = n
    /\ result' = exitCode
    /\ UNCHANGED isRunning

\* initialize() answers false: main() returns 1 and the application's
\* destructor calls shutdown().
Fails == ShutsDown(1, 1)

Creates(o) ==
    /\ pointers' = pointers \cup {o}
    /\ object' = [object EXCEPT ![o] = "live"]

\* new ConfigManager.
LoadConfig ==
    /\ At("config")
    /\ \/ Creates("config") /\ GoesTo("log")
       \/ UNCHANGED objectVars /\ Fails
    /\ UNCHANGED <<netVars, crashed, loopVars, dbVars, logVars>>

InitializeLog ==
    /\ At("log")
    /\ \E async \in BOOLEAN :
           \/ Logging!Initialize(async) /\ GoesTo("account")
           \/ Logging!InitializeFails(async) /\ Fails
    /\ UNCHANGED <<objectVars, netVars, crashed, loopVars, dbVars>>

\* initializeDatabase(): a pool comes to be or not, or an exception (no
\* thread, no memory) leaves initialize() and is caught here.
CreateAccountPool ==
    /\ At("account")
    /\ \/ Database!CreatePool("account") /\ GoesTo("game")
       \/ UNCHANGED pools /\ Fails
    /\ UNCHANGED <<objectVars, netVars, crashed, loopVars, dbInitialized, logVars>>

CreateGamePool ==
    /\ At("game")
    /\ \/ Database!CreatePool("game") /\ Database!Initialized /\ GoesTo("server")
       \/ UNCHANGED dbVars /\ Fails
    /\ UNCHANGED <<objectVars, netVars, crashed, loopVars, logVars>>

NewServer ==
    /\ At("server")
    /\ \/ Creates("server") /\ GoesTo("initialize")
       \/ UNCHANGED objectVars /\ Fails
    /\ UNCHANGED <<netVars, crashed, loopVars, dbVars, logVars>>

\* server->initialize(), see NetworkServer.
InitializeServer ==
    /\ At("initialize")
    /\ GoesTo("mainLoop") \/ Fails
    /\ UNCHANGED <<objectVars, netVars, crashed, loopVars, dbVars, logVars>>

\* The two types that have a handler.
RegisterMessageHandlers == handlers' = handlers \cup {"LOGIN", "REGISTER"}

\* new MainLoop, the pointers of the two to each other, and the handlers.
NewMainLoop ==
    /\ At("mainLoop")
    /\ \/ /\ Creates("mainLoop")
          /\ RegisterMessageHandlers
          /\ GoesTo("start")
       \/ UNCHANGED <<objectVars, handlers>> /\ Fails
    /\ UNCHANGED <<netVars, crashed, queue, current, loopRunning, loop, owner,
                   handled, dbVars, logVars>>

\* start(): server->start() answers false, or the network's threads run from
\* here on.  AsyncIOManager's own thread, the last one, may fail to start with
\* an exception that main() catches: main() then calls shutdown(), and so does
\* the destructor.
Start ==
    /\ At("start")
    /\ \/ UNCHANGED netVars /\ Fails
       \/ /\ serverRunning' = TRUE
          /\ eventLoop' = TRUE
          /\ network' = [t \in NetworkThreads |-> "idle"]
          /\ \/ /\ pc' = "run"
                /\ isRunning' = TRUE
                /\ UNCHANGED <<todo, calls, result>>
             \/ ShutsDown(2, 1)
    /\ UNCHANGED <<objectVars, crashed, loopVars, dbVars, logVars>>

-----------------------------------------------------------------------------
(* run() and stop()                                                        *)

\* The loop's thread starts, or std::thread throws when running_ is set.
Run ==
    /\ At("run")
    /\ \/ Loop!Start /\ GoesTo("wait")
       \/ /\ loopRunning' = TRUE
          /\ ShutsDown(2, 1)
          /\ UNCHANGED <<queue, current, handlers, loop, owner, handled>>
    /\ UNCHANGED <<objectVars, netVars, crashed, dbVars, logVars>>

\* stop() called by another thread.  In the program of today none does: the
\* signal handler goes for g_server, which is null.
Stop ==
    /\ At("wait")
    /\ isRunning
    /\ isRunning' = FALSE
    /\ serverRunning' = FALSE
    /\ UNCHANGED <<pc, todo, calls, result, objectVars, eventLoop, network, crashed,
                   loopVars, dbVars, logVars>>

\* The loop of run() ends; main() returns 0.
RunEnds ==
    /\ At("wait")
    /\ ~isRunning \/ ~serverRunning
    /\ ShutsDown(1, 0)
    /\ UNCHANGED <<objectVars, netVars, crashed, loopVars, dbVars, logVars>>

-----------------------------------------------------------------------------
(* shutdown()                                                              *)

\* Mutant: shutdown() has nothing to do unless the application runs.
Doing_IfRunning(part) ==
    /\ At("shutdown")
    /\ todo # <<>>
    /\ Head(todo) = part
    /\ todo' = IF part = "stop" /\ ~isRunning THEN <<>> ELSE Tail(todo)
    /\ UNCHANGED <<pc, calls, result>>

\* shutdown() is at a part and gets it done.
Doing(part) ==
    /\ At("shutdown")
    /\ todo # <<>>
    /\ Head(todo) = part
    /\ todo' = Tail(todo)
    /\ UNCHANGED <<pc, calls, result>>

\* Mutant: the pointer keeps its value.
Deletes_KeepsPointer(o) ==
    /\ object' = IF o \in pointers THEN [object EXCEPT ![o] = "deleted"] ELSE object
    /\ UNCHANGED pointers

\* if (p) { delete p; p = nullptr; }
Deletes(o) ==
    /\ object' = IF o \in pointers THEN [object EXCEPT ![o] = "deleted"] ELSE object
    /\ pointers' = pointers \ {o}

ShutdownStop ==
    /\ Doing("stop")
    /\ isRunning' = FALSE
    /\ serverRunning' = FALSE
    /\ UNCHANGED <<objectVars, eventLoop, network, crashed, loopVars, dbVars, logVars>>

\* mainLoop->stop(): the flag; there is no thread to join after a start() that
\* threw.
StopMainLoop ==
    /\ At("shutdown")
    /\ todo # <<>>
    /\ Head(todo) = "mainLoop"
    /\ \/ loop # "none" /\ Loop!Stop
       \/ /\ loop = "none"
          /\ loopRunning
          /\ loopRunning' = FALSE
          /\ UNCHANGED <<queue, current, handlers, loop, owner, handled>>
    /\ UNCHANGED <<appVars, objectVars, netVars, crashed, dbVars, logVars>>

JoinMainLoop ==
    /\ Loop!StopJoin
    /\ UNCHANGED <<appVars, objectVars, netVars, crashed, dbVars, logVars>>

\* Its queue and its handlers go with it.
DeleteMainLoop ==
    /\ Doing("mainLoop")
    /\ ~loopRunning
    /\ owner = "idle"
    /\ Deletes("mainLoop")
    /\ queue' = <<>>
    /\ handlers' = {}
    /\ UNCHANGED <<isRunning, netVars, crashed, current, loopRunning, loop, owner,
                   handled, dbVars, logVars>>

\* ~NetworkServer(): the asynchronous I/O is told to stop ...
StopNetwork ==
    /\ Doing("network")
    /\ eventLoop' = FALSE
    /\ UNCHANGED <<isRunning, objectVars, serverRunning, network, crashed, loopVars,
                   dbVars, logVars>>

\* ... and its threads are joined before the sockets are closed.
DeleteServer ==
    /\ Doing("server")
    /\ \A t \in NetworkThreads : network[t] = "none"
    /\ Deletes("server")
    /\ UNCHANGED <<isRunning, netVars, crashed, loopVars, dbVars, logVars>>

ShutdownDatabase ==
    /\ Doing("database")
    /\ Database!Shutdown
    /\ UNCHANGED <<isRunning, objectVars, netVars, crashed, loopVars, logVars>>

DeleteConfig ==
    /\ Doing("config")
    /\ Deletes("config")
    /\ UNCHANGED <<isRunning, netVars, crashed, loopVars, dbVars, logVars>>

ShutdownLog ==
    /\ Doing("log")
    /\ Logging!Shutdown
    /\ UNCHANGED <<isRunning, objectVars, netVars, crashed, loopVars, dbVars>>

\* shutdown() returns: once more, or main() is over.
ShutdownReturns ==
    /\ At("shutdown")
    /\ todo = <<>>
    /\ calls' = calls - 1
    /\ \/ calls > 1 /\ todo' = ShutdownOrder /\ UNCHANGED pc
       \/ calls = 1 /\ pc' = "returned" /\ UNCHANGED todo
    /\ UNCHANGED <<result, isRunning, objectVars, netVars, crashed, loopVars, dbVars,
                   logVars>>

-----------------------------------------------------------------------------
(* The network's threads                                                   *)

ThreadMoves(t, from, to) ==
    /\ network[t] = from
    /\ network' = [network EXCEPT ![t] = to]
    /\ UNCHANGED <<serverRunning, eventLoop>>

CallbackBegins(t) ==
    /\ eventLoop
    /\ ThreadMoves(t, "idle", "callback")
    /\ UNCHANGED <<appVars, objectVars, crashed, loopVars, dbVars, logVars>>

\* onReadEvent() has a message, one of those its data completed:
\* mainLoop_->addMessage().
HandOver(t, m) ==
    /\ object["mainLoop"] = "live"
    /\ ThreadMoves(t, "callback", "callback")
    /\ Loop!AddMessage(m)
    /\ UNCHANGED <<appVars, objectVars, crashed, dbVars, logVars>>

\* The same when the main loop has been deleted: the message is lost in freed
\* memory, the mutex there is never free, or the process dies.
HandOverToDeleted(t) ==
    /\ object["mainLoop"] = "deleted"
    /\ \/ ThreadMoves(t, "callback", "callback") /\ UNCHANGED crashed
       \/ ThreadMoves(t, "callback", "hung") /\ UNCHANGED crashed
       \/ ThreadMoves(t, "callback", "idle") /\ crashed' = TRUE
    /\ UNCHANGED <<appVars, objectVars, loopVars, dbVars, logVars>>

\* The callback is over, or it never is: startAsyncReceive() and sendAsync()
\* lock a mutex that WindowsIOCP holds around the callback (AsyncIOManager),
\* the welcome goes through a send() that waits for the client there, and
\* other threads wait for the mutex behind them.
CallbackReturns(t) ==
    /\ \E to \in {"idle", "hung"} : ThreadMoves(t, "callback", to)
    /\ UNCHANGED <<appVars, objectVars, crashed, loopVars, dbVars, logVars>>

\* Mutant: a thread that was told to stop waits for one more event.
ThreadExits_OnEventOnly(t) ==
    /\ ~eventLoop
    /\ ThreadMoves(t, "callback", "none")
    /\ UNCHANGED <<appVars, objectVars, crashed, loopVars, dbVars, logVars>>

ThreadExits(t) ==
    /\ ~eventLoop
    /\ ThreadMoves(t, "idle", "none")
    /\ UNCHANGED <<appVars, objectVars, crashed, loopVars, dbVars, logVars>>

-----------------------------------------------------------------------------
MainStep ==
    \/ LoadConfig \/ InitializeLog \/ CreateAccountPool \/ CreateGamePool
    \/ NewServer \/ InitializeServer \/ NewMainLoop \/ Start \/ Run \/ RunEnds
    \/ ShutdownStop \/ StopMainLoop \/ JoinMainLoop \/ DeleteMainLoop
    \/ StopNetwork \/ DeleteServer \/ ShutdownDatabase \/ DeleteConfig
    \/ ShutdownLog \/ ShutdownReturns

CallbackStep(t) ==
    \/ \E m \in Messages : HandOver(t, m)
    \/ HandOverToDeleted(t)
    \/ CallbackReturns(t)
    \/ ThreadExits(t)

LoopThread ==
    /\ Loop!LoopStep
    /\ UNCHANGED <<appVars, objectVars, netVars, crashed, dbVars, logVars>>

Next ==
    /\ ~crashed
    /\ \/ MainStep
       \/ Stop
       \/ \E t \in NetworkThreads : CallbackBegins(t) \/ CallbackStep(t)
       \/ LoopThread

\* Threads run, unless they hang: callbacks and handlers end or block.  Nobody
\* has to call stop() and no data has to come.
Spec ==
    /\ Init
    /\ [][Next]_vars
    /\ WF_vars(~crashed /\ MainStep)
    /\ WF_vars(~crashed /\ LoopThread)
    /\ \A t \in NetworkThreads : WF_vars(~crashed /\ CallbackStep(t))

-----------------------------------------------------------------------------
(* Properties                                                              *)

\* Handlers answer through the application's server and read the table of the
\* main loop, callbacks run on the server: shutdown() deletes neither under
\* them.  (The main loop under a callback is the exception: a callback may
\* find it deleted, see HandOverToDeleted.)
ThreadsFindTheirObjects ==
    /\ loop # "none" => {"server", "mainLoop"} \subseteq pointers
    /\ \A t \in NetworkThreads : network[t] # "none" => object["server"] = "live"

\* The logger is reset without a lock: by then no thread of the program that
\* writes to it is left.  (After a failed start a pool may be: the one whose
\* successor threw, which shutdown() passes over.)
LogOutlivesThreads ==
    logger = "reset" =>
        /\ loop = "none"
        /\ \A t \in NetworkThreads : network[t] = "none"
        /\ pools = {} \/ (~dbInitialized /\ result = 1)

\* However far the start came, main() returns without an object and without a
\* thread of the loop or the network.  After a stop() there is no pool, no logger
\* and no thread of these either.  A start that failed may leave one thing behind
\* that shutdown() passes over: a pool whose successor threw, or the writers of a
\* log whose initialize() failed later on, never both.
CleanReturn ==
    pc = "returned" =>
        /\ \A o \in Objects : object[o] # "live"
        /\ loop = "none"
        /\ \A t \in NetworkThreads : network[t] = "none"
        /\ result = 0 => pools = {} /\ ~writers /\ logger = "reset"
        /\ ~logInitialized /\ (pools = {} \/ ~writers)

\* A shutdown() that begins ends, however far the start came, and twice after
\* an exception.  Where a handler blocks it waits for the main loop's thread,
\* and where a callback does, in a lock, a send() or the deleted main loop,
\* for the network's; nothing else keeps it.
ShutdownCompletes ==
    pc = "shutdown" ~>
        \/ pc = "returned"
        \/ crashed
        \/ todo # <<>> /\ Head(todo) = "mainLoop" /\ owner = "join" /\ loop = "stuck"
        \/ todo # <<>> /\ Head(todo) = "server" /\ \E t \in NetworkThreads : network[t] = "hung"
=============================================================================
