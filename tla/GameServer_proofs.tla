-------------------------- MODULE GameServer_proofs --------------------------
(***************************************************************************)
(* Proofs about GameServer, for every set of messages, of message types    *)
(* that has LOGIN and REGISTER, and of network threads.                    *)
(***************************************************************************)
EXTENDS GameServer, SequenceTheorems, TLAPS

\* shutdown() is at the part of ShutdownOrder that its to-do list says.
AtItsPart ==
    /\ pc = "shutdown" =>
         /\ calls \in {1, 2}
         /\ Len(todo) <= 7
         /\ \A i \in 1..Len(todo) : todo[i] = ShutdownOrder[7 - Len(todo) + i]
    /\ result = 1 => pc \in {"shutdown", "returned"}

\* The last n parts of shutdown() have not been done, if it runs at all.
Ahead(n) == pc # "returned" /\ (pc = "shutdown" => Len(todo) >= n)

\* What there is of the loop and of its owner's stop(), see MainLoop_proofs.
\* (After a start() that threw there is the flag without the thread.)
LoopHandshake ==
    /\ loop # "none" /\ owner = "idle" => loopRunning
    /\ owner = "join" => ~loopRunning /\ loop # "none"
    /\ loop # "none" \/ loopRunning => pc \in {"wait", "shutdown"} /\ Ahead(6)
    /\ loop # "none" => {"server", "mainLoop"} \subseteq pointers

\* The network's threads exist from start() to the end of ~NetworkServer().
NetworkThere == eventLoop \/ \E t \in NetworkThreads : network[t] # "none"

NetworkHandshake ==
    /\ NetworkThere =>
         pc \in {"run", "wait", "shutdown"} /\ Ahead(4) /\ "server" \in pointers
    /\ eventLoop => Ahead(5)

\* What initialize() has made and shutdown() has not yet taken down.
Inventory ==
    /\ "mainLoop" \in pointers => Ahead(6)
    /\ "server" \in pointers => Ahead(4)
    /\ "config" \in pointers => Ahead(2)
    /\ logInitialized => Ahead(1)
    /\ pc \in {"initialize", "mainLoop", "start", "run", "wait"} => "server" \in pointers
    /\ pc \in {"start", "run", "wait"} => "mainLoop" \in pointers
    /\ logger = "reset" => pc \in {"shutdown", "returned"}

\* Which pools may be there: after an exception in initialize() shutdown() may
\* pass one over.
PoolInventory ==
    /\ dbInitialized => pc \notin {"config", "log", "account", "game"} /\ Ahead(3)
    /\ pools # {} => dbInitialized \/ pc = "game" \/ result = 1
    /\ pc \in {"server", "initialize", "mainLoop", "start", "run", "wait"}
         => dbInitialized

\* Where main() has the log, and where it is past shutdown().
WithLog == {"account", "game", "server", "initialize", "mainLoop", "start", "run", "wait"}
Ending == {"shutdown", "returned"}

\* The log is there from its initialize() to its shutdown(), and what a failed
\* initialize() leaves is the only thing that is left.
LogInventory ==
    /\ pc \in WithLog => logInitialized
    /\ pc \in Ending /\ result = 0 => logInitialized \/ logger = "reset"
    /\ writers /\ ~logInitialized => pc \in Ending /\ pools = {} /\ logger # "reset"

\* The types of main() itself, one part of TypeOK.
MainTypes ==
    /\ pc \in {"config", "log", "account", "game", "server", "initialize",
               "mainLoop", "start", "run", "wait", "shutdown", "returned"}
    /\ todo \in Seq(Parts)
    /\ calls \in 0..2
    /\ result \in {0, 1}
    /\ isRunning \in BOOLEAN

\* The types of the objects, another.
ObjectTypes ==
    /\ pointers \in SUBSET Objects
    /\ object \in [Objects -> {"none", "live", "deleted"}]
    /\ \A o \in Objects : object[o] = "live" <=> o \in pointers

\* And those of the network's threads.
NetworkTypes ==
    /\ serverRunning \in BOOLEAN
    /\ eventLoop \in BOOLEAN
    /\ network \in [NetworkThreads -> {"none", "idle", "callback", "hung"}]
    /\ crashed \in BOOLEAN

\* The inductive invariant.
AppInv ==
    /\ TypeOK
    /\ ObjectTypes
    /\ AtItsPart
    /\ LoopHandshake
    /\ NetworkHandshake
    /\ Inventory
    /\ PoolInventory
    /\ LogInventory
    /\ LogOutlivesThreads

-----------------------------------------------------------------------------
\* The parts of shutdown(), counted from the first.
LEMMA TheParts ==
  /\ ShutdownOrder \in Seq(Parts)
  /\ Len(ShutdownOrder) = 7
  /\ ShutdownOrder[1] = "stop"
  /\ ShutdownOrder[2] = "mainLoop"
  /\ ShutdownOrder[3] = "network"
  /\ ShutdownOrder[4] = "server"
  /\ ShutdownOrder[5] = "database"
  /\ ShutdownOrder[6] = "config"
  /\ ShutdownOrder[7] = "log"
  BY DEF ShutdownOrder, Parts

\* A part that gets done is the next one in the order.
LEMMA DoingIsNext ==
  ASSUME todo \in Seq(Parts), AtItsPart, NEW part, Doing(part)
  PROVE  /\ pc = "shutdown" /\ pc' = pc /\ calls' = calls /\ result' = result
         /\ Len(todo) \in 1..7
         /\ part = ShutdownOrder[8 - Len(todo)]
         /\ todo' \in Seq(Parts)
         /\ Len(todo') = Len(todo) - 1
         /\ AtItsPart'
  <1>1. pc = "shutdown" /\ todo # <<>> /\ Head(todo) = part /\ todo' = Tail(todo)
        /\ UNCHANGED <<pc, calls, result>>
    BY DEF Doing, At
  <1>2. Len(todo) \in 1..7 /\ todo[1] = part
    <2>1. Len(todo) \in Nat /\ Len(todo) # 0 /\ todo[1] = part
      BY <1>1
    <2>2. Len(todo) <= 7
      BY <1>1 DEF AtItsPart
    <2>3. \A n \in Nat : n # 0 /\ n <= 7 => n \in 1..7
      OBVIOUS
    <2> QED  BY <2>1, <2>2, <2>3, Zenon
  <1>3. part = ShutdownOrder[8 - Len(todo)]
    BY <1>1, <1>2 DEF AtItsPart
  <1>4. /\ todo' \in Seq(Parts)
        /\ Len(todo') = Len(todo) - 1
        /\ \A i \in 1..Len(todo') : todo'[i] = todo[i + 1]
    BY <1>1
  <1>5. \A i \in 1..Len(todo') : todo'[i] = ShutdownOrder[7 - Len(todo') + i]
    BY <1>1, <1>2, <1>4 DEF AtItsPart
  <1>6. AtItsPart'
    <2>1. /\ calls' \in {1, 2}
          /\ Len(todo') <= 7
          /\ pc' = "shutdown"
      BY <1>1, <1>2, <1>4 DEF AtItsPart
    <2> QED  BY <1>5, <2>1 DEF AtItsPart
  <1> QED  BY <1>1, <1>2, <1>3, <1>4, <1>6

\* So that the part tells how much is left.
LEMMA DoingLeaves ==
  ASSUME todo \in Seq(Parts), AtItsPart, NEW part, Doing(part)
  PROVE  /\ part = "stop" => Len(todo) = 7
         /\ part = "mainLoop" => Len(todo) = 6
         /\ part = "network" => Len(todo) = 5
         /\ part = "server" => Len(todo) = 4
         /\ part = "database" => Len(todo) = 3
         /\ part = "config" => Len(todo) = 2
         /\ part = "log" => Len(todo) = 1
  <1>1. Len(todo) \in 1..7 /\ part = ShutdownOrder[8 - Len(todo)]
    BY DoingIsNext
  <1>2. PICK k \in 1..7 : k = Len(todo)
    BY <1>1
  <1>3. part = ShutdownOrder[8 - k]
    BY <1>1, <1>2
  <1>4. k = 1 \/ k = 2 \/ k = 3 \/ k = 4 \/ k = 5 \/ k = 6 \/ k = 7
    BY <1>2
  <1>5. 8 - 1 = 7 /\ 8 - 2 = 6 /\ 8 - 3 = 5 /\ 8 - 4 = 4 /\ 8 - 5 = 3 /\ 8 - 6 = 2 /\ 8 - 7 = 1
    OBVIOUS
  <1> QED  BY <1>2, <1>3, <1>4, <1>5, TheParts, ZenonT(30)

-----------------------------------------------------------------------------
(* Types                                                                   *)

\* The actions that leave the main loop alone do.
LEMMA LoopMoves ==
  ASSUME [Next]_vars
  PROVE  \/ UNCHANGED loopVars
         \/ NewMainLoop \/ Run \/ StopMainLoop \/ JoinMainLoop \/ DeleteMainLoop
         \/ \E t \in NetworkThreads, m \in Messages : HandOver(t, m)
         \/ LoopThread
  BY DEF Next, MainStep, CallbackStep, LoadConfig, InitializeLog, CreateAccountPool,
         CreateGamePool, NewServer, InitializeServer, Start, RunEnds, ShutdownStop,
         StopNetwork, DeleteServer, ShutdownDatabase, DeleteConfig, ShutdownLog,
         ShutdownReturns, Stop, CallbackBegins, HandOverToDeleted, CallbackReturns,
         ThreadExits, vars

\* The main loop keeps its types, whoever steps.
LEMMA LoopTypeStep ==
  ASSUME Loop!TypeOK, LoopHandshake, [Next]_vars PROVE Loop!TypeOK'
  <1> USE AppAssumption DEF Loop!TypeOK, loopVars
  <1>1. CASE UNCHANGED loopVars
    BY <1>1
  <1>2. CASE NewMainLoop
    BY <1>2 DEF NewMainLoop, RegisterMessageHandlers
  <1>3. CASE Run
    <2>1. CASE Loop!Start
      BY <1>3, <2>1 DEF Loop!Start, Loop!tables, Run, At, LoopHandshake
    <2>2. CASE loopRunning' = TRUE /\ UNCHANGED <<queue, current, handlers, loop, owner, handled>>
      BY <2>2
    <2> QED  BY <1>3, <2>1, <2>2 DEF Run
  <1>4. CASE StopMainLoop
    BY <1>4 DEF StopMainLoop, Loop!Stop, Loop!tables
  <1>5. CASE JoinMainLoop
    BY <1>5 DEF JoinMainLoop, Loop!StopJoin, Loop!tables
  <1>6. CASE DeleteMainLoop
    BY <1>6, EmptySeq DEF DeleteMainLoop
  <1>7. ASSUME NEW t \in NetworkThreads, NEW m \in Messages, HandOver(t, m)
        PROVE  Loop!TypeOK'
    BY <1>7 DEF HandOver, Loop!AddMessage
  <1>8. CASE LoopThread
    <2>1. CASE Loop!LoopTest
      BY <2>1 DEF Loop!LoopTest, Loop!tables
    <2>2. CASE Loop!GetNextMessage
      <3>1. CASE Loop!TakeMessage
        <4>1. Head(queue) \in Messages /\ Tail(queue) \in Seq(Messages)
          BY <3>1 DEF Loop!TakeMessage
        <4> QED  BY <2>2, <3>1, <4>1 DEF Loop!GetNextMessage, Loop!TakeMessage
      <3> QED  BY <2>2, <3>1 DEF Loop!GetNextMessage
    <2>3. ASSUME Loop!Dispatched, loop \in {"lock", "handle"},
                 UNCHANGED <<queue, handlers, loopRunning, owner>>
          PROVE  Loop!TypeOK'
      <3>1. PICK m \in Messages : current = <<m>>
        BY <2>3
      <3>2. handled \o current \in Seq(Messages)
        BY <3>1
      <3> QED  BY <2>3, <3>2 DEF Loop!Dispatched
    <2>4. CASE Loop!HandleMessage
      BY <2>3, <2>4 DEF Loop!HandleMessage
    <2>5. ASSUME NEW outcome \in HandlerOutcome, Loop!HandlerEnds(outcome)
          PROVE  Loop!TypeOK'
      BY <2>3, <2>5 DEF Loop!HandlerEnds
    <2>6. CASE Loop!HandlerBlocks
      BY <2>6 DEF Loop!HandlerBlocks, Loop!tables
    <2> QED  BY <1>8, <2>1, <2>2, <2>4, <2>5, <2>6 DEF LoopThread, Loop!LoopStep
  <1> QED  BY <1>1, <1>2, <1>3, <1>4, <1>5, <1>6, <1>7, <1>8, LoopMoves

\* The database manager and the log keep theirs.
LEMMA ServiceTypeStep ==
  ASSUME Database!TypeOK, Logging!TypeOK, Inventory, [Next]_vars
  PROVE  Database!TypeOK' /\ Logging!TypeOK'
  <1> USE DEF Database!TypeOK, Logging!TypeOK, Database!Names
  <1>1. CASE InitializeLog
    <2>1. PICK async \in BOOLEAN : Logging!Initialize(async) \/ Logging!InitializeFails(async)
      BY <1>1 DEF InitializeLog
    <2>2. Logging!TypeOK'
      <3>1. CASE logInitialized' = TRUE /\ logger' = "set" /\ writers' = async
        BY <3>1
      <3>2. CASE ~logInitialized /\ UNCHANGED <<logInitialized, logger, writers>>
        BY <3>2
      <3>3. CASE ~logInitialized /\ logger' \in {"none", "set"} /\ writers' = async
                 /\ UNCHANGED logInitialized
        BY <3>3
      <3> QED  BY <2>1, <3>1, <3>2, <3>3 DEF Logging!Initialize, Logging!InitializeFails
    <2> QED  BY <1>1, <2>2 DEF InitializeLog, dbVars
  <1>2. CASE CreateAccountPool \/ CreateGamePool
    <2>1. UNCHANGED logVars
      BY <1>2 DEF CreateAccountPool, CreateGamePool
    <2>2. Database!TypeOK'
      BY <1>2 DEF CreateAccountPool, CreateGamePool, Database!CreatePool,
                  Database!Initialized, dbVars
    <2> QED  BY <2>1, <2>2 DEF logVars
  <1>3. CASE ShutdownDatabase \/ ShutdownLog
    <2>1. CASE ShutdownDatabase
      <3>1. Database!TypeOK'
        BY <2>1 DEF ShutdownDatabase, Database!Shutdown, Database!vars
      <3> QED  BY <2>1, <3>1 DEF ShutdownDatabase, logVars
    <2>2. CASE ShutdownLog
      <3>1. Logging!TypeOK'
        <4>1. CASE ~logInitialized /\ UNCHANGED <<logInitialized, logger, writers>>
          BY <4>1
        <4>2. CASE logInitialized' = FALSE /\ logger' = "reset" /\ writers' = FALSE
          BY <4>2
        <4> QED  BY <2>2, <4>1, <4>2 DEF ShutdownLog, Logging!Shutdown, Logging!vars
      <3> QED  BY <2>2, <3>1 DEF ShutdownLog, dbVars
    <2> QED  BY <1>3, <2>1, <2>2
  <1>4. CASE UNCHANGED <<dbVars, logVars>>
    BY <1>4 DEF dbVars, logVars
  <1>5. \/ InitializeLog \/ CreateAccountPool \/ CreateGamePool
        \/ ShutdownDatabase \/ ShutdownLog
        \/ UNCHANGED <<dbVars, logVars>>
    BY DEF Next, MainStep, CallbackStep, LoadConfig, NewServer, InitializeServer,
           NewMainLoop, Start, Run, RunEnds, ShutdownStop, StopMainLoop, JoinMainLoop,
           DeleteMainLoop, StopNetwork, DeleteServer, DeleteConfig, ShutdownReturns,
           Stop, CallbackBegins, HandOver, HandOverToDeleted, CallbackReturns,
           ThreadExits, LoopThread, vars
  <1> QED  BY <1>1, <1>2, <1>3, <1>4, <1>5

\* main() keeps its types, and shutdown() its place in the order.
LEMMA MainTypeStep ==
  ASSUME MainTypes, AtItsPart, [Next]_vars PROVE MainTypes' /\ AtItsPart'
  <1> USE DEF MainTypes
  <1>1. ASSUME UNCHANGED <<pc, todo, calls, result>>, isRunning' \in BOOLEAN
        PROVE  MainTypes' /\ AtItsPart'
    BY <1>1 DEF AtItsPart
  <1>2. ASSUME NEW part, GoesTo(part), pc # "shutdown", pc # "returned",
               part \in {"log", "account", "game", "server", "initialize",
                         "mainLoop", "start", "run", "wait"}
        PROVE  MainTypes' /\ AtItsPart'
    BY <1>2 DEF GoesTo, AtItsPart
  <1>3. ASSUME NEW n \in {1, 2}, NEW code \in {0, 1}, isRunning' \in BOOLEAN,
               pc' = "shutdown", todo' = ShutdownOrder, calls' = n, result' = code
        PROVE  MainTypes' /\ AtItsPart'
    <2>1. MainTypes'
      BY <1>3, TheParts
    <2>2. Len(todo') = 7 /\ \A i \in 1..7 : todo'[i] = ShutdownOrder[i]
      BY <1>3, TheParts
    <2>3. \A i \in 1..7 : ShutdownOrder[i] = ShutdownOrder[7 - 7 + i]
      OBVIOUS
    <2> QED  BY <1>3, <2>1, <2>2, <2>3 DEF AtItsPart
  <1>4. ASSUME NEW n \in {1, 2}, NEW code \in {0, 1}, ShutsDown(n, code)
        PROVE  MainTypes' /\ AtItsPart'
    BY <1>3, <1>4 DEF ShutsDown
  <1>5. ASSUME NEW part, Doing(part), isRunning' \in BOOLEAN
        PROVE  MainTypes' /\ AtItsPart'
    <2>1. /\ pc' = pc /\ calls' = calls /\ result' = result
          /\ todo' \in Seq(Parts) /\ AtItsPart'
      BY <1>5, DoingIsNext
    <2> QED  BY <1>5, <2>1
  <1>6. CASE LoadConfig \/ InitializeLog \/ CreateAccountPool \/ CreateGamePool
    BY <1>2, <1>4, <1>6 DEF LoadConfig, InitializeLog, CreateAccountPool,
                            CreateGamePool, At, Fails
  <1>7. CASE NewServer \/ InitializeServer \/ NewMainLoop
    BY <1>2, <1>4, <1>7 DEF NewServer, InitializeServer, NewMainLoop, At, Fails
  <1>8. CASE Start
    <2>1. CASE ShutsDown(2, 1)
      BY <1>4, <2>1
    <2>2. CASE pc' = "run" /\ isRunning' = TRUE /\ UNCHANGED <<todo, calls, result>>
      BY <1>8, <2>2 DEF Start, At, AtItsPart
    <2>3. CASE Fails /\ UNCHANGED netVars
      BY <1>4, <2>3 DEF Fails
    <2> QED  BY <1>8, <2>1, <2>2, <2>3 DEF Start
  <1>9. CASE Run
    BY <1>2, <1>4, <1>9 DEF Run, At
  <1>10. CASE RunEnds
    BY <1>4, <1>10 DEF RunEnds
  <1>11. CASE \/ ShutdownStop \/ DeleteMainLoop \/ StopNetwork \/ DeleteServer
              \/ ShutdownDatabase \/ DeleteConfig \/ ShutdownLog
    BY <1>5, <1>11 DEF ShutdownStop, DeleteMainLoop, StopNetwork, DeleteServer,
                       ShutdownDatabase, DeleteConfig, ShutdownLog
  <1>12. CASE ShutdownReturns
    <2>1. calls \in {1, 2} /\ pc = "shutdown"
      BY <1>12 DEF ShutdownReturns, At, AtItsPart
    <2>2. CASE calls > 1 /\ todo' = ShutdownOrder /\ UNCHANGED pc
      BY <1>3, <1>12, <2>1, <2>2 DEF ShutdownReturns
    <2>3. CASE calls = 1 /\ pc' = "returned" /\ UNCHANGED todo
      BY <1>12, <2>3 DEF ShutdownReturns, AtItsPart
    <2> QED  BY <1>12, <2>2, <2>3 DEF ShutdownReturns
  <1>13. CASE \/ StopMainLoop \/ JoinMainLoop \/ Stop \/ LoopThread
              \/ \E t \in NetworkThreads : CallbackBegins(t) \/ CallbackStep(t)
              \/ UNCHANGED vars
    BY <1>1, <1>13 DEF StopMainLoop, JoinMainLoop, Stop, LoopThread, CallbackBegins,
                       CallbackStep, HandOver, HandOverToDeleted, CallbackReturns,
                       ThreadExits, appVars, vars
  <1> QED
    BY <1>6, <1>7, <1>8, <1>9, <1>10, <1>11, <1>12, <1>13 DEF Next, MainStep

-----------------------------------------------------------------------------
(* What shutdown() has ahead of it                                         *)

\* A part stays ahead until it is done, and only its action does it.
LEMMA AheadStep ==
  ASSUME MainTypes, AtItsPart, [Next]_vars
  PROVE  /\ Ahead(6) => Ahead(6)' \/ DeleteMainLoop
         /\ Ahead(5) => Ahead(5)' \/ StopNetwork
         /\ Ahead(4) => Ahead(4)' \/ DeleteServer
         /\ Ahead(3) => Ahead(3)' \/ ShutdownDatabase
         /\ Ahead(2) => Ahead(2)' \/ DeleteConfig
         /\ Ahead(1) => Ahead(1)' \/ ShutdownLog
  <1>1. ASSUME UNCHANGED <<pc, todo>>, NEW n PROVE Ahead(n) => Ahead(n)'
    BY <1>1 DEF Ahead
  <1>2. ASSUME pc' \notin {"shutdown", "returned"}, NEW n PROVE Ahead(n)'
    BY <1>2 DEF Ahead
  <1>3. ASSUME pc' = "shutdown", todo' = ShutdownOrder, NEW n \in 1..6 PROVE Ahead(n)'
    BY <1>3, TheParts DEF Ahead
  <1>4. ASSUME NEW part, Doing(part)
        PROVE  /\ Len(todo) \in 1..7
               /\ \A n \in 1..6 : Ahead(n) /\ n # Len(todo) => Ahead(n)'
    <2>1. pc = "shutdown" /\ pc' = pc /\ Len(todo) \in 1..7 /\ Len(todo') = Len(todo) - 1
      BY <1>4, DoingIsNext DEF MainTypes
    <2> QED  BY <2>1 DEF Ahead
  <1>5. CASE LoadConfig \/ InitializeLog \/ CreateAccountPool \/ CreateGamePool
    BY <1>2, <1>3, <1>5 DEF LoadConfig, InitializeLog, CreateAccountPool,
                            CreateGamePool, GoesTo, Fails, ShutsDown
  <1>6. CASE NewServer \/ InitializeServer \/ NewMainLoop
    BY <1>2, <1>3, <1>6 DEF NewServer, InitializeServer, NewMainLoop, GoesTo, Fails,
                            ShutsDown
  <1>7. CASE Start \/ Run \/ RunEnds
    BY <1>2, <1>3, <1>7 DEF Start, Run, RunEnds, GoesTo, Fails, ShutsDown
  <1>8. CASE ShutdownStop
    <2>1. Len(todo) = 7
      BY <1>8, DoingLeaves DEF ShutdownStop, MainTypes
    <2> QED  BY <1>4, <1>8, <2>1 DEF ShutdownStop
  <1>9. CASE DeleteMainLoop
    <2>1. Len(todo) = 6
      BY <1>9, DoingLeaves DEF DeleteMainLoop, MainTypes
    <2> QED  BY <1>4, <1>9, <2>1 DEF DeleteMainLoop
  <1>10. CASE StopNetwork
    <2>1. Len(todo) = 5
      BY <1>10, DoingLeaves DEF StopNetwork, MainTypes
    <2> QED  BY <1>4, <1>10, <2>1 DEF StopNetwork
  <1>11. CASE DeleteServer
    <2>1. Len(todo) = 4
      BY <1>11, DoingLeaves DEF DeleteServer, MainTypes
    <2> QED  BY <1>4, <1>11, <2>1 DEF DeleteServer
  <1>12. CASE ShutdownDatabase
    <2>1. Len(todo) = 3
      BY <1>12, DoingLeaves DEF ShutdownDatabase, MainTypes
    <2> QED  BY <1>4, <1>12, <2>1 DEF ShutdownDatabase
  <1>13. CASE DeleteConfig
    <2>1. Len(todo) = 2
      BY <1>13, DoingLeaves DEF DeleteConfig, MainTypes
    <2> QED  BY <1>4, <1>13, <2>1 DEF DeleteConfig
  <1>14. CASE ShutdownLog
    <2>1. Len(todo) = 1
      BY <1>14, DoingLeaves DEF ShutdownLog, MainTypes
    <2> QED  BY <1>4, <1>14, <2>1 DEF ShutdownLog
  <1>15. CASE ShutdownReturns
    <2>1. pc = "shutdown" /\ Len(todo) = 0
      BY <1>15 DEF ShutdownReturns, At
    <2> QED  BY <2>1 DEF Ahead
  <1>16. CASE \/ StopMainLoop \/ JoinMainLoop \/ Stop \/ LoopThread
              \/ \E t \in NetworkThreads : CallbackBegins(t) \/ CallbackStep(t)
              \/ UNCHANGED vars
    BY <1>1, <1>16 DEF StopMainLoop, JoinMainLoop, Stop, LoopThread, CallbackBegins,
                       CallbackStep, HandOver, HandOverToDeleted, CallbackReturns,
                       ThreadExits, appVars, vars
  <1> QED
    BY <1>5, <1>6, <1>7, <1>8, <1>9, <1>10, <1>11, <1>12, <1>13, <1>14, <1>15, <1>16
    DEF Next, MainStep

-----------------------------------------------------------------------------
(* The objects                                                             *)

\* An object is created on the way up and deleted on the way down.
LEMMA ObjectMoves ==
  ASSUME [Next]_vars
  PROVE  \/ UNCHANGED objectVars
         \/ \E o \in Objects : Creates(o) /\ pc' \notin {"shutdown", "returned"}
         \/ \E o \in Objects : Deletes(o) /\ pc' = "shutdown"
  <1>1. CASE LoadConfig \/ NewServer \/ NewMainLoop
    BY <1>1 DEF LoadConfig, NewServer, NewMainLoop, GoesTo, Objects, objectVars
  <1>2. CASE DeleteMainLoop \/ DeleteServer \/ DeleteConfig
    BY <1>2 DEF DeleteMainLoop, DeleteServer, DeleteConfig, Doing, At, Objects
  <1>3. \/ LoadConfig \/ NewServer \/ NewMainLoop
        \/ DeleteMainLoop \/ DeleteServer \/ DeleteConfig
        \/ UNCHANGED objectVars
    BY DEF Next, MainStep, CallbackStep, InitializeLog, CreateAccountPool,
           CreateGamePool, InitializeServer, Start, Run, RunEnds, ShutdownStop,
           StopMainLoop, JoinMainLoop, StopNetwork, ShutdownDatabase, ShutdownLog,
           ShutdownReturns, Stop, CallbackBegins, HandOver, HandOverToDeleted,
           CallbackReturns, ThreadExits, LoopThread, vars
  <1> QED  BY <1>1, <1>2, <1>3

\* A pointer of the application is null or good, and no object is lost.
LEMMA ObjectTypeStep ==
  ASSUME ObjectTypes, [Next]_vars PROVE ObjectTypes'
  <1> USE DEF ObjectTypes
  <1>1. CASE UNCHANGED objectVars
    BY <1>1 DEF objectVars
  <1>2. ASSUME NEW o \in Objects, Creates(o) PROVE ObjectTypes'
    BY <1>2 DEF Creates
  <1>3. ASSUME NEW o \in Objects, Deletes(o) PROVE ObjectTypes'
    BY <1>3 DEF Deletes
  <1> QED  BY <1>1, <1>2, <1>3, ObjectMoves

\* A pointer that is not null is null again before its part of shutdown() is
\* over.
LEMMA PointersStep ==
  ASSUME MainTypes, AtItsPart, ObjectTypes, Inventory, [Next]_vars
  PROVE  /\ "mainLoop" \in pointers' => Ahead(6)'
         /\ "server" \in pointers' => Ahead(4)'
         /\ "config" \in pointers' => Ahead(2)'
  <1>1. CASE pc' \notin {"shutdown", "returned"}
    BY <1>1 DEF Ahead
  <1>2. CASE pointers' \subseteq pointers
    <2>1. DeleteMainLoop => "mainLoop" \notin pointers'
      BY DEF DeleteMainLoop, Deletes
    <2>2. DeleteServer => "server" \notin pointers'
      BY DEF DeleteServer, Deletes
    <2>3. DeleteConfig => "config" \notin pointers'
      BY DEF DeleteConfig, Deletes
    <2> QED  BY <1>2, <2>1, <2>2, <2>3, AheadStep DEF Inventory
  <1>3. pc' \notin {"shutdown", "returned"} \/ pointers' \subseteq pointers
    BY ObjectMoves DEF objectVars, Deletes
  <1> QED  BY <1>1, <1>2, <1>3

\* How far main() has come tells which pointers are set.
LEMMA ProgressStep ==
  ASSUME MainTypes, ObjectTypes, Inventory, [Next]_vars
  PROVE  /\ pc' \in {"initialize", "mainLoop", "start", "run", "wait"}
              => "server" \in pointers'
         /\ pc' \in {"start", "run", "wait"} => "mainLoop" \in pointers'
  <1> USE DEF Inventory
  <1>1. CASE LoadConfig \/ InitializeLog \/ CreateAccountPool \/ CreateGamePool
    BY <1>1 DEF LoadConfig, InitializeLog, CreateAccountPool, CreateGamePool, GoesTo,
                Fails, ShutsDown
  <1>2. CASE NewServer \/ InitializeServer \/ NewMainLoop
    BY <1>2 DEF NewServer, InitializeServer, NewMainLoop, GoesTo, Fails, ShutsDown,
                Creates, At, objectVars
  <1>3. CASE Start \/ Run \/ RunEnds
    BY <1>3 DEF Start, Run, RunEnds, GoesTo, Fails, ShutsDown, At, objectVars
  <1>4. CASE \/ ShutdownStop \/ DeleteMainLoop \/ StopNetwork \/ DeleteServer
             \/ ShutdownDatabase \/ DeleteConfig \/ ShutdownLog \/ ShutdownReturns
    BY <1>4 DEF ShutdownStop, DeleteMainLoop, StopNetwork, DeleteServer,
                ShutdownDatabase, DeleteConfig, ShutdownLog, ShutdownReturns, Doing, At
  <1>5. CASE \/ StopMainLoop \/ JoinMainLoop \/ Stop \/ LoopThread
             \/ \E t \in NetworkThreads : CallbackBegins(t) \/ CallbackStep(t)
             \/ UNCHANGED vars
    BY <1>5 DEF StopMainLoop, JoinMainLoop, Stop, LoopThread, CallbackBegins,
                CallbackStep, HandOver, HandOverToDeleted, CallbackReturns,
                ThreadExits, appVars, objectVars, vars
  <1> QED  BY <1>1, <1>2, <1>3, <1>4, <1>5 DEF Next, MainStep

\* The log is up until its part of shutdown(), which is the only one that
\* resets the logger.
LEMMA LogMoves ==
  ASSUME [Next]_vars
  PROVE  \/ UNCHANGED logVars /\ (pc \in {"shutdown", "returned"}
                                    => pc' \in {"shutdown", "returned"})
         \/ InitializeLog
         \/ ShutdownLog
  <1>1. CASE LoadConfig \/ CreateAccountPool \/ CreateGamePool
    BY <1>1 DEF LoadConfig, CreateAccountPool, CreateGamePool, At
  <1>2. CASE NewServer \/ InitializeServer \/ NewMainLoop \/ Start \/ Run \/ RunEnds
    BY <1>2 DEF NewServer, InitializeServer, NewMainLoop, Start, Run, RunEnds, At
  <1>3. CASE \/ ShutdownStop \/ DeleteMainLoop \/ StopNetwork \/ DeleteServer
             \/ ShutdownDatabase \/ DeleteConfig \/ ShutdownReturns
    BY <1>3 DEF ShutdownStop, DeleteMainLoop, StopNetwork, DeleteServer,
                ShutdownDatabase, DeleteConfig, ShutdownReturns, Doing, At
  <1>4. CASE \/ StopMainLoop \/ JoinMainLoop \/ Stop \/ LoopThread
             \/ \E t \in NetworkThreads : CallbackBegins(t) \/ CallbackStep(t)
             \/ UNCHANGED vars
    BY <1>4 DEF StopMainLoop, JoinMainLoop, Stop, LoopThread, CallbackBegins,
                CallbackStep, HandOver, HandOverToDeleted, CallbackReturns,
                ThreadExits, appVars, vars
  <1> QED  BY <1>1, <1>2, <1>3, <1>4 DEF Next, MainStep

\* What there is fits the place main() is at.
LEMMA InventoryStep ==
  ASSUME MainTypes, AtItsPart, ObjectTypes, Inventory, [Next]_vars PROVE Inventory'
  <1>2. logInitialized' => Ahead(1)'
    <2>1. CASE UNCHANGED logVars /\ ~ShutdownLog
      BY <2>1, AheadStep DEF logVars, Inventory
    <2>2. CASE InitializeLog
      <3>1. pc' = "account" \/ (pc' = "shutdown" /\ todo' = ShutdownOrder)
        BY <2>2 DEF InitializeLog, GoesTo, Fails, ShutsDown
      <3> QED  BY <3>1, TheParts DEF Ahead
    <2>3. CASE ShutdownLog
      <3>1. logInitialized' = FALSE \/ (~logInitialized /\ logInitialized' = logInitialized)
        BY <2>3 DEF ShutdownLog, Logging!Shutdown, Logging!vars
      <3> QED  BY <3>1
    <2> QED  BY <2>1, <2>2, <2>3, LogMoves
  <1>3. logger' = "reset" => pc' \in {"shutdown", "returned"}
    <2>1. CASE UNCHANGED logVars
               /\ (pc \in {"shutdown", "returned"} => pc' \in {"shutdown", "returned"})
      BY <2>1 DEF logVars, Inventory
    <2>2. CASE InitializeLog
      BY <2>2 DEF InitializeLog, At, Inventory, Logging!Initialize,
                  Logging!InitializeFails
    <2>3. CASE ShutdownLog
      BY <2>3 DEF ShutdownLog, Doing, At
    <2> QED  BY <2>1, <2>2, <2>3, LogMoves
  <1> QED  BY <1>2, <1>3, PointersStep, ProgressStep DEF Inventory

-----------------------------------------------------------------------------
(* The threads                                                             *)

\* main() goes on to run(), to shutdown(), or past it.
LEMMA PcMoves ==
  ASSUME MainTypes, [Next]_vars
  PROVE  /\ pc = "run" => pc' \in {"run", "wait", "shutdown"}
         /\ pc = "wait" => pc' \in {"wait", "shutdown"}
         /\ pc = "shutdown" => pc' \in {"shutdown", "returned"}
         /\ pc = "returned" => pc' = "returned"
  <1>1. CASE LoadConfig \/ InitializeLog \/ CreateAccountPool \/ CreateGamePool
    BY <1>1 DEF LoadConfig, InitializeLog, CreateAccountPool, CreateGamePool, At
  <1>2. CASE NewServer \/ InitializeServer \/ NewMainLoop \/ Start
    BY <1>2 DEF NewServer, InitializeServer, NewMainLoop, Start, At
  <1>3. CASE Run \/ RunEnds
    BY <1>3 DEF Run, RunEnds, At, GoesTo, ShutsDown
  <1>4. CASE \/ ShutdownStop \/ DeleteMainLoop \/ StopNetwork \/ DeleteServer
             \/ ShutdownDatabase \/ DeleteConfig \/ ShutdownLog \/ ShutdownReturns
    BY <1>4 DEF ShutdownStop, DeleteMainLoop, StopNetwork, DeleteServer,
                ShutdownDatabase, DeleteConfig, ShutdownLog, ShutdownReturns, Doing, At
  <1>5. CASE \/ StopMainLoop \/ JoinMainLoop \/ Stop \/ LoopThread
             \/ \E t \in NetworkThreads : CallbackBegins(t) \/ CallbackStep(t)
             \/ UNCHANGED vars
    BY <1>5 DEF StopMainLoop, JoinMainLoop, Stop, LoopThread, CallbackBegins,
                CallbackStep, HandOver, HandOverToDeleted, CallbackReturns,
                ThreadExits, appVars, vars
  <1> QED  BY <1>1, <1>2, <1>3, <1>4, <1>5 DEF Next, MainStep

\* The server goes only when its part of shutdown() is next, and so does the
\* main loop.
LEMMA PointersStay ==
  ASSUME MainTypes, AtItsPart, [Next]_vars
  PROVE  /\ Ahead(5) /\ "server" \in pointers => "server" \in pointers'
         /\ Ahead(6) /\ "mainLoop" \in pointers /\ ~DeleteMainLoop
              => "mainLoop" \in pointers'
  <1>1. CASE DeleteMainLoop
    BY <1>1 DEF DeleteMainLoop, Deletes
  <1>2. CASE DeleteServer
    <2>1. Len(todo) = 4 /\ pc = "shutdown"
      BY <1>2, DoingLeaves DEF DeleteServer, MainTypes, Doing, At
    <2> QED  BY <1>2, <2>1 DEF Ahead, DeleteServer, Deletes
  <1>3. CASE DeleteConfig
    BY <1>3 DEF DeleteConfig, Deletes
  <1>4. CASE LoadConfig \/ NewServer \/ NewMainLoop
    BY <1>4 DEF LoadConfig, NewServer, NewMainLoop, Creates, objectVars
  <1>5. CASE UNCHANGED objectVars
    BY <1>5 DEF objectVars
  <1>6. \/ LoadConfig \/ NewServer \/ NewMainLoop
        \/ DeleteMainLoop \/ DeleteServer \/ DeleteConfig
        \/ UNCHANGED objectVars
    BY DEF Next, MainStep, CallbackStep, InitializeLog, CreateAccountPool,
           CreateGamePool, InitializeServer, Start, Run, RunEnds, ShutdownStop,
           StopMainLoop, JoinMainLoop, StopNetwork, ShutdownDatabase, ShutdownLog,
           ShutdownReturns, Stop, CallbackBegins, HandOver, HandOverToDeleted,
           CallbackReturns, ThreadExits, LoopThread, vars
  <1> QED  BY <1>1, <1>2, <1>3, <1>4, <1>5, <1>6

\* The loop's thread has what it works on, from run() to the join.
LEMMA LoopHandshakeStep ==
  ASSUME MainTypes, AtItsPart, Inventory, LoopHandshake, Loop!TypeOK, [Next]_vars
  PROVE  LoopHandshake'
  <1> USE DEF LoopHandshake
  \* Where the loop does not change, its objects do not go.
  <1>1. ASSUME ~DeleteMainLoop,
               loop' # "none" => loop # "none",
               loop' # "none" \/ loopRunning' => loop # "none" \/ loopRunning
        PROVE  /\ loop' # "none" \/ loopRunning'
                    => pc' \in {"wait", "shutdown"} /\ Ahead(6)'
               /\ loop' # "none" => {"server", "mainLoop"} \subseteq pointers'
    <2>1. loop # "none" \/ loopRunning
            => Ahead(6)' /\ pc' \in {"wait", "shutdown"}
      BY <1>1, AheadStep, PcMoves DEF Ahead
    <2>2. Ahead(6) => Ahead(5)
      BY DEF Ahead, MainTypes
    <2>3. loop # "none" => {"server", "mainLoop"} \subseteq pointers'
      BY <1>1, <2>2, PointersStay
    <2> QED  BY <1>1, <2>1, <2>3
  <1>2. CASE DeleteMainLoop
    <2>1. loop = "none" /\ ~loopRunning /\ owner = "idle"
      BY <1>2 DEF DeleteMainLoop
    <2> QED  BY <1>2, <2>1 DEF DeleteMainLoop
  <1>3. CASE UNCHANGED loopVars /\ ~DeleteMainLoop
    BY <1>1, <1>3 DEF loopVars
  <1>4. CASE NewMainLoop
    <2>1. ~DeleteMainLoop
      BY <1>4 DEF NewMainLoop, DeleteMainLoop, Doing, At
    <2> QED  BY <1>1, <1>4, <2>1 DEF NewMainLoop
  <1>5. CASE Run
    <2>1. {"server", "mainLoop"} \subseteq pointers'
      BY <1>5 DEF Run, At, Inventory, objectVars
    <2>2. loop = "none" /\ ~loopRunning /\ owner \in {"idle", "join"} /\ owner = "idle"
      BY <1>5 DEF Run, At, Loop!TypeOK
    <2>3. CASE Loop!Start /\ GoesTo("wait")
      BY <2>1, <2>3 DEF Loop!Start, Loop!tables, GoesTo, Ahead
    <2>4. CASE ShutsDown(2, 1) /\ UNCHANGED <<loop, owner>>
      <3>1. pc' = "shutdown" /\ Ahead(6)'
        BY <2>4, TheParts DEF ShutsDown, Ahead
      <3> QED  BY <2>2, <2>4, <3>1
    <2> QED  BY <1>5, <2>3, <2>4 DEF Run
  <1>6. CASE StopMainLoop
    <2>1. ~DeleteMainLoop
      BY <1>6 DEF StopMainLoop, DeleteMainLoop, Loop!Stop
    <2>2. CASE loop # "none" /\ Loop!Stop
      BY <1>1, <2>1, <2>2 DEF Loop!Stop, Loop!tables
    <2>3. CASE loop = "none" /\ loopRunning' = FALSE /\ UNCHANGED <<loop, owner>>
      BY <2>3
    <2> QED  BY <1>6, <2>2, <2>3 DEF StopMainLoop
  <1>7. CASE JoinMainLoop
    BY <1>7 DEF JoinMainLoop, Loop!StopJoin, Loop!tables
  <1>8. ASSUME NEW t \in NetworkThreads, NEW m \in Messages, HandOver(t, m)
        PROVE  LoopHandshake'
    <2>1. UNCHANGED <<loop, owner, loopRunning, pc, todo, pointers>>
      BY <1>8 DEF HandOver, Loop!AddMessage, appVars, objectVars
    <2> QED  BY <2>1 DEF Ahead
  <1>9. CASE LoopThread
    <2>1. UNCHANGED <<owner, loopRunning, pc, todo, pointers>>
      BY <1>9 DEF LoopThread, Loop!LoopStep, Loop!LoopTest, Loop!GetNextMessage,
                  Loop!HandleMessage, Loop!HandlerEnds, Loop!HandlerBlocks,
                  appVars, objectVars
    <2>2. loop # "none"
      BY <1>9 DEF LoopThread, Loop!LoopStep, Loop!LoopTest, Loop!GetNextMessage,
                  Loop!HandleMessage, Loop!HandlerEnds, Loop!HandlerBlocks
    <2>3. loop' # "none"
      BY <1>9 DEF LoopThread, Loop!LoopStep, Loop!LoopTest, Loop!GetNextMessage,
                  Loop!TakeMessage, Loop!HandleMessage, Loop!HandlerEnds, Loop!Dispatched,
                  Loop!HandlerBlocks
    <2> QED  BY <2>1, <2>2, <2>3 DEF Ahead
  <1> QED  BY <1>2, <1>3, <1>4, <1>5, <1>6, <1>7, <1>8, <1>9, LoopMoves

\* The actions that leave the network's threads alone do.
LEMMA NetworkMoves ==
  ASSUME [Next]_vars
  PROVE  \/ UNCHANGED <<netVars, crashed>>
         \/ Start \/ Stop \/ ShutdownStop \/ StopNetwork
         \/ \E t \in NetworkThreads : CallbackBegins(t) \/ CallbackStep(t)
  BY DEF Next, MainStep, LoadConfig, InitializeLog, CreateAccountPool,
         CreateGamePool, NewServer, InitializeServer, NewMainLoop, Run, RunEnds,
         StopMainLoop, JoinMainLoop, DeleteMainLoop, DeleteServer, ShutdownDatabase,
         DeleteConfig, ShutdownLog, ShutdownReturns, LoopThread, vars

\* The server's pointer is reset by DeleteServer only.
LEMMA ServerStays ==
  ASSUME [Next]_vars, "server" \in pointers, ~DeleteServer PROVE "server" \in pointers'
  <1>1. CASE LoadConfig \/ NewServer \/ NewMainLoop
    BY <1>1 DEF LoadConfig, NewServer, NewMainLoop, Creates, objectVars
  <1>2. CASE DeleteMainLoop \/ DeleteConfig
    BY <1>2 DEF DeleteMainLoop, DeleteConfig, Deletes
  <1>3. \/ LoadConfig \/ NewServer \/ NewMainLoop \/ DeleteMainLoop \/ DeleteConfig
        \/ UNCHANGED objectVars
    BY DEF Next, MainStep, CallbackStep, InitializeLog, CreateAccountPool,
           CreateGamePool, InitializeServer, Start, Run, RunEnds, ShutdownStop,
           StopMainLoop, JoinMainLoop, StopNetwork, ShutdownDatabase, ShutdownLog,
           ShutdownReturns, Stop, CallbackBegins, HandOver, HandOverToDeleted,
           CallbackReturns, ThreadExits, LoopThread, vars
  <1> QED  BY <1>1, <1>2, <1>3 DEF objectVars

\* How main() moves while the database stays as it is.
LEMMA OtherMoves ==
  ASSUME MainTypes, AtItsPart, PoolInventory, [Next]_vars,
         ~CreateAccountPool, ~CreateGamePool
  PROVE  /\ pc = "game" => pc' = "game"
         /\ result = 1 => result' = 1
         /\ dbInitialized => pc' \notin {"config", "log", "account", "game"}
         /\ pc' \in {"server", "initialize", "mainLoop", "start", "run", "wait"}
              => pc \in {"server", "initialize", "mainLoop", "start", "run", "wait"}
  <1> USE DEF PoolInventory, AtItsPart
  <1>1. CASE LoadConfig \/ InitializeLog
    BY <1>1 DEF LoadConfig, InitializeLog, GoesTo, Fails, ShutsDown, At
  <1>2. CASE NewServer \/ InitializeServer \/ NewMainLoop
    BY <1>2 DEF NewServer, InitializeServer, NewMainLoop, GoesTo, Fails, ShutsDown, At
  <1>3. CASE Start \/ Run \/ RunEnds
    BY <1>3 DEF Start, Run, RunEnds, GoesTo, Fails, ShutsDown, At
  <1>4. CASE \/ ShutdownStop \/ DeleteMainLoop \/ StopNetwork \/ DeleteServer
             \/ ShutdownDatabase \/ DeleteConfig \/ ShutdownLog \/ ShutdownReturns
    BY <1>4 DEF ShutdownStop, DeleteMainLoop, StopNetwork, DeleteServer,
                ShutdownDatabase, DeleteConfig, ShutdownLog, ShutdownReturns, Doing, At
  <1>5. CASE \/ StopMainLoop \/ JoinMainLoop \/ Stop \/ LoopThread
             \/ \E t \in NetworkThreads : CallbackBegins(t) \/ CallbackStep(t)
             \/ UNCHANGED vars
    BY <1>5 DEF StopMainLoop, JoinMainLoop, Stop, LoopThread, CallbackBegins,
                CallbackStep, HandOver, HandOverToDeleted, CallbackReturns,
                ThreadExits, appVars, vars
  <1> QED  BY <1>1, <1>2, <1>3, <1>4, <1>5 DEF Next, MainStep

\* The network's threads have the types they had.
LEMMA NetworkTypeStep ==
  ASSUME NetworkTypes, [Next]_vars PROVE NetworkTypes'
  <1> USE DEF NetworkTypes
  <1>1. CASE Start \/ Stop \/ ShutdownStop \/ StopNetwork
    BY <1>1 DEF Start, Stop, ShutdownStop, StopNetwork, netVars
  <1>2. ASSUME NEW t \in NetworkThreads, CallbackBegins(t) \/ CallbackStep(t)
        PROVE  NetworkTypes'
    BY <1>2 DEF CallbackBegins, CallbackStep, HandOver, HandOverToDeleted,
                CallbackReturns, ThreadExits, ThreadMoves
  <1>3. CASE UNCHANGED <<netVars, crashed>>
    BY <1>3 DEF netVars
  <1> QED  BY <1>1, <1>2, <1>3, NetworkMoves

\* The network's threads find the server, from start() to its destructor.
LEMMA NetworkHandshakeStep ==
  ASSUME MainTypes, AtItsPart, NetworkTypes, Inventory, NetworkHandshake, [Next]_vars
  PROVE  NetworkHandshake'
  <1> USE DEF NetworkHandshake, NetworkTypes
  <1>1. Ahead(5) => Ahead(4)
    BY DEF Ahead, MainTypes
  \* Where no thread is made, the server does not go.
  <1>2. ASSUME ~DeleteServer, NetworkThere' => NetworkThere, eventLoop' => eventLoop, ~StopNetwork
        PROVE  NetworkHandshake'
    <2>1. NetworkThere => Ahead(4)' /\ pc' \in {"run", "wait", "shutdown"}
      BY <1>2, AheadStep, PcMoves DEF Ahead
    <2>2. NetworkThere => "server" \in pointers'
      BY <1>2, ServerStays
    <2>3. eventLoop => Ahead(5)'
      BY <1>2, AheadStep
    <2> QED  BY <1>2, <2>1, <2>2, <2>3
  <1>3. CASE DeleteServer
    <2>1. Len(todo) = 4 /\ pc = "shutdown"
      BY <1>3, DoingLeaves DEF DeleteServer, MainTypes, Doing, At
    <2>2. ~eventLoop
      BY <2>1 DEF Ahead
    <2>3. ~NetworkThere'
      BY <1>3, <2>2 DEF DeleteServer, netVars, NetworkThere
    <2> QED  BY <2>2, <2>3, <1>3 DEF NetworkThere, DeleteServer, netVars
  <1>4. CASE StopNetwork
    <2>1. Len(todo) = 5 /\ pc = "shutdown" /\ pc' = pc /\ Len(todo') = 4
      <3>1. Doing("network") /\ todo \in Seq(Parts)
        BY <1>4 DEF StopNetwork, MainTypes
      <3>2. Len(todo) = 5
        BY <3>1, DoingLeaves
      <3>3. pc = "shutdown" /\ pc' = pc /\ Len(todo') = Len(todo) - 1
        BY <3>1, DoingIsNext
      <3> QED  BY <3>2, <3>3
    <2>2. NetworkThere' => NetworkThere
      BY <1>4 DEF StopNetwork, NetworkThere
    <2>3. eventLoop' = FALSE /\ pointers' = pointers
      BY <1>4 DEF StopNetwork, objectVars
    <2>4. Ahead(4)'
      BY <2>1 DEF Ahead
    <2>5. NetworkThere => "server" \in pointers'
      BY <2>3
    <2>6. NetworkHandshake'
      BY <2>1, <2>2, <2>3, <2>4, <2>5
    <2> QED  BY <2>6
  <1>5. CASE Start /\ ~(UNCHANGED netVars)
    <2>1. "server" \in pointers'
      BY <1>5 DEF Start, At, Inventory, objectVars
    <2>2. pc' = "run" \/ (pc' = "shutdown" /\ todo' = ShutdownOrder)
      BY <1>5 DEF Start, ShutsDown, netVars
    <2>3. Ahead(4)' /\ Ahead(5)' /\ pc' \in {"run", "wait", "shutdown"}
      <3>1. CASE pc' = "run"
        BY <3>1 DEF Ahead
      <3>2. CASE pc' = "shutdown" /\ Len(todo') = 7
        BY <3>2 DEF Ahead
      <3> QED  BY <2>2, <3>1, <3>2, TheParts
    <2> QED  BY <2>1, <2>3
  <1>6. CASE UNCHANGED <<netVars, crashed>> /\ ~DeleteServer /\ ~StopNetwork
    BY <1>2, <1>6 DEF netVars, NetworkThere
  <1>9. CASE Start /\ UNCHANGED netVars
    <2>1. ~DeleteServer /\ ~StopNetwork /\ UNCHANGED crashed
      BY <1>9 DEF Start, DeleteServer, StopNetwork, Doing, At
    <2> QED  BY <1>6, <1>9, <2>1
  <1>7. CASE Stop \/ ShutdownStop
    <2>1. ~DeleteServer /\ ~StopNetwork
      <3>1. CASE Stop
        BY <3>1 DEF Stop, DeleteServer, StopNetwork, Doing, At
      <3>2. CASE ShutdownStop
        BY <3>2 DEF ShutdownStop, DeleteServer, StopNetwork, Doing
      <3> QED  BY <1>7, <3>1, <3>2
    <2> QED  BY <1>2, <1>7, <2>1 DEF Stop, ShutdownStop, NetworkThere
  <1>8. ASSUME NEW t \in NetworkThreads, CallbackBegins(t) \/ CallbackStep(t)
        PROVE  NetworkHandshake'
    <2>1. UNCHANGED <<pc, todo, pointers, eventLoop>>
      BY <1>8 DEF CallbackBegins, CallbackStep, HandOver, HandOverToDeleted,
                  CallbackReturns, ThreadExits, ThreadMoves, appVars, objectVars
    <2>2. network[t] # "none" /\ \A u \in NetworkThreads : u # t => network'[u] = network[u]
      BY <1>8 DEF CallbackBegins, CallbackStep, HandOver, HandOverToDeleted,
                  CallbackReturns, ThreadExits, ThreadMoves
    <2> QED  BY <2>1, <2>2 DEF Ahead, NetworkThere
  <1> QED  BY <1>3, <1>4, <1>5, <1>6, <1>7, <1>8, <1>9, NetworkMoves

-----------------------------------------------------------------------------
(* The pools and the log                                                   *)

\* The steps that change the table of pools.
LEMMA DatabaseMoves ==
  ASSUME [Next]_vars
  PROVE  \/ CreateAccountPool \/ CreateGamePool \/ ShutdownDatabase
         \/ UNCHANGED dbVars
  BY DEF Next, MainStep, CallbackStep, LoadConfig, InitializeLog, NewServer,
         InitializeServer, NewMainLoop, Start, Run, RunEnds, ShutdownStop,
         StopMainLoop, JoinMainLoop, DeleteMainLoop, StopNetwork, DeleteServer,
         DeleteConfig, ShutdownLog, ShutdownReturns, Stop, CallbackBegins, HandOver,
         HandOverToDeleted, CallbackReturns, ThreadExits, LoopThread, vars

\* A pool is known to the manager, or was passed over by a failed start.
LEMMA PoolInventoryStep ==
  ASSUME MainTypes, AtItsPart, PoolInventory, Database!TypeOK, [Next]_vars
  PROVE  PoolInventory'
  <1> USE DEF PoolInventory
  <1>1. CASE CreateAccountPool
    <2>1. pc = "account" /\ ~dbInitialized /\ UNCHANGED dbInitialized
      BY <1>1 DEF CreateAccountPool, At
    <2>2. CASE GoesTo("game")
      BY <2>1, <2>2 DEF GoesTo
    <2>3. CASE UNCHANGED pools /\ Fails
      BY <2>1, <2>3 DEF Fails, ShutsDown
    <2> QED  BY <1>1, <2>2, <2>3 DEF CreateAccountPool
  <1>2. CASE CreateGamePool
    <2>1. pc = "game" /\ ~dbInitialized
      BY <1>2 DEF CreateGamePool, At
    <2>2. CASE dbInitialized' = TRUE /\ GoesTo("server")
      BY <2>1, <2>2 DEF GoesTo, Ahead
    <2>3. CASE UNCHANGED dbVars /\ Fails
      BY <2>1, <2>3 DEF Fails, ShutsDown, dbVars
    <2> QED  BY <1>2, <2>2, <2>3 DEF CreateGamePool, Database!Initialized
  <1>3. CASE ShutdownDatabase
    <2>1. pc = "shutdown" /\ pc' = pc /\ result' = result
      BY <1>3 DEF ShutdownDatabase, Doing, At
    <2>2. CASE ~dbInitialized /\ UNCHANGED <<dbInitialized, pools>>
      BY <2>1, <2>2
    <2>3. CASE dbInitialized' = FALSE /\ pools' = {}
      BY <2>1, <2>3
    <2> QED  BY <1>3, <2>2, <2>3 DEF ShutdownDatabase, Database!Shutdown, Database!vars
  <1>4. ASSUME UNCHANGED dbVars, ~ShutdownDatabase, ~CreateAccountPool, ~CreateGamePool
        PROVE  PoolInventory'
    <2>1. dbInitialized' => Ahead(3)'
      BY <1>4, AheadStep DEF dbVars
    <2>2. /\ pc = "game" => pc' = "game"
          /\ result = 1 => result' = 1
          /\ dbInitialized => pc' \notin {"config", "log", "account", "game"}
          /\ pc' \in {"server", "initialize", "mainLoop", "start", "run", "wait"}
               => pc \in {"server", "initialize", "mainLoop", "start", "run", "wait"}
      BY <1>4, OtherMoves
    <2> QED  BY <1>4, <2>1, <2>2 DEF dbVars
  <1> QED  BY <1>1, <1>2, <1>3, <1>4, DatabaseMoves

\* How main() comes to have the log, and to its end, while the log stays.
LEMMA EndingMoves ==
  ASSUME MainTypes, AtItsPart, [Next]_vars, ~InitializeLog
  PROVE  /\ pc' \in WithLog => pc \in WithLog
         /\ pc' \in Ending /\ result' = 0 => pc \in WithLog \/ (pc \in Ending /\ result = 0)
         /\ pc \in Ending => pc' \in Ending
  <1> USE DEF WithLog, Ending, AtItsPart
  <1>1. CASE LoadConfig \/ CreateAccountPool \/ CreateGamePool
    BY <1>1 DEF LoadConfig, CreateAccountPool, CreateGamePool, GoesTo, Fails, ShutsDown, At
  <1>2. CASE NewServer \/ InitializeServer \/ NewMainLoop
    BY <1>2 DEF NewServer, InitializeServer, NewMainLoop, GoesTo, Fails, ShutsDown, At
  <1>3. CASE Start \/ Run \/ RunEnds
    BY <1>3 DEF Start, Run, RunEnds, GoesTo, Fails, ShutsDown, At
  <1>4. CASE \/ ShutdownStop \/ DeleteMainLoop \/ StopNetwork \/ DeleteServer
             \/ ShutdownDatabase \/ DeleteConfig \/ ShutdownLog \/ ShutdownReturns
    BY <1>4 DEF ShutdownStop, DeleteMainLoop, StopNetwork, DeleteServer,
                ShutdownDatabase, DeleteConfig, ShutdownLog, ShutdownReturns, Doing, At
  <1>5. CASE \/ StopMainLoop \/ JoinMainLoop \/ Stop \/ LoopThread
             \/ \E t \in NetworkThreads : CallbackBegins(t) \/ CallbackStep(t)
             \/ UNCHANGED vars
    BY <1>5 DEF StopMainLoop, JoinMainLoop, Stop, LoopThread, CallbackBegins,
                CallbackStep, HandOver, HandOverToDeleted, CallbackReturns,
                ThreadExits, appVars, vars
  <1> QED  BY <1>1, <1>2, <1>3, <1>4, <1>5 DEF Next, MainStep

\* The log is there or has been, and leaves its writers only when it failed.
LEMMA LogInventoryStep ==
  ASSUME MainTypes, AtItsPart, PoolInventory, LogInventory, Logging!TypeOK, [Next]_vars
  PROVE  LogInventory'
  <1> USE DEF LogInventory, Logging!TypeOK
  <1>1. CASE InitializeLog
    <2>1. pc = "log" /\ ~writers /\ pools = {} /\ pools' = pools
      BY <1>1 DEF InitializeLog, At, AtItsPart, PoolInventory, Ending, dbVars,
                  Logging!Initialize, Logging!InitializeFails
    <2>2. PICK async \in BOOLEAN :
             \/ Logging!Initialize(async) /\ GoesTo("account")
             \/ Logging!InitializeFails(async) /\ Fails
      BY <1>1 DEF InitializeLog
    <2>3. CASE Logging!Initialize(async) /\ GoesTo("account")
      BY <2>3 DEF Logging!Initialize, GoesTo, Ending
    <2>4. CASE Logging!InitializeFails(async) /\ Fails
      <3>1. pc' = "shutdown" /\ result' = 1
        BY <2>4 DEF Fails, ShutsDown
      <3>2. logger' # "reset" \/ ~writers'
        BY <2>1, <2>4 DEF Logging!InitializeFails
      <3> QED  BY <2>1, <3>1, <3>2 DEF WithLog, Ending
    <2> QED  BY <2>2, <2>3, <2>4
  <1>2. CASE ShutdownLog
    <2>1. pc = "shutdown" /\ pc' = pc /\ result' = result /\ UNCHANGED pools
      BY <1>2 DEF ShutdownLog, Doing, At, dbVars
    <2>2. CASE ~logInitialized /\ UNCHANGED <<logInitialized, logger, writers>>
      BY <2>1, <2>2 DEF WithLog
    <2>3. CASE logger' = "reset" /\ writers' = FALSE
      BY <2>1, <2>3 DEF WithLog
    <2> QED  BY <1>2, <2>2, <2>3 DEF ShutdownLog, Logging!Shutdown, Logging!vars
  <1>3. CASE UNCHANGED logVars /\ ~InitializeLog
    <2>1. pc \in Ending /\ pools = {} => pools' = {}
      <3>1. CASE CreateAccountPool \/ CreateGamePool
        BY <3>1 DEF CreateAccountPool, CreateGamePool, At, Ending
      <3>2. CASE ShutdownDatabase
        BY <3>2 DEF ShutdownDatabase, Database!Shutdown, Database!vars
      <3> QED  BY <3>1, <3>2, DatabaseMoves DEF dbVars
    <2> QED  BY <1>3, <2>1, EndingMoves DEF logVars
  <1> QED  BY <1>1, <1>2, <1>3, LogMoves

\* Once the logger is reset no thread starts that could use it.
LEMMA LogOutlivesStep ==
  ASSUME MainTypes, AtItsPart, LoopHandshake, NetworkTypes, NetworkHandshake, Inventory,
         PoolInventory, LogOutlivesThreads, [Next]_vars
  PROVE  LogOutlivesThreads'
  <1> USE DEF LogOutlivesThreads
  <1>1. CASE ShutdownLog
    <2>1. Len(todo) = 1 /\ pc = "shutdown" /\ result' = result
      BY <1>1, DoingLeaves, DoingIsNext DEF ShutdownLog, MainTypes
    <2>2. ~Ahead(6) /\ ~Ahead(4) /\ ~Ahead(3)
      BY <2>1 DEF Ahead
    <2>3. loop = "none" /\ ~NetworkThere /\ ~dbInitialized
      BY <2>2 DEF LoopHandshake, NetworkHandshake, PoolInventory
    <2>4. pools = {} \/ result = 1
      BY <2>1, <2>3 DEF PoolInventory
    <2>5. UNCHANGED <<loop, network, pools, dbInitialized>>
      BY <1>1 DEF ShutdownLog, loopVars, netVars, dbVars
    <2> QED  BY <2>1, <2>3, <2>4, <2>5 DEF NetworkThere
  <1>2. ASSUME ~ShutdownLog, logger' = "reset" PROVE LogOutlivesThreads'
    <2>1. logger = "reset" /\ pc \in {"shutdown", "returned"}
      <3>1. CASE InitializeLog
        BY <1>2, <3>1 DEF InitializeLog, At, Inventory, Logging!Initialize,
                          Logging!InitializeFails
      <3>2. CASE UNCHANGED logVars
        BY <1>2, <3>2 DEF Inventory, logVars
      <3> QED  BY <1>2, <3>1, <3>2, LogMoves
    <2>2. loop' = "none"
      <3>1. ~Run
        BY <2>1 DEF Run, At
      <3>2. CASE UNCHANGED loopVars
        BY <2>1, <3>2 DEF loopVars
      <3>3. CASE NewMainLoop \/ DeleteMainLoop \/ StopMainLoop \/ JoinMainLoop
        BY <2>1, <3>3 DEF NewMainLoop, DeleteMainLoop, StopMainLoop, JoinMainLoop,
                          Loop!Stop, Loop!StopJoin
      <3>4. ASSUME NEW t \in NetworkThreads, NEW m \in Messages, HandOver(t, m)
            PROVE  loop' = "none"
        BY <2>1, <3>4 DEF HandOver, Loop!AddMessage
      <3>5. ~LoopThread
        BY <2>1 DEF LoopThread, Loop!LoopStep, Loop!LoopTest, Loop!TakeMessage,
                    Loop!GetNextMessage, Loop!HandleMessage, Loop!HandlerEnds,
                    Loop!HandlerBlocks
      <3> QED  BY <3>1, <3>2, <3>3, <3>4, <3>5, LoopMoves
    <2>3. \A t \in NetworkThreads : network'[t] = "none"
      <3>1. ~Start
        BY <2>1 DEF Start, At
      <3>2. CASE UNCHANGED <<netVars, crashed>> \/ Stop \/ ShutdownStop \/ StopNetwork
        BY <2>1, <3>2 DEF netVars, Stop, ShutdownStop, StopNetwork
      <3>3. ASSUME NEW t \in NetworkThreads, CallbackBegins(t) \/ CallbackStep(t)
            PROVE  FALSE
        BY <2>1, <3>3 DEF CallbackBegins, CallbackStep, HandOver, HandOverToDeleted,
                          CallbackReturns, ThreadExits, ThreadMoves
      <3> QED  BY <3>1, <3>2, <3>3, NetworkMoves
    <2>4. pools' = {} \/ (~dbInitialized' /\ result' = 1)
      <3>1. ~CreateAccountPool /\ ~CreateGamePool
        BY <2>1 DEF CreateAccountPool, CreateGamePool, At
      <3>2. result = 1 => result' = 1
        BY <3>1, OtherMoves
      <3>3. CASE ShutdownDatabase
        BY <2>1, <3>2, <3>3 DEF ShutdownDatabase, Database!Shutdown, Database!vars
      <3>4. CASE UNCHANGED dbVars
        BY <2>1, <3>2, <3>4 DEF dbVars
      <3> QED  BY <3>1, <3>3, <3>4, DatabaseMoves
    <2> QED  BY <2>2, <2>3, <2>4
  <1> QED  BY <1>1, <1>2

-----------------------------------------------------------------------------
(* The theorems                                                            *)

\* The types of the application are those of its parts.
LEMMA TypeParts ==
  ObjectTypes =>
     (TypeOK <=> /\ MainTypes /\ NetworkTypes
                 /\ Loop!TypeOK /\ Database!TypeOK /\ Logging!TypeOK)
  BY DEF TypeOK, MainTypes, ObjectTypes, NetworkTypes

\* The program begins with nothing there.
LEMMA AppInvInit == Init => AppInv
  <1> SUFFICES ASSUME Init PROVE AppInv
    OBVIOUS
  <1> USE DEF Init, Loop!Init, Database!Init, Logging!Init
  <1>1. TypeOK
    <2>1. todo \in Seq(Parts)
      BY EmptySeq
    <2>2. Loop!TypeOK
      BY EmptySeq DEF Loop!TypeOK
    <2>3. Database!TypeOK /\ Logging!TypeOK
      BY DEF Database!TypeOK, Logging!TypeOK, Database!Names
    <2>4. /\ object \in [Objects -> {"none", "live", "deleted"}]
          /\ network \in [NetworkThreads -> {"none", "idle", "callback", "hung"}]
      OBVIOUS
    <2>5. MainTypes
      <3>1. pc = "config" /\ calls = 0 /\ result = 0 /\ isRunning = FALSE
        OBVIOUS
      <3> HIDE DEF Init
      <3>2. calls \in 0..2
        BY <3>1
      <3>3. result \in {0, 1}
        BY <3>1
      <3>4. isRunning \in BOOLEAN
        BY <3>1
      <3> QED  BY <2>1, <3>1, <3>2, <3>3, <3>4 DEF MainTypes
    <2>6. NetworkTypes
      BY <2>4 DEF NetworkTypes
    <2>7. ObjectTypes
      BY <2>4 DEF ObjectTypes
    <2> QED  BY <2>2, <2>3, <2>5, <2>6, <2>7, TypeParts
  <1>2. ObjectTypes
    BY DEF ObjectTypes, Objects
  <1>3. /\ AtItsPart /\ LoopHandshake /\ NetworkHandshake /\ Inventory /\ PoolInventory
        /\ LogInventory
    BY DEF AtItsPart, LoopHandshake, NetworkHandshake, NetworkThere, Inventory,
           PoolInventory, LogInventory, WithLog, Ending, Ahead
  <1>4. LogOutlivesThreads
    BY DEF LogOutlivesThreads
  <1> QED  BY <1>1, <1>2, <1>3, <1>4 DEF AppInv

\* What is there is what its users find.
LEMMA ObjectsFound == AppInv => ThreadsFindTheirObjects
  BY DEF AppInv, ThreadsFindTheirObjects, LoopHandshake, NetworkHandshake, NetworkThere,
         TypeOK

\* After the last part there is nothing left.
LEMMA NothingLeft == AppInv => CleanReturn
  <1> SUFFICES ASSUME AppInv, pc = "returned"
               PROVE  /\ \A o \in Objects : object[o] # "live"
                      /\ loop = "none"
                      /\ \A t \in NetworkThreads : network[t] = "none"
                      /\ result = 0 => pools = {} /\ ~writers /\ logger = "reset"
                      /\ ~logInitialized /\ (pools = {} \/ ~writers)
    BY DEF CleanReturn
  <1>1. \A n \in 1..6 : ~Ahead(n)
    BY DEF Ahead
  <1>2. pointers = {}
    BY <1>1 DEF AppInv, Inventory, ObjectTypes, Objects
  <1>3. ~logInitialized /\ ~dbInitialized /\ result \in {0, 1}
    BY <1>1 DEF AppInv, Inventory, PoolInventory, TypeOK
  <1>4. /\ result = 0 => pools = {} /\ logger = "reset"
        /\ writers => pools = {} /\ logger # "reset"
    BY <1>3 DEF AppInv, PoolInventory, LogInventory, Ending
  <1> QED  BY <1>1, <1>2, <1>3, <1>4 DEF AppInv, ObjectTypes, LoopHandshake,
              NetworkHandshake, NetworkThere

\* Every step of every thread preserves the invariant.
LEMMA AppInvStep == AppInv /\ [Next]_vars => AppInv'
  <1> SUFFICES ASSUME AppInv, [Next]_vars PROVE AppInv'
    OBVIOUS
  <1>1. /\ TypeOK /\ ObjectTypes /\ AtItsPart /\ LoopHandshake /\ NetworkHandshake
        /\ Inventory /\ PoolInventory /\ LogInventory /\ LogOutlivesThreads
    BY DEF AppInv
  <1>2. /\ MainTypes /\ NetworkTypes
        /\ Loop!TypeOK /\ Database!TypeOK /\ Logging!TypeOK
    BY <1>1, TypeParts
  <1>3. /\ MainTypes' /\ AtItsPart' /\ ObjectTypes' /\ NetworkTypes'
        /\ Loop!TypeOK' /\ Database!TypeOK' /\ Logging!TypeOK'
    BY <1>1, <1>2, MainTypeStep, ObjectTypeStep, NetworkTypeStep, LoopTypeStep,
       ServiceTypeStep
  <1>4. TypeOK'
    BY <1>3 DEF TypeOK, MainTypes, ObjectTypes, NetworkTypes
  <1>5. /\ LoopHandshake' /\ NetworkHandshake' /\ Inventory' /\ PoolInventory'
        /\ LogInventory'
    BY <1>1, <1>2, LoopHandshakeStep, NetworkHandshakeStep, InventoryStep,
       PoolInventoryStep, LogInventoryStep
  <1>6. LogOutlivesThreads'
    BY <1>1, <1>2, LogOutlivesStep
  <1> QED  BY <1>3, <1>4, <1>5, <1>6 DEF AppInv

\* The inductive invariant holds in every reachable state.
LEMMA AppInvariant == Spec => []AppInv
  BY AppInvInit, AppInvStep, PTL DEF Spec

\* initialize(), start(), run(), stop() and shutdown() keep the pointers of the
\* application null or good, and every part of it within its types, for any set
\* of network threads, of messages and of their types.
THEOREM AppTypeCorrect == Spec => []TypeOK
  <1>1. AppInv => TypeOK
    BY DEF AppInv
  <1> QED  BY <1>1, AppInvariant, PTL

\* shutdown() deletes neither the server nor the main loop under the loop's
\* thread, nor the server under a callback, however the start failed.
THEOREM AppThreadsFindTheirObjects == Spec => []ThreadsFindTheirObjects
  BY ObjectsFound, AppInvariant, PTL

\* When Log::shutdown() resets the logger no thread is left that could use it.
THEOREM AppLogOutlivesThreads == Spec => []LogOutlivesThreads
  <1>1. AppInv => LogOutlivesThreads
    BY DEF AppInv
  <1> QED  BY <1>1, AppInvariant, PTL

\* main() returns with every object deleted and the threads of the loop and of
\* the network joined; with 0 only when the pools and the log are down, too, and
\* otherwise without a pool or without writers of the log.
THEOREM AppCleanReturn == Spec => []CleanReturn
  BY NothingLeft, AppInvariant, PTL
=============================================================================
