------------------------------ MODULE MySQLPool ------------------------------
(***************************************************************************)
(* The connection pool, src/database/MySQLPool.cpp: client threads that    *)
(* call acquire() and release(), the cleanup and health-check threads, the *)
(* thread that resizes the pool and the one that shuts it down.            *)
(*                                                                         *)
(* mutex_ is the variable lock.  An operation that runs from its lock to   *)
(* its unlock and reads at most once what another thread writes without    *)
(* mutex_ is one action, and so is what acquire() does between two looks   *)
(* at shutdown_, an atomic that shutdown() sets and notifies of without    *)
(* the mutex: shutdown() may fall between any two of its steps.  The       *)
(* health pass is one action for each slot.                                *)
(*                                                                         *)
(* A connection has no identity here: a slot of idleConnections_ holds a   *)
(* connection (Conn) or the null pointer that the health pass leaves       *)
(* behind (Null).  What the MySQL server answers is not the pool's choice: *)
(* connect() answers any member of ConnectOutcome, ping() any member of    *)
(* PingOutcome.                                                            *)
(***************************************************************************)
EXTENDS Integers, Sequences, FiniteSets

CONSTANTS
    Clients,         \* the threads that use the pool
    MinPoolSize,     \* config_.minPoolSize
    MaxPoolSize,     \* config_.maxPoolSize
    ConnectOutcome,  \* what MySQLConnection::connect() may answer
    PingOutcome,     \* what isConnected() and ping() may answer
    SizeTargets,     \* arguments setPoolSize() is called with
    SizeSteps,       \* arguments increasePoolSize()/decreasePoolSize() get
    SizeBound,       \* BOUND: currentPoolSize_ stays in -SizeBound..SizeBound
    TotalDebt        \* BOUND: a health pass starts only above -TotalDebt

ASSUME PoolAssumption ==
    /\ IsFiniteSet(Clients)
    /\ MinPoolSize \in Nat
    /\ MaxPoolSize \in Nat
    /\ MinPoolSize <= MaxPoolSize
    /\ ConnectOutcome \in SUBSET BOOLEAN
    /\ PingOutcome \in SUBSET BOOLEAN
    /\ SizeTargets \in SUBSET Int
    /\ SizeSteps \in SUBSET Int
    /\ SizeBound \in Nat
    /\ TotalDebt \in Nat

Conn == "conn"
Null == "null"
Free == "free"        \* nobody holds mutex_
Health == "health"    \* the health-check thread, as a holder of mutex_

ASSUME ThreadAssumption == Free \notin Clients /\ Health \notin Clients

VARIABLES
    phase,              \* "new", "open", "failed" (initialize), "crashed"
    lock,               \* holder of mutex_
    idleConnections,    \* vector of slots
    holding,            \* clients that own a connection of the pool
    totalConnections,
    activeConnections,
    currentPoolSize,
    shutdown,           \* the atomic shutdown_
    closing,            \* where the call of shutdown() stands
    pc,                 \* where each client's acquire() stands
    waiters,            \* clients blocked on condition_ and not yet notified
    expired,            \* waiting clients whose deadline has passed
    health,             \* where the health-check thread stands
    scan,               \* its range-for: next slot, last slot, buffer moved?
    cleanup             \* where the cleanup thread stands

counters == <<totalConnections, activeConnections, currentPoolSize>>
lifeVars == <<phase, shutdown, closing>>
poolVars == <<lock, idleConnections, holding, counters>>
clientVars == <<pc, waiters, expired>>
threadVars == <<health, scan, cleanup>>
vars == <<lifeVars, poolVars, clientVars, threadVars>>

NoScan == [pos |-> 1, last |-> 0, moved |-> FALSE]

\* begin() and end() of the range-for.  The mutant stops one slot early.
FullScan_Short ==
    [pos |-> 1, last |-> Len(idleConnections) - 1, moved |-> FALSE]

FullScan == [pos |-> 1, last |-> Len(idleConnections), moved |-> FALSE]

\* ++it, after a push_back() that may have moved the buffer.
NextSlot(moves) ==
    [pos |-> scan.pos + 1, last |-> scan.last, moved |-> scan.moved \/ moves]

\* Where a client stands: outside acquire(), asking for mutex_, in
\* createConnection(), about to call wait_until(), in it, at the test after
\* the loop, past that test.
PlacesInAcquire ==
    {"out", "acquire", "create", "block", "wait", "test", "take"}

TypeOK ==
    /\ phase \in {"new", "open", "failed", "crashed"}
    /\ lock \in Clients \cup {Free, Health}
    /\ idleConnections \in Seq({Conn, Null})
    /\ holding \in SUBSET Clients
    /\ totalConnections \in Int
    /\ activeConnections \in Int
    /\ currentPoolSize \in Int
    /\ shutdown \in BOOLEAN
    /\ closing \in {"no", "notify", "join", "clear", "done"}
    /\ pc \in [Clients -> PlacesInAcquire]
    /\ waiters \in SUBSET Clients
    /\ expired \in SUBSET Clients
    /\ health \in {"none", "sleep", "lock", "pass", "exited"}
    /\ scan \in [pos : Nat, last : Nat, moved : BOOLEAN]
    /\ cleanup \in {"none", "sleep", "lock", "exited"}

Init ==
    /\ phase = "new"
    /\ lock = Free
    /\ idleConnections = <<>>
    /\ holding = {}
    /\ totalConnections = 0
    /\ activeConnections = 0
    /\ currentPoolSize = 0
    /\ shutdown = FALSE
    /\ closing = "no"
    /\ pc = [c \in Clients |-> "out"]
    /\ waiters = {}
    /\ expired = {}
    /\ health = "none"
    /\ scan = NoScan
    /\ cleanup = "none"

-----------------------------------------------------------------------------
(* Helpers of the operations.                                              *)

\* canCreateNewConnection(), before each of the next n connections, when
\* totalConnections_ is total.  The mutant forgets the second comparison.
CanCreate_TotalOnly(total, n) == total + n <= MaxPoolSize

CanCreate(total, n) ==
    total + n <= MaxPoolSize /\ activeConnections + n <= MaxPoolSize

Slots(n) == [i \in 1..n |-> Conn]

\* n calls of createConnection() that succeed.
CreateConnections(n) ==
    /\ n > 0 => TRUE \in ConnectOutcome /\ CanCreate(totalConnections, n)
    /\ idleConnections' = idleConnections \o Slots(n)
    /\ totalConnections' = totalConnections + n
    /\ activeConnections' = activeConnections + n

\* "if (currentPoolSize_ > 0) currentPoolSize_--"
ShrinkPoolSize == IF currentPoolSize > 0 THEN currentPoolSize - 1
                                         ELSE currentPoolSize

\* A connection is gone.  The mutant leaves it in totalConnections_.
Discard_StillCounted ==
    /\ UNCHANGED totalConnections
    /\ currentPoolSize' = ShrinkPoolSize

Discard ==
    /\ totalConnections' = totalConnections - 1
    /\ currentPoolSize' = ShrinkPoolSize

\* idleConnections_.size() < static_cast<size_t>(currentPoolSize_): the cast
\* turns a negative size into a huge one.
FitsPool == currentPoolSize < 0 \/ Len(idleConnections) < currentPoolSize

\* The vector after n pop_back() calls, or as many as it has elements for.
DropBack(n) ==
    SubSeq(idleConnections, 1,
           IF n < Len(idleConnections) THEN Len(idleConnections) - n ELSE 0)

\* condition_.notify_one()
NotifyOne ==
    \/ waiters = {} /\ UNCHANGED waiters
    \/ \E w \in waiters : waiters' = waiters \ {w}

-----------------------------------------------------------------------------
(* initialize()                                                            *)

\* The first MinPoolSize connections are up and both threads are started.
Initialize ==
    /\ phase = "new"
    /\ CreateConnections(MinPoolSize)
    /\ currentPoolSize' = MinPoolSize
    /\ phase' = "open"
    /\ health' = "sleep"
    /\ cleanup' = "sleep"
    /\ UNCHANGED <<lock, holding, shutdown, closing, clientVars, scan>>

\* Connection n + 1 cannot be created: initialize() returns false, its caller
\* drops the pool, and the destructor runs shutdown().
InitializeFails(n) ==
    /\ phase = "new"
    /\ FALSE \in ConnectOutcome
    /\ CreateConnections(n)
    /\ phase' = "failed"
    /\ UNCHANGED <<lock, holding, currentPoolSize, shutdown, closing,
                   clientVars, threadVars>>

-----------------------------------------------------------------------------
(* acquire()                                                               *)

\* A client calls acquire() and asks for mutex_.
Call(c) ==
    /\ phase = "open"
    /\ pc[c] = "out"
    /\ c \notin holding
    /\ pc' = [pc EXCEPT ![c] = "acquire"]
    /\ UNCHANGED <<lifeVars, poolVars, waiters, expired, threadVars>>

\* The condition of the while loop.
MayWait ==
    ~shutdown /\ idleConnections = <<>> /\ CanCreate(totalConnections, 1)

\* The client has mutex_ and looks at the condition.
LoopTurn(c) ==
    /\ phase = "open"
    /\ lock = Free
    /\ lock' = c
    /\ pc' = [pc EXCEPT ![c] = IF MayWait THEN "create" ELSE "test"]
    /\ UNCHANGED <<lifeVars, idleConnections, holding, counters, waiters,
                   threadVars>>

\* The client gets the mutex, fixes its deadline and enters the loop.
Enter(c) ==
    /\ pc[c] = "acquire"
    /\ LoopTurn(c)
    /\ expired' = expired \ {c}

\* wait_until() returns no_timeout: the loop turns again.
Wake(c) ==
    /\ pc[c] = "wait"
    /\ c \notin waiters
    /\ LoopTurn(c)
    /\ UNCHANGED expired

\* createConnection() in the loop: a connection ends it.
Create(c) ==
    /\ phase = "open"
    /\ pc[c] = "create"
    /\ \/ /\ CreateConnections(1)
          /\ pc' = [pc EXCEPT ![c] = "test"]
       \/ /\ FALSE \in ConnectOutcome
          /\ CreateConnections(0)
          /\ pc' = [pc EXCEPT ![c] = "block"]
    /\ UNCHANGED <<lifeVars, lock, holding, currentPoolSize, waiters, expired,
                   threadVars>>

\* wait_until() lets go of the mutex and waits.  A notify_all() of shutdown()
\* that came while the client had the mutex is lost.
Block(c) ==
    /\ phase = "open"
    /\ pc[c] = "block"
    /\ pc' = [pc EXCEPT ![c] = "wait"]
    /\ waiters' = waiters \cup {c}
    /\ lock' = Free
    /\ UNCHANGED <<lifeVars, idleConnections, holding, counters, expired,
                   threadVars>>

\* condition_ may wake a waiter that nobody notified.
SpuriousWakeup(c) ==
    /\ phase = "open"
    /\ c \in waiters \ expired
    /\ waiters' = waiters \ {c}
    /\ UNCHANGED <<lifeVars, poolVars, pc, expired, threadVars>>

\* Mutant: wait() instead of wait_until().
DeadlinePasses_Never(c) == FALSE

\* Time passes wherever the client is in the loop.
DeadlinePasses(c) ==
    /\ phase = "open"
    /\ pc[c] \in {"create", "block", "wait"}
    /\ c \notin expired
    /\ expired' = expired \cup {c}
    /\ UNCHANGED <<lifeVars, poolVars, pc, waiters, threadVars>>

\* wait_until() returns timeout, notified or not: acquire() answers nullptr.
WaitTimesOut(c) ==
    /\ phase = "open"
    /\ lock = Free
    /\ pc[c] = "wait"
    /\ c \in expired
    /\ pc' = [pc EXCEPT ![c] = "out"]
    /\ waiters' = waiters \ {c}
    /\ UNCHANGED <<lifeVars, poolVars, expired, threadVars>>

\* The test after the loop.  The mutant does not look at shutdown_ again.
MayTake_WhileClosing == idleConnections # <<>>

MayTake == ~shutdown /\ idleConnections # <<>>

\* acquire() answers nullptr, or goes on to take a slot.
Test(c) ==
    /\ phase = "open"
    /\ pc[c] = "test"
    /\ pc' = [pc EXCEPT ![c] = IF MayTake THEN "take" ELSE "out"]
    /\ lock' = IF MayTake THEN c ELSE Free
    /\ UNCHANGED <<lifeVars, idleConnections, holding, counters, waiters,
                   expired, threadVars>>

\* The last slot is the client's, unless it is a null pointer.  shutdown_ is
\* not looked at again.
Take(c) ==
    /\ phase = "open"
    /\ pc[c] = "take"
    /\ pc' = [pc EXCEPT ![c] = "out"]
    /\ lock' = Free
    /\ idleConnections' = DropBack(1)
    /\ activeConnections' = activeConnections + 1
    /\ holding' = IF idleConnections[Len(idleConnections)] = Conn
                  THEN holding \cup {c} ELSE holding
    /\ UNCHANGED <<lifeVars, totalConnections, currentPoolSize, waiters,
                   expired, threadVars>>

-----------------------------------------------------------------------------
(* release()                                                               *)

\* Mutant: the counter goes down before shutdown_ is looked at.
ReleaseLate_Counted(c) ==
    /\ shutdown
    /\ activeConnections' = activeConnections - 1
    /\ UNCHANGED <<idleConnections, totalConnections, currentPoolSize,
                   waiters>>

\* shutdown_ is set: the connection is dropped and nothing is counted.
ReleaseLate(c) ==
    /\ shutdown
    /\ UNCHANGED <<idleConnections, counters, waiters>>

\* The connection fails its ping: no activeConnections_--, no notify_one().
ReleaseUnhealthy(c) ==
    /\ ~shutdown
    /\ FALSE \in PingOutcome
    /\ Discard
    /\ UNCHANGED <<idleConnections, activeConnections, waiters>>

\* The connection is healthy: it goes back to the pool, or is dropped when
\* the pool is at capacity.
ReleaseHealthy(c) ==
    /\ ~shutdown
    /\ TRUE \in PingOutcome
    /\ \/ /\ FitsPool
          /\ idleConnections' = Append(idleConnections, Conn)
          /\ UNCHANGED <<totalConnections, currentPoolSize>>
       \/ /\ ~FitsPool
          /\ Discard
          /\ UNCHANGED idleConnections
    /\ activeConnections' = activeConnections - 1
    /\ NotifyOne

Release(c) ==
    /\ phase = "open"
    /\ lock = Free
    /\ c \in holding
    /\ holding' = holding \ {c}
    /\ ReleaseLate(c) \/ ReleaseUnhealthy(c) \/ ReleaseHealthy(c)
    /\ UNCHANGED <<lifeVars, lock, pc, expired, threadVars>>

-----------------------------------------------------------------------------
(* setPoolSize(), increasePoolSize(), decreasePoolSize(): resizePool()     *)

ResizePool(newSize) ==
    /\ phase = "open"
    /\ lock = Free
    /\ newSize # currentPoolSize
    /\ newSize \in -SizeBound..SizeBound
    /\ \/ \E n \in 0..(newSize - currentPoolSize) :
             /\ \/ n = newSize - currentPoolSize
                \/ FALSE \in ConnectOutcome
                \/ ~CanCreate(totalConnections, n + 1)
             /\ CreateConnections(n)
       \/ /\ newSize < currentPoolSize
          /\ idleConnections' = DropBack(currentPoolSize - newSize)
          /\ totalConnections' = totalConnections
                                 - (Len(idleConnections) - Len(idleConnections'))
          /\ UNCHANGED activeConnections
    /\ currentPoolSize' = newSize
    /\ UNCHANGED <<lifeVars, lock, holding, clientVars, threadVars>>

SetPoolSize(newSize) ==
    newSize \in MinPoolSize..MaxPoolSize /\ ResizePool(newSize)

IncreasePoolSize(increment) ==
    /\ currentPoolSize + increment <= MaxPoolSize
    /\ ResizePool(currentPoolSize + increment)

DecreasePoolSize(decrement) ==
    /\ currentPoolSize - decrement >= MinPoolSize
    /\ ResizePool(currentPoolSize - decrement)

-----------------------------------------------------------------------------
(* connectionHealthCheck()                                                 *)

\* The sleep is over: the loop ends when shutdown_ is set, else the thread
\* asks for mutex_.
HealthWake ==
    /\ phase = "open"
    /\ health = "sleep"
    /\ health' = IF shutdown THEN "exited" ELSE "lock"
    /\ shutdown \/ totalConnections > -TotalDebt
    /\ UNCHANGED <<lifeVars, poolVars, clientVars, scan, cleanup>>

\* The range-for reads begin() and end() once.
HealthPass ==
    /\ phase = "open"
    /\ health = "lock"
    /\ lock = Free
    /\ lock' = Health
    /\ health' = "pass"
    /\ scan' = FullScan
    /\ UNCHANGED <<lifeVars, idleConnections, holding, counters,
                   clientVars, cleanup>>

\* The slot under the iterator is healthy.
SlotHealthy ==
    /\ ~scan.moved
    /\ idleConnections[scan.pos] = Conn
    /\ TRUE \in PingOutcome
    /\ scan' = NextSlot(FALSE)
    /\ UNCHANGED <<idleConnections, counters>>

\* The slot is a null pointer or fails its ping; in a buffer that push_back()
\* has moved, it is the null pointer a moved unique_ptr leaves.
SlotUnhealthy ==
    scan.moved \/ idleConnections[scan.pos] = Null \/ FALSE \in PingOutcome

\* The vector after conn.reset().  The mutant erases the slot.
SlotReset_Erased ==
    SubSeq(idleConnections, 1, scan.pos - 1)
        \o SubSeq(idleConnections, scan.pos + 1, Len(idleConnections))

SlotReset ==
    IF scan.moved THEN idleConnections
                  ELSE [idleConnections EXCEPT ![scan.pos] = Null]

\* replaceUnhealthyConnection(): the slot stays, null, and the replacement is
\* pushed at the back.  That may move the buffer under the range-for: whether
\* the vector is full then is the standard library's affair.
ReplaceUnhealthyConnection ==
    /\ SlotUnhealthy
    /\ currentPoolSize' = ShrinkPoolSize
    /\ \/ /\ CanCreate(totalConnections - 1, 1)
          /\ TRUE \in ConnectOutcome
          /\ idleConnections' = Append(SlotReset, Conn)
          /\ totalConnections' = totalConnections
          /\ activeConnections' = activeConnections + 1
          /\ \E moves \in BOOLEAN : scan' = NextSlot(moves)
       \/ /\ ~CanCreate(totalConnections - 1, 1) \/ FALSE \in ConnectOutcome
          /\ idleConnections' = SlotReset
          /\ totalConnections' = totalConnections - 1
          /\ UNCHANGED activeConnections
          /\ scan' = NextSlot(FALSE)

CheckSlot ==
    /\ phase = "open"
    /\ health = "pass"
    /\ scan.pos <= scan.last
    /\ SlotHealthy \/ ReplaceUnhealthyConnection
    /\ UNCHANGED <<lifeVars, lock, holding, clientVars, health, cleanup>>

\* The freed buffer holds something else by now: the process dies.
StaleSlotCrash ==
    /\ phase = "open"
    /\ health = "pass"
    /\ scan.pos <= scan.last
    /\ scan.moved
    /\ phase' = "crashed"
    /\ UNCHANGED <<poolVars, shutdown, closing, clientVars, threadVars>>

HealthPassEnds ==
    /\ phase = "open"
    /\ health = "pass"
    /\ scan.pos > scan.last
    /\ lock' = Free
    /\ health' = IF shutdown THEN "exited" ELSE "sleep"
    /\ scan' = NoScan
    /\ UNCHANGED <<lifeVars, idleConnections, holding, counters,
                   clientVars, cleanup>>

-----------------------------------------------------------------------------
(* cleanupThreadFunc()                                                     *)

CleanupWake ==
    /\ phase = "open"
    /\ cleanup = "sleep"
    /\ cleanup' = IF shutdown THEN "exited" ELSE "lock"
    /\ UNCHANGED <<lifeVars, poolVars, clientVars, health, scan>>

\* cleanupIdleConnections(): how long ago the last release was is left open.
CleanupIdleConnections ==
    /\ phase = "open"
    /\ cleanup = "lock"
    /\ lock = Free
    /\ \/ UNCHANGED <<idleConnections, counters>>
       \/ /\ currentPoolSize > MinPoolSize
          /\ idleConnections # <<>>
          /\ idleConnections' = DropBack(1)
          /\ totalConnections' = totalConnections - 1
          /\ currentPoolSize' = currentPoolSize - 1
          /\ UNCHANGED activeConnections
    /\ cleanup' = IF shutdown THEN "exited" ELSE "sleep"
    /\ UNCHANGED <<lifeVars, lock, holding, clientVars, health, scan>>

-----------------------------------------------------------------------------
(* shutdown()                                                              *)

\* shutdown_.exchange(true), without the mutex.
Shutdown ==
    /\ phase \in {"open", "failed"}
    /\ ~shutdown
    /\ shutdown' = TRUE
    /\ closing' = "notify"
    /\ UNCHANGED <<phase, poolVars, clientVars, threadVars>>

\* Mutant: shutdown() holds mutex_ from here on, over the joins.
ShutdownNotify_Locked ==
    /\ phase \in {"open", "failed"}
    /\ closing = "notify"
    /\ closing' = "join"
    /\ waiters' = {}
    /\ lock = Free
    /\ lock' = "closer"
    /\ UNCHANGED <<phase, idleConnections, holding, counters, shutdown, pc,
                   expired, threadVars>>

\* condition_.notify_all(), also without it.
ShutdownNotify ==
    /\ phase \in {"open", "failed"}
    /\ closing = "notify"
    /\ closing' = "join"
    /\ waiters' = {}
    /\ UNCHANGED <<phase, poolVars, shutdown, pc, expired, threadVars>>

\* Both joins: a thread that was never started is not joinable.
ShutdownJoin ==
    /\ phase \in {"open", "failed"}
    /\ closing = "join"
    /\ health \in {"none", "exited"}
    /\ cleanup \in {"none", "exited"}
    /\ closing' = "clear"
    /\ UNCHANGED <<phase, poolVars, shutdown, clientVars, threadVars>>

ShutdownClear ==
    /\ phase \in {"open", "failed"}
    /\ closing = "clear"
    /\ lock = Free
    /\ closing' = "done"
    /\ idleConnections' = <<>>
    /\ totalConnections' = 0
    /\ activeConnections' = 0
    /\ currentPoolSize' = 0
    /\ UNCHANGED <<phase, lock, holding, shutdown, clientVars, threadVars>>

\* A pool that never opened and is shut down, or a dead process, does no more.
Stopped ==
    /\ phase = "crashed" \/ (phase = "failed" /\ closing = "done")
    /\ UNCHANGED vars

-----------------------------------------------------------------------------
Acquire(c) ==
    \/ Call(c) \/ Enter(c) \/ Wake(c) \/ Create(c) \/ Block(c)
    \/ SpuriousWakeup(c) \/ DeadlinePasses(c) \/ WaitTimesOut(c)
    \/ Test(c) \/ Take(c)

Resize ==
    \/ \E n \in SizeTargets : SetPoolSize(n)
    \/ \E k \in SizeSteps : IncreasePoolSize(k) \/ DecreasePoolSize(k)

HealthThread == HealthWake \/ HealthPass \/ CheckSlot \/ HealthPassEnds
CleanupThread == CleanupWake \/ CleanupIdleConnections
ShutdownThread == ShutdownNotify \/ ShutdownJoin \/ ShutdownClear

Next ==
    \/ Initialize
    \/ \E n \in 0..(MinPoolSize - 1) : InitializeFails(n)
    \/ \E c \in Clients : Acquire(c) \/ Release(c)
    \/ Resize
    \/ HealthThread \/ StaleSlotCrash
    \/ CleanupThread
    \/ Shutdown \/ ShutdownThread
    \/ Stopped

Spec == Init /\ [][Next]_vars

\* A thread that can run does; one that waits for mutex_ gets it sooner or
\* later although others take it again and again; sleeps end and deadlines
\* pass, and a client whose deadline has passed does not stay in wait_until()
\* because it is notified every time.  Nobody has to call acquire(),
\* release() or shutdown().
Fairness ==
    /\ \A c \in Clients :
          /\ SF_vars(Enter(c) \/ Wake(c) \/ Create(c) \/ Block(c)
                        \/ Test(c) \/ Take(c))
          /\ SF_vars(WaitTimesOut(c))
          /\ WF_vars(DeadlinePasses(c))
    /\ SF_vars(HealthThread)
    /\ SF_vars(CleanupThread)
    /\ SF_vars(ShutdownThread)

FairSpec == Spec /\ Fairness
-----------------------------------------------------------------------------
(* Properties                                                              *)

Cleared == closing = "done"

\* maxPoolSize limits what the pool holds: the idle slots and the connections
\* lent out are never more than MaxPoolSize, whatever dies, is replaced, is
\* discarded or is resized away.  Once shutdown() has cleared the pool the
\* connections still lent out are no longer the pool's, and the limit is on
\* what setPoolSize() may have created since.
SlotsWithinMax ==
    /\ Len(idleConnections) <= MaxPoolSize
    /\ ~Cleared => Len(idleConnections) + Cardinality(holding) <= MaxPoolSize

LiveIdle ==
    Cardinality({i \in 1..Len(idleConnections) : idleConnections[i] = Conn})

\* totalConnections_ is what canCreateNewConnection() compares with the limit.
\* It never counts a connection that is gone, so it never keeps the pool from
\* growing: discards, null slots and failed replacements only push it down.
\* (During shutdown() late releases drop connections without counting them.)
TotalNeverOverstates ==
    ~shutdown => totalConnections <= LiveIdle + Cardinality(holding)

\* shutdown() resets activeConnections_ to 0 while clients still own
\* connections; their late releases must not take the counter below the slots
\* it is there to limit.  Before that it covers each slot once and each loan
\* twice: createConnection() counts a connection that acquire() counts again.
ActiveCoversLoans ==
    /\ activeConnections >= Len(idleConnections)
    /\ ~Cleared =>
         activeConnections >= Len(idleConnections) + 2 * Cardinality(holding)

\* Clients past the test of shutdown_, with the slot yet to be taken.
Taking == {c \in Clients : pc[c] = "take"}

\* Once shutdown_ is set, which happens without the mutex, a connection is only
\* handed to the client that was past its test then, and to nobody once
\* shutdown() has cleared the pool: not to a client that waited or was creating
\* a connection in acquire(), and not from the connections that setPoolSize()
\* creates in a pool that is shut down.
NoLoanAfterShutdown ==
    [][/\ shutdown => holding' \cup Taking' \subseteq holding \cup Taking
       /\ Cleared => holding' \subseteq holding]_vars

\* While the pool is open its vector is never touched during a health pass by
\* anybody but the pass, and the pass only appends: each slot it has yet to
\* check is the one it saw when it began.
PassKeepsItsSlots ==
    [][health = "pass" =>
         \A i \in 1..Len(idleConnections) :
            i # scan.pos => /\ i <= Len(idleConnections')
                            /\ idleConnections'[i] = idleConnections[i]]_vars

\* A call of acquire() returns, at the latest when its deadline has passed,
\* whatever happens to the notifications (shutdown() notifies without the
\* mutex, a release may wake a client that gives up).
EveryAcquireReturns ==
    \A c \in Clients :
        (pc[c] = "acquire") ~> (pc[c] = "out" \/ phase = "crashed")

\* shutdown() gets past its joins and empties the pool, whatever the two
\* threads and the clients are doing when it is called.
ShutdownCompletes == shutdown ~> (Cleared \/ phase = "crashed")

-----------------------------------------------------------------------------
(* What comments and tests say of the pool, and the code does not do.      *)

Refused(c) == pc[c] \in {"test", "take"} /\ pc'[c] = "out" /\ c \notin holding'

\* MySQLPool.cpp:81 "Wait for available connection or timeout": acquire() does
\* not come back empty-handed before its deadline while the pool is running.
RefusalOnlyAtDeadline ==
    [][\A c \in Clients : Refused(c) => shutdown \/ c \in expired]_vars

\* tests/MySQLTest.cpp:226-247 acquires and returns one connection at a time,
\* a hundred times, of a running server: with no connection lent out, every
\* client that comes gets one.
ServesWhenNothingLent ==
    [][\A c \in Clients : Refused(c) => shutdown \/ holding # {}]_vars

\* MySQLPool.cpp:91 "Wait for a connection to become available": while clients
\* wait without having been notified and nobody is at work under the mutex,
\* every idle connection is one that a notified client is on its way to.
IdleIsAnnounced ==
    lock = Free /\ waiters # {} =>
        Len(idleConnections)
            <= Cardinality({c \in Clients : pc[c] = "wait"} \ waiters)

\* MySQLPool.cpp:239 "Check all idle connections for health": what a health
\* pass reads is a slot of idleConnections_.
PassReadsIdleSlots ==
    health = "pass" /\ scan.pos <= scan.last => ~scan.moved
=============================================================================
