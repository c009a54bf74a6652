-------------------------- MODULE MySQLPool_proofs --------------------------
(***************************************************************************)
(* Proofs about MySQLPool for every number of clients, every pool size and *)
(* every behaviour of the MySQL server.                                    *)
(***************************************************************************)
EXTENDS MySQLPool, FiniteSetTheorems, SequenceTheorems, TLAPS

Vector == Seq({Conn, Null})

-----------------------------------------------------------------------------
(* What the helpers do to the vector and to the counters.                  *)

\* n calls of createConnection() append n slots, count each in
\* activeConnections_, and leave that counter within the limit.
LEMMA CreateFacts ==
    ASSUME TypeOK, NEW n \in Nat, CreateConnections(n)
    PROVE  /\ idleConnections' \in Vector
           /\ Len(idleConnections') = Len(idleConnections) + n
           /\ totalConnections' \in Int
           /\ activeConnections' \in Int
           /\ activeConnections' = activeConnections + n
           /\ n > 0 => activeConnections' <= MaxPoolSize
<1>1. Slots(n) \in Vector /\ Len(Slots(n)) = n
  BY DEF Slots, Vector
<1>2. idleConnections \in Vector
  BY DEF TypeOK, Vector
<1>3. /\ idleConnections \o Slots(n) \in Vector
      /\ Len(idleConnections \o Slots(n)) = Len(idleConnections) + n
  BY <1>1, <1>2, ConcatProperties DEF Vector
<1>4. /\ idleConnections' = idleConnections \o Slots(n)
      /\ totalConnections' = totalConnections + n
      /\ activeConnections' = activeConnections + n
  BY DEF CreateConnections
<1>5. totalConnections \in Int /\ activeConnections \in Int
  BY DEF TypeOK
<1>6. n > 0 => activeConnections + n <= MaxPoolSize
  BY DEF CreateConnections, CanCreate
<1> QED
  BY <1>3, <1>4, <1>5, <1>6

\* pop_back() never makes the vector longer, and shortens one with elements.
LEMMA DropBackFacts ==
    ASSUME TypeOK, NEW n \in Nat
    PROVE  /\ DropBack(n) \in Vector
           /\ Len(DropBack(n)) <= Len(idleConnections)
           /\ n = 1 /\ idleConnections # <<>>
                => Len(DropBack(n)) = Len(idleConnections) - 1
<1> DEFINE len == Len(idleConnections)
           m == IF n < len THEN len - n ELSE 0
<1>1. idleConnections \in Seq({Conn, Null}) /\ len \in Nat
  BY DEF TypeOK
<1>2. idleConnections # <<>> => len \in Nat \ {0}
  BY <1>1, EmptySeq
<1>3. DropBack(n) = SubSeq(idleConnections, 1, m)
  BY DEF DropBack
<1>4. \A i \in 1..len : idleConnections[i] \in {Conn, Null}
  BY <1>1
<1> HIDE DEF len
<1>5. m \in Nat /\ m <= len /\ (len \in Nat \ {0} /\ n = 1 => m = len - 1)
  BY <1>1
<1> HIDE DEF m
<1>6. \A i \in 1..m : idleConnections[i] \in {Conn, Null}
  BY <1>1, <1>4, <1>5
<1>7. DropBack(n) \in Seq({Conn, Null}) /\ Len(DropBack(n)) = m
  BY <1>3, <1>5, <1>6, SubSeqProperties
<1> QED
  BY <1>1, <1>2, <1>5, <1>7 DEF Vector, len

\* The loans of a state, and what a loan or a return does to their number.
LEMMA LoanFacts ==
    ASSUME TypeOK, NEW c \in Clients
    PROVE  /\ Cardinality(holding) \in Nat
           /\ Cardinality(holding \cup {c}) \in Nat
           /\ Cardinality(holding \cup {c}) <= Cardinality(holding) + 1
           /\ c \in holding =>
                Cardinality(holding \ {c}) = Cardinality(holding) - 1
<1>1. IsFiniteSet(holding)
  BY PoolAssumption, FS_Subset DEF TypeOK
<1>2. Cardinality(holding) \in Nat
  BY <1>1, FS_CardinalityType
<1>3. /\ IsFiniteSet(holding \cup {c})
      /\ \/ Cardinality(holding \cup {c}) = Cardinality(holding) + 1
         \/ Cardinality(holding \cup {c}) = Cardinality(holding)
  BY <1>1, FS_AddElement
<1>4. c \in holding => Cardinality(holding \ {c}) = Cardinality(holding) - 1
  BY <1>1, FS_RemoveElement
<1> QED
  BY <1>2, <1>3, <1>4

\* Where the iterator of the health pass may be.
LEMMA ScanFacts ==
    ASSUME TypeOK
    PROVE  /\ NoScan \in [pos : Nat, last : Nat, moved : BOOLEAN]
           /\ FullScan \in [pos : Nat, last : Nat, moved : BOOLEAN]
           /\ \A b \in BOOLEAN :
                NextSlot(b) \in [pos : Nat, last : Nat, moved : BOOLEAN]
<1>1. Len(idleConnections) \in Nat
  BY DEF TypeOK
<1>2. scan \in [pos : Nat, last : Nat, moved : BOOLEAN]
  BY DEF TypeOK
<1> QED
  BY <1>1, <1>2 DEF NoScan, FullScan, NextSlot

\* conn.reset() leaves as many slots as there were.
LEMMA SlotResetFacts ==
    ASSUME TypeOK
    PROVE  /\ SlotReset \in Vector
           /\ Len(SlotReset) = Len(idleConnections)
           /\ Append(SlotReset, Conn) \in Vector
           /\ Len(Append(SlotReset, Conn)) = Len(idleConnections) + 1
<1>1. idleConnections \in Vector
  BY DEF TypeOK, Vector
<1>2. SlotReset \in Vector /\ Len(SlotReset) = Len(idleConnections)
  BY <1>1 DEF SlotReset, Vector
<1> QED
  BY <1>2, AppendProperties DEF Vector

-----------------------------------------------------------------------------
(* Type correctness.                                                       *)

\* The pool before initialize() is well typed.
LEMMA TypeInit == Init => TypeOK
<1>1. NoScan \in [pos : Nat, last : Nat, moved : BOOLEAN]
  BY DEF NoScan
<1>2. <<>> \in Seq({Conn, Null})
  BY EmptySeq
<1>3. [c \in Clients |-> "out"] \in [Clients -> PlacesInAcquire]
  BY DEF PlacesInAcquire
<1>4. /\ holding = {} /\ waiters = {} /\ expired = {} => 
            holding \in SUBSET Clients /\ waiters \in SUBSET Clients
                /\ expired \in SUBSET Clients
      /\ 0 \in Int
  OBVIOUS
<1>5. ASSUME Init
      PROVE  /\ phase \in {"new", "open", "failed", "crashed"}
             /\ lock \in Clients \cup {Free, Health}
             /\ shutdown \in BOOLEAN
             /\ closing \in {"no", "notify", "join", "clear", "done"}
             /\ health \in {"none", "sleep", "lock", "pass", "exited"}
             /\ cleanup \in {"none", "sleep", "lock", "exited"}
  BY <1>5 DEF Init
<1> QED
  BY <1>1, <1>2, <1>3, <1>4, <1>5, Zenon DEF Init, TypeOK

\* acquire() keeps the types.
LEMMA TypeAcquire ==
    ASSUME TypeOK, NEW c \in Clients, Acquire(c)
    PROVE  TypeOK'
<1> USE DEF TypeOK, lifeVars, poolVars, counters, clientVars, threadVars
<1>0. {"out", "acquire", "create", "block", "wait", "test", "take"} = PlacesInAcquire
  BY DEF PlacesInAcquire
<1>1. CASE Call(c)
  BY <1>0, <1>1 DEF Call
<1>2. ASSUME LoopTurn(c), expired' \in SUBSET Clients
      PROVE  TypeOK'
  BY <1>0, <1>2 DEF LoopTurn
<1>3. CASE Enter(c)
  BY <1>2, <1>3 DEF Enter
<1>4. CASE Wake(c)
  BY <1>2, <1>4 DEF Wake
<1>5. CASE SpuriousWakeup(c)
  BY <1>5 DEF SpuriousWakeup
<1>6. CASE DeadlinePasses(c)
  BY <1>6 DEF DeadlinePasses
<1>7. CASE WaitTimesOut(c)
  BY <1>0, <1>7 DEF WaitTimesOut
<1>8. CASE Create(c)
  <2>1. PICK n \in Nat : CreateConnections(n)
    BY <1>8 DEF Create
  <2>2. /\ idleConnections' \in Seq({Conn, Null})
        /\ totalConnections' \in Int
        /\ activeConnections' \in Int
    BY <2>1, CreateFacts DEF Vector
  <2>3. pc' \in [Clients -> PlacesInAcquire]
    BY <1>0, <1>8 DEF Create
  <2> QED
    BY <1>8, <2>2, <2>3 DEF Create
<1>9. CASE Block(c)
  BY <1>0, <1>9 DEF Block
<1>10. CASE Test(c)
  BY <1>0, <1>10 DEF Test
<1>11. CASE Take(c)
  <2>1. DropBack(1) \in Seq({Conn, Null})
    BY DropBackFacts DEF Vector
  <2>2. /\ idleConnections' \in Seq({Conn, Null})
        /\ activeConnections' \in Int
        /\ holding' \in SUBSET Clients
    BY <1>11, <2>1 DEF Take
  <2> QED
    BY <1>0, <1>11, <2>2 DEF Take
<1> QED
  BY <1>1, <1>3, <1>4, <1>5, <1>6, <1>7, <1>8, <1>9, <1>10, <1>11 DEF Acquire

\* release() keeps the types.
LEMMA TypeRelease ==
    ASSUME TypeOK, NEW c \in Clients, Release(c)
    PROVE  TypeOK'
<1> USE DEF TypeOK, lifeVars, poolVars, counters, threadVars
<1>1. CASE ReleaseLate(c)
  BY <1>1 DEF Release, ReleaseLate
<1>2. ShrinkPoolSize \in Int
  BY DEF ShrinkPoolSize
<1>3. CASE ReleaseUnhealthy(c)
  BY <1>2, <1>3 DEF Release, ReleaseUnhealthy, Discard
<1>4. CASE ReleaseHealthy(c)
  <2>1. Append(idleConnections, Conn) \in Seq({Conn, Null})
    BY AppendProperties
  <2>2. /\ idleConnections' \in Seq({Conn, Null})
        /\ totalConnections' \in Int
        /\ activeConnections' \in Int
        /\ currentPoolSize' \in Int
    <3>1. \/ /\ idleConnections' = Append(idleConnections, Conn)
             /\ totalConnections' = totalConnections
             /\ currentPoolSize' = currentPoolSize
          \/ /\ totalConnections' = totalConnections - 1
             /\ currentPoolSize' = ShrinkPoolSize
             /\ idleConnections' = idleConnections
      BY <1>4 DEF ReleaseHealthy, Discard
    <3>2. activeConnections' = activeConnections - 1
      BY <1>4 DEF ReleaseHealthy
    <3>3. /\ idleConnections \in Seq({Conn, Null})
          /\ totalConnections \in Int
          /\ activeConnections \in Int
          /\ currentPoolSize \in Int
      OBVIOUS
    <3> HIDE DEF TypeOK
    <3> QED
      BY <1>2, <2>1, <3>1, <3>2, <3>3
  <2>3. waiters' \in SUBSET Clients
    <3>1. NotifyOne
      BY <1>4 DEF ReleaseHealthy
    <3>2. waiters \in SUBSET Clients
      OBVIOUS
    <3> HIDE DEF TypeOK
    <3> QED
      BY <3>1, <3>2, Zenon DEF NotifyOne
  <2> QED
    BY <2>2, <2>3 DEF Release
<1> QED
  BY <1>1, <1>3, <1>4 DEF Release

\* setPoolSize(), increasePoolSize() and decreasePoolSize() keep the types.
LEMMA TypeResize ==
    ASSUME TypeOK, NEW newSize \in Int, ResizePool(newSize)
    PROVE  TypeOK'
<1> USE DEF TypeOK, lifeVars, poolVars, counters, clientVars, threadVars
<1>1. ASSUME NEW n \in Nat, CreateConnections(n)
      PROVE  TypeOK'
  BY <1>1, CreateFacts DEF ResizePool, Vector
<1>2. ASSUME newSize < currentPoolSize,
             idleConnections' = DropBack(currentPoolSize - newSize),
             totalConnections' = totalConnections
                                 - (Len(idleConnections) - Len(idleConnections')),
             UNCHANGED activeConnections
      PROVE  TypeOK'
  <2>1. currentPoolSize - newSize \in Nat
    BY <1>2
  <2>2. idleConnections' \in Seq({Conn, Null})
    BY <1>2, <2>1, DropBackFacts DEF Vector
  <2>3. totalConnections' \in Int
    BY <1>2, <2>2
  <2> QED
    BY <1>2, <2>2, <2>3 DEF ResizePool
<1>3. \A n \in 0..(newSize - currentPoolSize) : n \in Nat
  OBVIOUS
<1> HIDE DEF TypeOK
<1> QED
  BY <1>1, <1>2, <1>3 DEF ResizePool

\* The health-check and cleanup threads keep the types.
LEMMA TypeThreads ==
    ASSUME TypeOK, HealthThread \/ StaleSlotCrash \/ CleanupThread
    PROVE  TypeOK'
<1> USE DEF TypeOK, lifeVars, poolVars, counters, clientVars, threadVars
<1>1. CASE HealthWake
  BY <1>1 DEF HealthWake
<1>2. CASE HealthPass
  BY <1>2, ScanFacts DEF HealthPass
<1>3. CASE CheckSlot
  <2>1. scan' \in [pos : Nat, last : Nat, moved : BOOLEAN]
    BY <1>3, ScanFacts DEF CheckSlot, SlotHealthy, ReplaceUnhealthyConnection
  <2>2. CASE SlotHealthy
    BY <1>3, <2>1, <2>2 DEF CheckSlot, SlotHealthy
  <2>3. CASE ReplaceUnhealthyConnection
    <3>1. currentPoolSize' \in Int
      BY <2>3 DEF ReplaceUnhealthyConnection, ShrinkPoolSize
    <3>2. \/ /\ idleConnections' = Append(SlotReset, Conn)
             /\ totalConnections' = totalConnections
             /\ activeConnections' = activeConnections + 1
          \/ /\ idleConnections' = SlotReset
             /\ totalConnections' = totalConnections - 1
             /\ activeConnections' = activeConnections
      BY <2>3 DEF ReplaceUnhealthyConnection
    <3>3. /\ idleConnections' \in Seq({Conn, Null})
          /\ totalConnections' \in Int
          /\ activeConnections' \in Int
      <4>1. /\ SlotReset \in Seq({Conn, Null})
            /\ Append(SlotReset, Conn) \in Seq({Conn, Null})
        BY SlotResetFacts DEF Vector
      <4>2. totalConnections \in Int /\ activeConnections \in Int
        OBVIOUS
      <4> HIDE DEF TypeOK
      <4> QED
        BY <3>2, <4>1, <4>2
    <3> QED
      BY <1>3, <2>1, <3>1, <3>3 DEF CheckSlot
  <2> QED
    BY <1>3, <2>2, <2>3 DEF CheckSlot
<1>4. CASE HealthPassEnds
  BY <1>4, ScanFacts DEF HealthPassEnds
<1>5. CASE StaleSlotCrash
  BY <1>5 DEF StaleSlotCrash
<1>6. CASE CleanupWake
  BY <1>6 DEF CleanupWake
<1>7. CASE CleanupIdleConnections
  <2>1. DropBack(1) \in Seq({Conn, Null})
    BY DropBackFacts DEF Vector
  <2>2. /\ idleConnections' \in Seq({Conn, Null})
        /\ totalConnections' \in Int
        /\ activeConnections' \in Int
        /\ currentPoolSize' \in Int
    BY <1>7, <2>1 DEF CleanupIdleConnections
  <2> QED
    BY <1>7, <2>2 DEF CleanupIdleConnections
<1> QED
  BY <1>1, <1>2, <1>3, <1>4, <1>5, <1>6, <1>7 DEF HealthThread, CleanupThread

\* shutdown() keeps the types.
LEMMA TypeShutdown ==
    ASSUME TypeOK, Shutdown \/ ShutdownThread
    PROVE  TypeOK'
<1> USE DEF TypeOK, lifeVars, poolVars, counters, clientVars, threadVars
<1>1. CASE Shutdown
  BY <1>1 DEF Shutdown
<1>2. CASE ShutdownNotify
  BY <1>2 DEF ShutdownNotify
<1>3. CASE ShutdownJoin
  BY <1>3 DEF ShutdownJoin
<1>4. CASE ShutdownClear
  BY <1>4, EmptySeq DEF ShutdownClear
<1> QED
  BY <1>1, <1>2, <1>3, <1>4 DEF ShutdownThread

\* initialize() keeps the types, whether it succeeds or not.
LEMMA TypeInitialize ==
    ASSUME TypeOK,
           Initialize \/ \E n \in 0..(MinPoolSize - 1) : InitializeFails(n)
    PROVE  TypeOK'
<1> USE DEF TypeOK, lifeVars, poolVars, counters, clientVars, threadVars
<1>1. CASE Initialize
  BY <1>1, CreateFacts, PoolAssumption DEF Initialize, Vector
<1>2. ASSUME NEW n \in Nat, InitializeFails(n)
      PROVE  TypeOK'
  BY <1>2, CreateFacts DEF InitializeFails, Vector
<1> QED
  BY <1>1, <1>2, PoolAssumption

\* Every step of the pool keeps the types.
LEMMA TypeNext == TypeOK /\ [Next]_vars => TypeOK'
<1> SUFFICES ASSUME TypeOK, [Next]_vars
             PROVE  TypeOK'
  OBVIOUS
<1>1. CASE UNCHANGED vars
  BY <1>1 DEF TypeOK, vars, lifeVars, poolVars, counters, clientVars, threadVars
<1>2. CASE Resize
  <2>1. SizeTargets \subseteq Int /\ SizeSteps \subseteq Int /\ currentPoolSize \in Int
    BY PoolAssumption DEF TypeOK
  <2>2. PICK newSize \in Int : ResizePool(newSize)
    BY <1>2, <2>1 DEF Resize, SetPoolSize, IncreasePoolSize, DecreasePoolSize
  <2> QED
    BY <2>2, TypeResize
<1>3. CASE Stopped
  BY <1>1, <1>3 DEF Stopped
<1> QED
  BY <1>1, <1>2, <1>3, TypeInitialize, TypeAcquire, TypeRelease, TypeThreads,
     TypeShutdown DEF Next

\* The counters, the vector, every thread's place and the health pass's
\* iterator keep their types: the pass never computes an end of the vector
\* before its beginning, and no operation leaves anything in the vector that
\* is not a slot.
THEOREM TypeCorrect == Spec => []TypeOK
<1> QED
  BY TypeInit, TypeNext, PTL DEF Spec

-----------------------------------------------------------------------------
(* Where the threads stand.  The properties below are about steps that     *)
(* only exclude each other because of it.                                  *)

\* Where a client in acquire() has mutex_.
UnderMutex == {"create", "block", "test", "take"}

\* A client in acquire() has no connection; one between its lock and its
\* unlock, and a health pass, have mutex_, and the slot that a client is about
\* to take is there and shutdown() has not cleared the pool, although
\* shutdown_ may be set by then; the health thread starts in initialize() and
\* is gone when shutdown() clears the pool; shutdown_ is set from the start of
\* shutdown() on.
Seats ==
    /\ \A c \in Clients : pc[c] # "out" => c \notin holding
    /\ \A c \in Clients : pc[c] \in UnderMutex => lock = c
    /\ \A c \in Clients : pc[c] = "take" => idleConnections # <<>> /\ ~Cleared
    /\ health = "pass" => lock = Health
    /\ closing = "clear" => health \in {"none", "exited"}
    /\ phase = "new" => closing = "no" /\ ~shutdown /\ health = "none"
    /\ closing # "no" => shutdown

\* acquire() keeps the threads in their places.
LEMMA SeatsAcquire ==
    ASSUME TypeOK, Seats, NEW c \in Clients, Acquire(c)
    PROVE  Seats'
<1> USE DEF lifeVars, poolVars, counters, clientVars, threadVars, Seats
<1>1. DOMAIN pc = Clients /\ c # Free /\ c # Health /\ Free # Health
  BY ThreadAssumption DEF TypeOK, Free, Health
<1>2. CASE Call(c)
  BY <1>1, <1>2 DEF Call, UnderMutex, Cleared
<1>3. ASSUME LoopTurn(c), pc[c] \in {"acquire", "wait"}
      PROVE  Seats'
  <2>1. /\ lock = Free /\ lock' = c
        /\ UNCHANGED <<phase, shutdown, closing, holding, health, idleConnections>>
        /\ \/ pc' = [pc EXCEPT ![c] = "create"]
           \/ pc' = [pc EXCEPT ![c] = "test"]
    BY <1>3 DEF LoopTurn
  <2> QED
    BY <1>1, <1>3, <2>1, ThreadAssumption DEF UnderMutex
<1>4. CASE Enter(c)
  BY <1>3, <1>4 DEF Enter
<1>5. CASE Wake(c)
  BY <1>3, <1>5 DEF Wake
<1>6. CASE SpuriousWakeup(c)
  BY <1>6 DEF SpuriousWakeup, Cleared
<1>7. CASE DeadlinePasses(c)
  BY <1>7 DEF DeadlinePasses, Cleared
<1>8. CASE WaitTimesOut(c)
  BY <1>1, <1>8 DEF WaitTimesOut, UnderMutex, Cleared
<1>9. CASE Create(c)
  <2>1. /\ pc[c] = "create" /\ lock' = lock
        /\ UNCHANGED <<phase, shutdown, closing, holding, health>>
        /\ \/ pc' = [pc EXCEPT ![c] = "test"]
           \/ pc' = [pc EXCEPT ![c] = "block"]
    BY <1>9 DEF Create
  <2>2. lock = c /\ \A d \in Clients : pc[d] \in UnderMutex => d = c
    BY <2>1 DEF UnderMutex
  <2> QED
    BY <1>1, <2>1, <2>2 DEF UnderMutex
<1>10. CASE Block(c)
  BY <1>1, <1>10 DEF Block, UnderMutex, Cleared
<1>11. CASE Test(c)
  <2>1. /\ pc[c] = "test" /\ lock = c
        /\ UNCHANGED <<phase, shutdown, closing, holding, health, idleConnections>>
    BY <1>11 DEF Test, UnderMutex
  <2>2. \/ pc' = [pc EXCEPT ![c] = "out"] /\ lock' = Free
        \/ /\ pc' = [pc EXCEPT ![c] = "take"] /\ lock' = c
           /\ ~shutdown /\ idleConnections # <<>>
    BY <1>11 DEF Test, MayTake
  <2> QED
    BY <1>1, <2>1, <2>2 DEF UnderMutex, Cleared
<1>12. CASE Take(c)
  <2>1. /\ pc' = [pc EXCEPT ![c] = "out"] /\ lock' = Free
        /\ holding' = holding \/ holding' = holding \cup {c}
        /\ UNCHANGED <<phase, shutdown, closing, health>>
    BY <1>12 DEF Take
  <2>2. lock = c /\ \A d \in Clients : pc[d] \in UnderMutex => d = c
    BY <1>12 DEF Take, UnderMutex
  <2> QED
    BY <1>1, <2>1, <2>2 DEF UnderMutex
<1> QED
  BY <1>2, <1>4, <1>5, <1>6, <1>7, <1>8, <1>9, <1>10, <1>11, <1>12 DEF Acquire

\* Every step of the pool keeps the threads in their places.
LEMMA SeatsNext == TypeOK /\ Seats /\ [Next]_vars => Seats'
<1> SUFFICES ASSUME TypeOK, Seats, [Next]_vars
             PROVE  Seats'
  OBVIOUS
<1> USE DEF lifeVars, poolVars, counters, clientVars, threadVars
<1>0. Free # Health /\ \A c \in Clients : c # Free /\ c # Health
  BY ThreadAssumption DEF Free, Health
<1>1. CASE UNCHANGED vars
  BY <1>1 DEF vars, Seats, Cleared
<1>2. ASSUME NEW c \in Clients, Acquire(c)
      PROVE  Seats'
  BY <1>2, SeatsAcquire
<1>3. ASSUME NEW c \in Clients, Release(c)
      PROVE  Seats'
  <2>1. lock = Free /\ lock' = lock
    BY <1>3 DEF Release
  <2>2. /\ holding' = holding \ {c}
        /\ UNCHANGED <<phase, shutdown, closing, pc, health>>
    BY <1>3 DEF Release
  <2> QED
    BY <1>0, <2>1, <2>2 DEF Seats, UnderMutex
<1>4. CASE Resize
  <2>1. lock = Free /\ UNCHANGED <<lock, holding, phase, shutdown, closing, pc, health>>
    BY <1>4 DEF Resize, SetPoolSize, IncreasePoolSize, DecreasePoolSize, ResizePool
  <2> QED
    BY <1>0, <2>1 DEF Seats, UnderMutex
<1>5. CASE HealthThread
  <2>1. CASE HealthWake
    BY <2>1 DEF HealthWake, Seats, Cleared
  <2>2. CASE HealthPass
    BY <1>0, <2>2 DEF HealthPass, Seats, UnderMutex, Cleared
  <2>3. CASE CheckSlot
    <3>1. /\ health = "pass" /\ lock = Health
          /\ UNCHANGED <<lock, holding, phase, shutdown, closing, pc, health>>
      BY <2>3 DEF CheckSlot, Seats
    <3> QED
      BY <1>0, <3>1 DEF Seats, UnderMutex
  <2>4. CASE HealthPassEnds
    BY <1>0, <2>4 DEF HealthPassEnds, Seats, UnderMutex, Cleared
  <2> QED
    BY <1>5, <2>1, <2>2, <2>3, <2>4 DEF HealthThread
<1>6. CASE StaleSlotCrash \/ CleanupThread
  <2>1. CASE StaleSlotCrash \/ CleanupWake
    BY <2>1 DEF StaleSlotCrash, CleanupWake, Seats, Cleared
  <2>2. CASE CleanupIdleConnections
    <3>1. lock = Free /\ UNCHANGED <<lock, holding, phase, shutdown, closing, pc, health>>
      BY <2>2 DEF CleanupIdleConnections
    <3> QED
      BY <1>0, <3>1 DEF Seats, UnderMutex
  <2> QED
    BY <1>6, <2>1, <2>2 DEF CleanupThread
<1>7. CASE Shutdown \/ ShutdownThread
  <2>1. CASE Shutdown \/ ShutdownNotify \/ ShutdownJoin
    BY <2>1 DEF Shutdown, ShutdownNotify, ShutdownJoin, Seats, Cleared
  <2>2. CASE ShutdownClear
    <3>1. /\ lock = Free /\ closing = "clear" /\ closing' = "done"
          /\ UNCHANGED <<lock, holding, phase, shutdown, pc, health>>
      BY <2>2 DEF ShutdownClear
    <3> QED
      BY <1>0, <3>1 DEF Seats, UnderMutex
  <2> QED
    BY <1>7, <2>1, <2>2 DEF ShutdownThread
<1>8. CASE Initialize \/ (\E n \in 0..(MinPoolSize - 1) : InitializeFails(n))
  <2>1. \A c \in Clients : pc[c] \in UnderMutex => lock = c
    BY DEF Seats
  <2>2. /\ phase = "new" /\ phase' # "new"
        /\ UNCHANGED <<lock, holding, shutdown, closing, pc>>
        /\ health' = "sleep" \/ health' = health
        /\ \E n \in Nat : CreateConnections(n)
    <3>1. ASSUME NEW n \in 0..(MinPoolSize - 1), InitializeFails(n)
          PROVE  /\ n \in Nat /\ CreateConnections(n)
                 /\ phase = "new" /\ phase' # "new"
                 /\ UNCHANGED <<lock, holding, shutdown, closing, pc, health>>
      BY <3>1, PoolAssumption DEF InitializeFails
    <3>2. CASE Initialize
      BY <3>2, PoolAssumption DEF Initialize
    <3> QED
      BY <1>8, <3>1, <3>2
  <2>3. ASSUME idleConnections # <<>>
        PROVE  idleConnections' # <<>>
    <3>1. PICK n \in Nat : CreateConnections(n)
      BY <2>2
    <3>2. /\ idleConnections' \in Vector
          /\ Len(idleConnections') = Len(idleConnections) + n
      BY <3>1, CreateFacts
    <3>3. idleConnections \in Vector
      BY DEF TypeOK, Vector
    <3>4. Len(idleConnections) \in Nat /\ Len(idleConnections) # 0
      BY <2>3, <3>3, EmptySeq DEF Vector
    <3>5. Len(idleConnections') # 0
      BY <3>2, <3>4
    <3> QED
      BY <3>2, <3>5, EmptySeq DEF Vector
  <2> QED
    BY <2>2, <2>3 DEF Seats, Cleared, UnderMutex
<1>9. CASE Stopped
  BY <1>1, <1>9 DEF Stopped
<1> QED
  BY <1>1, <1>2, <1>3, <1>4, <1>5, <1>6, <1>7, <1>8, <1>9 DEF Next

\* The threads are in their places in every reachable state.
LEMMA SeatsInvariant == Spec => []Seats
<1>1. Init => Seats
  BY DEF Init, Seats, UnderMutex
<1>2. TypeOK /\ Seats /\ [Next]_vars => Seats'
  BY SeatsNext
<1> QED
  BY <1>1, <1>2, TypeCorrect, PTL DEF Spec

-----------------------------------------------------------------------------
(* The limit on the pool.  TotalNeverOverstates is of no help here:        *)
(* totalConnections_ may be far below what the pool holds.  What limits    *)
(* the pool is activeConnections_, which counts a slot at its creation and *)
(* again when it is lent, and forgets only one of the two.                 *)

Budget == ActiveCoversLoans /\ SlotsWithinMax /\ (closing # "no" => shutdown)

\* The four ways in which a step may move the vector, the loans and
\* activeConnections_: something is dropped, n connections are created, one is
\* lent, one comes back.
LEMMA BudgetStep ==
    ASSUME TypeOK, TypeOK', Budget,
           Cleared => Cleared',
           closing' # "no" => shutdown',
           \/ /\ Len(idleConnections') <= Len(idleConnections)
              /\ activeConnections' = activeConnections
              /\ Cardinality(holding') <= Cardinality(holding)
           \/ \E n \in Nat :
                /\ Len(idleConnections') = Len(idleConnections) + n
                /\ activeConnections' = activeConnections + n
                /\ n > 0 => activeConnections' <= MaxPoolSize
                /\ holding' = holding
           \/ /\ ~Cleared
              /\ Len(idleConnections') = Len(idleConnections) - 1
              /\ activeConnections' = activeConnections + 1
              /\ Cardinality(holding') <= Cardinality(holding) + 1
           \/ /\ ~Cleared
              /\ Len(idleConnections') <= Len(idleConnections) + 1
              /\ activeConnections' = activeConnections - 1
              /\ Cardinality(holding') = Cardinality(holding) - 1
    PROVE  Budget'
<1> DEFINE l == Len(idleConnections)
           a == activeConnections
           h == Cardinality(holding)
           ll == Len(idleConnections')
           aa == activeConnections'
           hh == Cardinality(holding')
<1>1. l \in Nat /\ ll \in Nat /\ a \in Int /\ aa \in Int /\ MaxPoolSize \in Nat
  BY PoolAssumption DEF TypeOK
<1>2. IsFiniteSet(holding) /\ IsFiniteSet(holding')
  BY PoolAssumption, FS_Subset DEF TypeOK
<1>3. h \in Nat /\ hh \in Nat
  BY <1>2, FS_CardinalityType
<1>4. /\ a >= l /\ l <= MaxPoolSize
      /\ ~Cleared => a >= l + 2 * h /\ l + h <= MaxPoolSize
  BY DEF Budget, ActiveCoversLoans, SlotsWithinMax
<1>5. \/ ll <= l /\ aa = a /\ hh <= h
      \/ \E n \in Nat : /\ ll = l + n /\ aa = a + n
                        /\ n > 0 => aa <= MaxPoolSize
                        /\ hh = h
      \/ ~Cleared /\ ll = l - 1 /\ aa = a + 1 /\ hh <= h + 1
      \/ ~Cleared /\ ll <= l + 1 /\ aa = a - 1 /\ hh = h - 1
  OBVIOUS
<1> HIDE DEF l, a, h, ll, aa, hh
<1>6. aa >= ll /\ ll <= MaxPoolSize
  BY <1>1, <1>3, <1>4, <1>5
<1>7. ~Cleared => aa >= ll + 2 * hh /\ ll + hh <= MaxPoolSize
  BY <1>1, <1>3, <1>4, <1>5
<1> USE DEF l, a, h, ll, aa, hh
<1> QED
  BY <1>6, <1>7 DEF Budget, ActiveCoversLoans, SlotsWithinMax

\* Steps that touch none of the four.
LEMMA BudgetUntouched ==
    ASSUME Budget,
           UNCHANGED <<idleConnections, holding, activeConnections, closing, shutdown>>
    PROVE  Budget'
BY DEF Budget, ActiveCoversLoans, SlotsWithinMax, Cleared

\* acquire() stays within the budget of activeConnections_.
LEMMA BudgetAcquire ==
    ASSUME TypeOK, TypeOK', Seats, Budget, NEW c \in Clients, Acquire(c)
    PROVE  Budget'
<1> USE DEF lifeVars, poolVars, counters
<1>1. CASE Call(c) \/ SpuriousWakeup(c) \/ DeadlinePasses(c) \/ WaitTimesOut(c)
  BY <1>1, BudgetUntouched DEF Call, SpuriousWakeup, DeadlinePasses, WaitTimesOut
<1>2. CASE Enter(c) \/ Wake(c) \/ Block(c) \/ Test(c)
  BY <1>2, BudgetUntouched DEF Enter, Wake, LoopTurn, Block, Test
<1>3. CASE Create(c)
  <2>1. PICK n \in Nat : CreateConnections(n)
    BY <1>3 DEF Create
  <2>2. UNCHANGED <<holding, closing, shutdown>>
    BY <1>3 DEF Create
  <2> QED
    BY <2>1, <2>2, CreateFacts, BudgetStep DEF Budget, Cleared
<1>4. CASE Take(c)
  <2>1. UNCHANGED <<closing, shutdown>>
    BY <1>4 DEF Take
  <2>2. ~Cleared /\ idleConnections # <<>>
    BY <1>4 DEF Take, Seats
  <2>3. Len(idleConnections') = Len(idleConnections) - 1
    BY <1>4, <2>2, DropBackFacts DEF Take
  <2>4. activeConnections' = activeConnections + 1
    BY <1>4 DEF Take
  <2>5. Cardinality(holding') <= Cardinality(holding) + 1
    <3>1. holding' = holding \cup {c} \/ holding' = holding
      BY <1>4 DEF Take
    <3>2. /\ Cardinality(holding) \in Nat
          /\ Cardinality(holding \cup {c}) <= Cardinality(holding) + 1
      BY LoanFacts
    <3>3. CASE holding' = holding \cup {c}
      BY <3>2, <3>3
    <3>4. CASE holding' = holding
      BY <3>2, <3>4
    <3> QED
      BY <3>1, <3>3, <3>4
  <2> QED
    BY <2>1, <2>2, <2>3, <2>4, <2>5, BudgetStep DEF Budget, Cleared
<1> QED
  BY <1>1, <1>2, <1>3, <1>4 DEF Acquire

\* release() stays within the budget.
LEMMA BudgetRelease ==
    ASSUME TypeOK, TypeOK', Budget, NEW c \in Clients, Release(c)
    PROVE  Budget'
<1> USE DEF lifeVars, poolVars, counters, Cleared
<1>1. UNCHANGED <<closing, shutdown>> /\ holding' = holding \ {c} /\ c \in holding
  BY DEF Release
<1>2. Cardinality(holding') = Cardinality(holding) - 1
  BY <1>1, LoanFacts
<1>3. Cardinality(holding) \in Nat /\ Len(idleConnections) \in Nat
  <2>1. Cardinality(holding) \in Nat
    BY LoanFacts
  <2>2. Len(idleConnections) \in Nat
    BY DEF TypeOK
  <2> QED
    BY <2>1, <2>2
<1>4. CASE ReleaseLate(c) \/ ReleaseUnhealthy(c)
  <2>1. UNCHANGED <<idleConnections, activeConnections>>
    BY <1>4 DEF ReleaseLate, ReleaseUnhealthy
  <2>2. /\ Len(idleConnections') <= Len(idleConnections)
        /\ Cardinality(holding') <= Cardinality(holding)
    BY <1>2, <1>3, <2>1
  <2> QED
    BY <1>1, <2>1, <2>2, BudgetStep DEF Budget
<1>5. CASE ReleaseHealthy(c)
  <2>1. ~Cleared
    BY <1>5 DEF ReleaseHealthy, Budget
  <2>2. activeConnections' = activeConnections - 1
    BY <1>5 DEF ReleaseHealthy
  <2>3. Len(idleConnections') <= Len(idleConnections) + 1
    <3>1. \/ idleConnections' = Append(idleConnections, Conn)
          \/ idleConnections' = idleConnections
      BY <1>5 DEF ReleaseHealthy
    <3>2. Len(Append(idleConnections, Conn)) = Len(idleConnections) + 1
      BY AppendProperties DEF TypeOK
    <3> QED
      BY <1>3, <3>1, <3>2
  <2> QED
    BY <1>1, <1>2, <2>1, <2>2, <2>3, BudgetStep DEF Budget
<1> QED
  BY <1>4, <1>5 DEF Release

\* Resizing stays within the budget.
LEMMA BudgetResize ==
    ASSUME TypeOK, TypeOK', Budget, NEW newSize \in Int, ResizePool(newSize)
    PROVE  Budget'
<1> USE DEF Cleared
<1>1. UNCHANGED <<holding, closing, shutdown>>
  BY DEF ResizePool, lifeVars
<1>2. currentPoolSize \in Int
  BY DEF TypeOK
<1>3. ASSUME NEW n \in Nat, CreateConnections(n)
      PROVE  Budget'
  BY <1>1, <1>3, CreateFacts, BudgetStep DEF Budget
<1>4. ASSUME newSize < currentPoolSize,
             idleConnections' = DropBack(currentPoolSize - newSize),
             UNCHANGED activeConnections
      PROVE  Budget'
  <2>1. currentPoolSize - newSize \in Nat
    BY <1>2, <1>4
  <2>2. Len(idleConnections') <= Len(idleConnections)
    BY <1>4, <2>1, DropBackFacts
  <2>3. Cardinality(holding') <= Cardinality(holding)
    <3>1. Cardinality(holding) \in Nat
      BY PoolAssumption, FS_Subset, FS_CardinalityType DEF TypeOK
    <3> QED
      BY <1>1, <3>1
  <2> QED
    BY <1>1, <1>4, <2>2, <2>3, BudgetStep DEF Budget
<1>5. \A n \in 0..(newSize - currentPoolSize) : n \in Nat
  BY <1>2
<1> QED
  BY <1>3, <1>4, <1>5 DEF ResizePool

\* The health-check and cleanup threads stay within the budget.
LEMMA BudgetThreads ==
    ASSUME TypeOK, TypeOK', Budget, HealthThread \/ StaleSlotCrash \/ CleanupThread
    PROVE  Budget'
<1> USE DEF lifeVars, poolVars, counters, Cleared
<1>1. CASE HealthWake
  BY <1>1, BudgetUntouched DEF HealthWake
<1>2. CASE HealthPass
  BY <1>2, BudgetUntouched DEF HealthPass
<1>3. CASE CheckSlot
  <2>1. UNCHANGED <<holding, closing, shutdown>>
    BY <1>3 DEF CheckSlot
  <2>2. CASE SlotHealthy
    BY <2>1, <2>2, BudgetUntouched DEF SlotHealthy
  <2>3. CASE ReplaceUnhealthyConnection
    <3>1. \/ /\ idleConnections' = Append(SlotReset, Conn)
             /\ activeConnections' = activeConnections + 1
             /\ activeConnections < MaxPoolSize
          \/ /\ idleConnections' = SlotReset
             /\ activeConnections' = activeConnections
      <4>1. CanCreate(totalConnections - 1, 1) => activeConnections < MaxPoolSize
        BY PoolAssumption DEF CanCreate, TypeOK
      <4> QED
        BY <2>3, <4>1 DEF ReplaceUnhealthyConnection
    <3>2. \E n \in Nat : /\ Len(idleConnections') = Len(idleConnections) + n
                         /\ activeConnections' = activeConnections + n
                         /\ n > 0 => activeConnections' <= MaxPoolSize
      <4>1. Len(idleConnections) \in Nat /\ activeConnections \in Int
        BY DEF TypeOK
      <4>2. CASE idleConnections' = Append(SlotReset, Conn)
                   /\ activeConnections' = activeConnections + 1
                   /\ activeConnections < MaxPoolSize
        <5>1. Len(idleConnections') = Len(idleConnections) + 1
          BY <4>2, SlotResetFacts
        <5>2. activeConnections' <= MaxPoolSize
          BY <4>1, <4>2, PoolAssumption
        <5> QED
          BY <4>2, <5>1, <5>2
      <4>3. CASE idleConnections' = SlotReset
                   /\ activeConnections' = activeConnections
        <5>1. /\ Len(idleConnections') = Len(idleConnections) + 0
              /\ activeConnections' = activeConnections + 0
          BY <4>1, <4>3, SlotResetFacts
        <5> QED
          BY <5>1
      <4> QED
        BY <3>1, <4>2, <4>3
    <3> QED
      BY <2>1, <3>2, BudgetStep DEF Budget
  <2> QED
    BY <1>3, <2>2, <2>3 DEF CheckSlot
<1>4. CASE HealthPassEnds
  BY <1>4, BudgetUntouched DEF HealthPassEnds
<1>5. CASE StaleSlotCrash
  BY <1>5, BudgetUntouched DEF StaleSlotCrash
<1>6. CASE CleanupWake
  BY <1>6, BudgetUntouched DEF CleanupWake
<1>7. CASE CleanupIdleConnections
  <2>1. UNCHANGED <<holding, closing, shutdown, activeConnections>>
    BY <1>7 DEF CleanupIdleConnections
  <2>2. idleConnections' = DropBack(1) \/ idleConnections' = idleConnections
    BY <1>7 DEF CleanupIdleConnections
  <2>3. Len(idleConnections) \in Nat /\ Cardinality(holding) \in Nat
    BY PoolAssumption, FS_Subset, FS_CardinalityType DEF TypeOK
  <2>4. Len(idleConnections') <= Len(idleConnections)
    <3>1. Len(DropBack(1)) <= Len(idleConnections)
      BY DropBackFacts
    <3> QED
      BY <2>2, <2>3, <3>1
  <2>5. Cardinality(holding') <= Cardinality(holding)
    BY <2>1, <2>3
  <2> QED
    BY <2>1, <2>4, <2>5, BudgetStep DEF Budget
<1> QED
  BY <1>1, <1>2, <1>3, <1>4, <1>5, <1>6, <1>7 DEF HealthThread, CleanupThread

\* shutdown() stays within the budget, also when it resets the counters
\* while connections are lent out.
LEMMA BudgetShutdown ==
    ASSUME TypeOK, Budget, Shutdown \/ ShutdownThread
    PROVE  Budget'
<1> USE DEF lifeVars, poolVars, counters, Cleared, Budget, ActiveCoversLoans, SlotsWithinMax
<1>1. CASE Shutdown
  BY <1>1 DEF Shutdown
<1>2. CASE ShutdownNotify
  BY <1>2 DEF ShutdownNotify
<1>3. CASE ShutdownJoin
  BY <1>3 DEF ShutdownJoin
<1>4. CASE ShutdownClear
  BY <1>4, EmptySeq, PoolAssumption DEF ShutdownClear
<1> QED
  BY <1>1, <1>2, <1>3, <1>4 DEF ShutdownThread

\* initialize() stays within the budget.
LEMMA BudgetInitialize ==
    ASSUME TypeOK, TypeOK', Budget,
           Initialize \/ \E n \in 0..(MinPoolSize - 1) : InitializeFails(n)
    PROVE  Budget'
<1> USE DEF lifeVars, poolVars, counters, Cleared
<1>1. PICK n \in Nat : CreateConnections(n)
  <2>1. ASSUME NEW n \in 0..(MinPoolSize - 1), InitializeFails(n)
        PROVE  n \in Nat /\ CreateConnections(n)
    BY <2>1, PoolAssumption DEF InitializeFails
  <2>2. CASE Initialize
    BY <2>2, PoolAssumption DEF Initialize
  <2> QED
    BY <2>1, <2>2
<1>2. UNCHANGED <<holding, closing, shutdown>>
  BY DEF Initialize, InitializeFails
<1> QED
  BY <1>1, <1>2, CreateFacts, BudgetStep DEF Budget

\* Every step of the pool stays within the budget.
LEMMA BudgetNext == TypeOK /\ Seats /\ Budget /\ [Next]_vars => Budget'
<1> SUFFICES ASSUME TypeOK, Seats, Budget, [Next]_vars
             PROVE  Budget'
  OBVIOUS
<1>1. TypeOK'
  BY TypeNext
<1>2. CASE UNCHANGED vars
  BY <1>2, BudgetUntouched DEF vars, lifeVars, poolVars, counters
<1>3. CASE Resize
  <2>1. SizeTargets \subseteq Int /\ SizeSteps \subseteq Int /\ currentPoolSize \in Int
    BY PoolAssumption DEF TypeOK
  <2>2. PICK newSize \in Int : ResizePool(newSize)
    BY <1>3, <2>1 DEF Resize, SetPoolSize, IncreasePoolSize, DecreasePoolSize
  <2> QED
    BY <1>1, <2>2, BudgetResize
<1>4. CASE Stopped
  BY <1>2, <1>4 DEF Stopped
<1> QED
  BY <1>1, <1>2, <1>3, <1>4, BudgetInitialize, BudgetAcquire, BudgetRelease,
     BudgetThreads, BudgetShutdown DEF Next

\* The pool before initialize() is within the budget.
LEMMA BudgetInit == Init => Budget
<1>1. Cardinality({}) = 0 /\ Len(<<>>) = 0
  BY FS_EmptySet, EmptySeq
<1> QED
  BY <1>1, PoolAssumption
     DEF Init, Budget, ActiveCoversLoans, SlotsWithinMax, Cleared

\* The inductive invariant holds in every reachable state.
LEMMA BudgetInvariant == Spec => []Budget
<1>1. TypeOK /\ Seats /\ Budget /\ [Next]_vars => Budget'
  BY BudgetNext
<1> QED
  BY <1>1, BudgetInit, TypeCorrect, SeatsInvariant, PTL DEF Spec

\* The idle slots and the loans never exceed maxPoolSize, for any number of
\* clients, any limits, any sizes the pool is set to and any answers of the
\* MySQL server, although totalConnections_, which the code compares with the
\* limit, runs away from what it counts.
THEOREM PoolWithinMax == Spec => []SlotsWithinMax
<1>1. Budget => SlotsWithinMax
  BY DEF Budget
<1> QED
  BY <1>1, BudgetInvariant, PTL

\* activeConnections_ counts every slot, and every loan twice, until
\* shutdown() resets it, and every slot still after that.
THEOREM PoolActiveCoversLoans == Spec => []ActiveCoversLoans
<1>1. Budget => ActiveCoversLoans
  BY DEF Budget
<1> QED
  BY <1>1, BudgetInvariant, PTL

\* Nobody passes the test of shutdown_ once it is set, so the connection that
\* the client past it takes is the last one handed out, and that is before
\* shutdown() clears the pool, which waits for the mutex the client has.
THEOREM PoolNoLoanAfterShutdown == Spec => NoLoanAfterShutdown
<1>1. TypeOK /\ Seats /\ [Next]_vars =>
        [/\ shutdown => holding' \cup Taking' \subseteq holding \cup Taking
         /\ Cleared => holding' \subseteq holding]_vars
  <2> SUFFICES ASSUME TypeOK, Seats, Next
               PROVE  /\ shutdown => holding' \cup Taking' \subseteq holding \cup Taking
                      /\ Cleared => holding' \subseteq holding
    OBVIOUS
  <2> USE DEF poolVars, lifeVars, clientVars, counters
  <2>1. ASSUME holding' \subseteq holding, UNCHANGED pc
        PROVE  /\ shutdown => holding' \cup Taking' \subseteq holding \cup Taking
               /\ Cleared => holding' \subseteq holding
    BY <2>1 DEF Taking
  <2>2. ASSUME NEW c \in Clients, Acquire(c)
        PROVE  /\ shutdown => holding' \cup Taking' \subseteq holding \cup Taking
               /\ Cleared => holding' \subseteq holding
    <3>1. pc \in [Clients -> PlacesInAcquire]
      BY DEF TypeOK
    <3>2. ASSUME UNCHANGED holding,
                 \/ UNCHANGED pc
                 \/ \E p \in PlacesInAcquire :
                      /\ pc' = [pc EXCEPT ![c] = p]
                      /\ shutdown => p # "take"
          PROVE  /\ shutdown => holding' \cup Taking' \subseteq holding \cup Taking
                 /\ Cleared => holding' \subseteq holding
      BY <3>1, <3>2 DEF Taking
    <3>3. CASE Call(c) \/ WaitTimesOut(c) \/ Create(c) \/ Block(c)
      BY <3>2, <3>3 DEF Call, WaitTimesOut, Create, Block, PlacesInAcquire
    <3>4. CASE Enter(c) \/ Wake(c)
      BY <3>2, <3>4 DEF Enter, Wake, LoopTurn, PlacesInAcquire
    <3>5. CASE SpuriousWakeup(c) \/ DeadlinePasses(c)
      BY <3>2, <3>5 DEF SpuriousWakeup, DeadlinePasses
    <3>6. CASE Test(c)
      BY <3>2, <3>6 DEF Test, MayTake, PlacesInAcquire
    <3>7. CASE Take(c)
      BY <3>1, <3>7 DEF Take, Taking, Seats
    <3> QED
      BY <2>2, <3>3, <3>4, <3>5, <3>6, <3>7 DEF Acquire
  <2>3. ASSUME NEW c \in Clients, Release(c)
        PROVE  holding' \subseteq holding /\ UNCHANGED pc
    BY <2>3 DEF Release
  <2>4. CASE Resize
    BY <2>1, <2>4 DEF Resize, SetPoolSize, IncreasePoolSize, DecreasePoolSize, ResizePool
  <2>5. CASE HealthThread \/ StaleSlotCrash \/ CleanupThread
    BY <2>1, <2>5 DEF HealthThread, HealthWake, HealthPass, CheckSlot, HealthPassEnds,
                StaleSlotCrash, CleanupThread, CleanupWake, CleanupIdleConnections
  <2>6. CASE Shutdown \/ ShutdownThread
    BY <2>1, <2>6 DEF Shutdown, ShutdownThread, ShutdownNotify, ShutdownJoin, ShutdownClear
  <2>7. CASE Initialize \/ (\E n \in 0..(MinPoolSize - 1) : InitializeFails(n))
    BY <2>1, <2>7 DEF Initialize, InitializeFails
  <2>8. CASE Stopped
    BY <2>1, <2>8 DEF Stopped, vars
  <2> QED
    BY <2>1, <2>2, <2>3, <2>4, <2>5, <2>6, <2>7, <2>8 DEF Next
<1> QED
  BY <1>1, TypeCorrect, SeatsInvariant, PTL DEF Spec, NoLoanAfterShutdown

-----------------------------------------------------------------------------
(* The health pass has the vector to itself.                               *)

\* The vector is the health pass's own while it runs: the client that is to
\* take a slot and everybody else need mutex_, and shutdown() joins first.
THEOREM PoolPassKeepsItsSlots == Spec => PassKeepsItsSlots
<1>1. ASSUME TypeOK, Seats, [Next]_vars, health = "pass",
             NEW i \in 1..Len(idleConnections), i # scan.pos
      PROVE  i <= Len(idleConnections') /\ idleConnections'[i] = idleConnections[i]
  <2> USE DEF lifeVars, poolVars, counters, clientVars, threadVars
  <2>1. lock = Health /\ Len(idleConnections) \in Nat /\ Free # Health
    BY <1>1 DEF Seats, TypeOK, Free, Health
  <2>2. CASE UNCHANGED idleConnections
    BY <1>1, <2>1, <2>2
  <2>3. ASSUME NEW c \in Clients, Acquire(c)
        PROVE  UNCHANGED idleConnections
    BY <1>1, <2>1, <2>3, ThreadAssumption
       DEF Acquire, Call, Enter, Wake, LoopTurn, Create, Block, SpuriousWakeup,
           DeadlinePasses, WaitTimesOut, Test, Take, Seats, UnderMutex
  <2>4. ASSUME NEW c \in Clients, Release(c)
        PROVE  UNCHANGED idleConnections
    BY <2>1, <2>4 DEF Release
  <2>5. CASE Resize
    BY <2>1, <2>5 DEF Resize, SetPoolSize, IncreasePoolSize, DecreasePoolSize, ResizePool
  <2>6. CASE CheckSlot
    <3>1. /\ idleConnections \in Vector /\ SlotReset \in Vector
          /\ Len(SlotReset) = Len(idleConnections)
          /\ SlotReset[i] = idleConnections[i]
      BY <1>1, SlotResetFacts DEF SlotReset, TypeOK, Vector
    <3>2. /\ Len(Append(SlotReset, Conn)) = Len(idleConnections) + 1
          /\ Append(SlotReset, Conn)[i] = SlotReset[i]
      BY <1>1, <2>1, <3>1, AppendProperties DEF Vector
    <3>3. idleConnections' \in {idleConnections, SlotReset, Append(SlotReset, Conn)}
      BY <2>6 DEF CheckSlot, SlotHealthy, ReplaceUnhealthyConnection
    <3> QED
      BY <1>1, <2>1, <3>1, <3>2, <3>3
  <2>7. CASE HealthWake \/ HealthPass \/ HealthPassEnds \/ StaleSlotCrash \/ CleanupThread
    BY <2>1, <2>2, <2>7
       DEF HealthWake, HealthPass, HealthPassEnds, StaleSlotCrash, CleanupThread,
           CleanupWake, CleanupIdleConnections
  <2>8. CASE Shutdown \/ ShutdownThread
    BY <1>1, <2>2, <2>8
       DEF Shutdown, ShutdownThread, ShutdownNotify, ShutdownJoin, ShutdownClear, Seats
  <2>9. CASE Stopped
    BY <2>2, <2>9 DEF Stopped, vars
  <2>10. CASE Initialize \/ (\E n \in 0..(MinPoolSize - 1) : InitializeFails(n))
    BY <1>1, <2>10 DEF Initialize, InitializeFails, Seats
  <2> QED
    BY <1>1, <2>2, <2>3, <2>4, <2>5, <2>6, <2>7, <2>8, <2>9, <2>10
       DEF Next, HealthThread, vars
<1>2. TypeOK /\ Seats /\ [Next]_vars =>
        [health = "pass" =>
           \A i \in 1..Len(idleConnections) :
              i # scan.pos => /\ i <= Len(idleConnections')
                              /\ idleConnections'[i] = idleConnections[i]]_vars
  BY <1>1
<1> QED
  BY <1>2, TypeCorrect, SeatsInvariant, PTL DEF Spec, PassKeepsItsSlots

-----------------------------------------------------------------------------
(* The live connections of a vector: what each operation makes of them.    *)

LiveSlots(v) == {i \in 1..Len(v) : v[i] = Conn}
Live(v) == Cardinality(LiveSlots(v))

\* The live slots can be counted, and there are no more than slots.
LEMMA LiveFacts ==
    ASSUME NEW v \in Vector
    PROVE  IsFiniteSet(LiveSlots(v)) /\ Live(v) \in Nat /\ Live(v) <= Len(v)
<1>1. Len(v) \in Nat
  BY DEF Vector
<1>2. IsFiniteSet(1..Len(v)) /\ Cardinality(1..Len(v)) = Len(v)
  BY <1>1, FS_Interval
<1>3. LiveSlots(v) \in SUBSET (1..Len(v))
  BY DEF LiveSlots
<1>4. IsFiniteSet(LiveSlots(v)) /\ Cardinality(LiveSlots(v)) <= Len(v)
  BY <1>2, <1>3, FS_Subset
<1> QED
  BY <1>4, FS_CardinalityType DEF Live

\* No more live connections are lost than slots are touched.
LEMMA LiveLoss ==
    ASSUME NEW v \in Vector, NEW w \in Vector, NEW lost, IsFiniteSet(lost),
           \A i \in 1..Len(v) : i \notin lost => i <= Len(w) /\ w[i] = v[i]
    PROVE  Live(w) >= Live(v) - Cardinality(lost)
<1> DEFINE both == LiveSlots(w) \cup lost
<1>1. Cardinality(lost) \in Nat
  BY FS_CardinalityType
<1>2. IsFiniteSet(LiveSlots(w)) /\ Live(w) \in Nat /\ Live(v) \in Nat
  BY LiveFacts
<1>3. /\ IsFiniteSet(both)
      /\ Cardinality(both) = Live(w) + Cardinality(lost)
                                     - Cardinality(LiveSlots(w) \cap lost)
  BY <1>1, <1>2, FS_Union DEF Live
<1>4. Cardinality(LiveSlots(w) \cap lost) \in Nat
  BY <1>1, FS_Subset, FS_CardinalityType
<1>5. LiveSlots(v) \subseteq both
  BY DEF LiveSlots, Vector
<1>6. Live(v) <= Cardinality(both)
  BY <1>3, <1>5, FS_Subset DEF Live
<1> QED
  BY <1>1, <1>2, <1>3, <1>4, <1>6

\* push_back() of a connection adds a live slot.
LEMMA LiveAppend ==
    ASSUME NEW v \in Vector
    PROVE  Live(Append(v, Conn)) = Live(v) + 1
<1> DEFINE w == Append(v, Conn)
           new == Len(v) + 1
<1>1. Len(v) \in Nat /\ w \in Vector /\ Len(w) = new
      /\ w[new] = Conn /\ \A i \in 1..Len(v) : w[i] = v[i]
  BY AppendProperties DEF Vector
<1> HIDE DEF w
<1>2. LiveSlots(w) = LiveSlots(v) \cup {new} /\ new \notin LiveSlots(v)
  BY <1>1 DEF LiveSlots
<1>3. IsFiniteSet(LiveSlots(v))
  BY LiveFacts
<1>4. Cardinality(LiveSlots(v) \cup {new}) = Cardinality(LiveSlots(v)) + 1
  BY <1>2, <1>3, FS_AddElement
<1> USE DEF w
<1> QED
  BY <1>2, <1>4 DEF Live

\* n connections at the back add n live slots.
LEMMA LiveCreate ==
    ASSUME NEW v \in Vector, NEW n \in Nat
    PROVE  v \o Slots(n) \in Vector /\ Live(v \o Slots(n)) = Live(v) + n
<1> DEFINE w == v \o Slots(n)
           new == (Len(v) + 1)..(Len(v) + n)
<1>1. /\ Slots(n) \in Vector /\ Len(Slots(n)) = n /\ Len(v) \in Nat
      /\ \A i \in 1..n : Slots(n)[i] = Conn
  BY DEF Slots, Vector
<1>2. /\ w \in Vector /\ Len(w) = Len(v) + n
      /\ \A i \in 1..(Len(v) + n) :
            w[i] = IF i <= Len(v) THEN v[i] ELSE Slots(n)[i - Len(v)]
  BY <1>1, ConcatProperties DEF Vector
<1> HIDE DEF w
<1>3. \A i \in new : i - Len(v) \in 1..n
  BY <1>1
<1>4. \A i \in new : i \in 1..(Len(v) + n) /\ w[i] = Conn
  BY <1>1, <1>2, <1>3
<1>5. \A i \in 1..(Len(v) + n) : i \in 1..Len(v) \/ i \in new
  BY <1>1
<1>6. \A i \in 1..Len(v) : i \in 1..(Len(v) + n) /\ w[i] = v[i]
  BY <1>1, <1>2
<1>7. LiveSlots(w) = LiveSlots(v) \cup new /\ LiveSlots(v) \cap new = {}
  <2>1. LiveSlots(v) \cap new = {}
    BY <1>1 DEF LiveSlots
  <2>2. LiveSlots(w) \subseteq LiveSlots(v) \cup new
    BY <1>2, <1>5, <1>6 DEF LiveSlots
  <2>3. LiveSlots(v) \cup new \subseteq LiveSlots(w)
    BY <1>2, <1>4, <1>6 DEF LiveSlots
  <2> QED
    BY <2>1, <2>2, <2>3
<1>8. IsFiniteSet(new) /\ Cardinality(new) = n
  <2>1. Len(v) + 1 \in Int /\ Len(v) + n \in Int
    BY <1>1
  <2>2. IsFiniteSet(new) /\ Cardinality(new)
           = IF Len(v) + 1 > Len(v) + n THEN 0 ELSE Len(v) + n - (Len(v) + 1) + 1
    BY <2>1, FS_Interval
  <2> QED
    BY <1>1, <2>2
<1>9. IsFiniteSet(LiveSlots(v)) /\ Live(v) \in Nat
  BY LiveFacts
<1> HIDE DEF new
<1>10. Cardinality(LiveSlots(v) \cup new) = Cardinality(LiveSlots(v)) + n
  BY <1>7, <1>8, <1>9, FS_Union, FS_EmptySet DEF Live
<1> USE DEF w
<1> QED
  BY <1>2, <1>7, <1>10 DEF Live

\* pop_back() loses no more live slots than slots, and none with a null slot.
LEMMA LiveDropBack ==
    ASSUME TypeOK, NEW n \in Nat
    PROVE  /\ Live(DropBack(n)) >= Live(idleConnections)
                                   - (Len(idleConnections) - Len(DropBack(n)))
           /\ n = 1 /\ idleConnections # <<>>
                    /\ idleConnections[Len(idleConnections)] # Conn
                => Live(DropBack(n)) = Live(idleConnections)
<1> DEFINE v == idleConnections
           w == DropBack(n)
           m == IF n < Len(v) THEN Len(v) - n ELSE 0
<1>1. v \in Vector /\ w \in Vector /\ Len(v) \in Nat
  <2>1. w \in Vector
    BY DropBackFacts
  <2> QED
    BY <2>1 DEF TypeOK, Vector
<1>2. m \in Nat /\ m <= Len(v)
  BY <1>1
<1>3. \A i \in 1..m : v[i] \in {Conn, Null}
  BY <1>1, <1>2 DEF Vector
<1>4. w = SubSeq(v, 1, m)
  BY DEF DropBack
<1>5. Len(w) = m /\ \A i \in 1..m : w[i] = v[i]
  BY <1>2, <1>3, <1>4, SubSeqProperties
<1> HIDE DEF w, m
<1>6. Live(w) >= Live(v) - (Len(v) - m)
  <2>1. \A i \in 1..Len(v) : i \notin (m + 1)..Len(v) => i <= Len(w) /\ w[i] = v[i]
    BY <1>1, <1>2, <1>5
  <2>2. IsFiniteSet((m + 1)..Len(v)) /\ Cardinality((m + 1)..Len(v)) = Len(v) - m
    <3>1. m + 1 \in Int /\ Len(v) \in Int
      BY <1>1, <1>2
    <3>2. IsFiniteSet((m + 1)..Len(v)) /\ Cardinality((m + 1)..Len(v))
             = IF m + 1 > Len(v) THEN 0 ELSE Len(v) - (m + 1) + 1
      BY <3>1, FS_Interval
    <3> QED
      BY <1>1, <1>2, <3>2
  <2> HIDE DEF v
  <2>3. Live(w) >= Live(v) - (Len(v) - m)
    BY <1>1, <2>1, <2>2, LiveLoss
  <2> QED
    BY <2>3
<1>7. ASSUME n = 1, v # <<>>, v[Len(v)] # Conn
      PROVE  Live(w) = Live(v)
  <2>1. Len(v) >= 1
    BY <1>1, <1>7, EmptySeq DEF Vector
  <2>2. m = Len(v) - 1
    BY <1>1, <1>7, <2>1 DEF m
  <2>3. \A i \in 1..Len(v) : i \in 1..m \/ i = Len(v)
    BY <1>1, <2>2
  <2>4. \A i \in 1..m : i \in 1..Len(v)
    BY <1>1, <1>2
  <2>5. LiveSlots(w) = LiveSlots(v)
    BY <1>5, <1>7, <2>3, <2>4 DEF LiveSlots
  <2> QED
    BY <2>5 DEF Live
<1> USE DEF w
<1> QED
  BY <1>5, <1>6, <1>7

\* conn.reset() loses at most the slot it is called for.
LEMMA LiveSlotReset ==
    ASSUME TypeOK
    PROVE  Live(SlotReset) >= Live(idleConnections) - 1
<1>1. idleConnections \in Vector /\ SlotReset \in Vector
  BY SlotResetFacts DEF TypeOK, Vector
<1>2. /\ Len(SlotReset) = Len(idleConnections)
      /\ scan.pos \in Nat
      /\ Len(idleConnections) \in Nat
  BY SlotResetFacts DEF TypeOK
<1>3. \A i \in 1..Len(idleConnections) :
         i # scan.pos => SlotReset[i] = idleConnections[i]
  BY <1>1 DEF SlotReset, Vector
<1>4. IsFiniteSet({scan.pos}) /\ Cardinality({scan.pos}) = 1
  BY FS_Singleton
<1>5. \A i \in 1..Len(idleConnections) :
         i \notin {scan.pos} =>
            i <= Len(SlotReset) /\ SlotReset[i] = idleConnections[i]
  BY <1>2, <1>3
<1> QED
  BY <1>1, <1>4, <1>5, LiveLoss

-----------------------------------------------------------------------------
(* totalConnections_ against what it counts.                               *)

\* A step that raises the counter raises what it counts by as much, until
\* shutdown_ is set.
LEMMA TotalStep ==
    ASSUME TypeOK, TypeOK', TotalNeverOverstates,
           shutdown => shutdown',
           ~shutdown' =>
              totalConnections' - totalConnections
                 <= (Live(idleConnections') - Live(idleConnections))
                    + (Cardinality(holding') - Cardinality(holding))
    PROVE  TotalNeverOverstates'
<1> DEFINE l == Live(idleConnections)
           ll == Live(idleConnections')
           h == Cardinality(holding)
           hh == Cardinality(holding')
           t == totalConnections
           tt == totalConnections'
<1>1. l \in Nat /\ ll \in Nat
  BY LiveFacts DEF TypeOK, Vector
<1>2. IsFiniteSet(holding) /\ IsFiniteSet(holding')
  BY PoolAssumption, FS_Subset DEF TypeOK
<1>3. h \in Nat /\ hh \in Nat
  BY <1>2, FS_CardinalityType
<1>4. t \in Int /\ tt \in Int
  BY DEF TypeOK
<1>5. ~shutdown => t <= l + h
  BY DEF TotalNeverOverstates, LiveIdle, Live, LiveSlots
<1>6. ~shutdown' => tt - t <= (ll - l) + (hh - h)
  OBVIOUS
<1> HIDE DEF l, ll, h, hh, t, tt
<1>7. ~shutdown' => tt <= ll + hh
  BY <1>1, <1>3, <1>4, <1>5, <1>6
<1> USE DEF l, ll, h, hh, t, tt
<1> QED
  BY <1>7 DEF TotalNeverOverstates, LiveIdle, Live, LiveSlots

\* Steps that touch none of the three, or set shutdown_.
LEMMA TotalUntouched ==
    ASSUME TotalNeverOverstates,
           \/ shutdown'
           \/ UNCHANGED <<idleConnections, holding, totalConnections, shutdown>>
    PROVE  TotalNeverOverstates'
BY DEF TotalNeverOverstates, LiveIdle

\* A connection that createConnection() counts is in the vector.
LEMMA TotalCreate ==
    ASSUME TypeOK, TypeOK', TotalNeverOverstates,
           NEW n \in Nat, CreateConnections(n), UNCHANGED <<holding, shutdown>>
    PROVE  TotalNeverOverstates'
<1> DEFINE v == idleConnections
<1>1. v \in Vector /\ totalConnections \in Int
  BY DEF TypeOK, Vector
<1>2. Live(v) \in Nat /\ Live(idleConnections') = Live(v) + n
  BY <1>1, LiveFacts, LiveCreate DEF CreateConnections
<1>3. Cardinality(holding) \in Nat
  BY PoolAssumption, FS_Subset, FS_CardinalityType DEF TypeOK
<1>4. totalConnections' = totalConnections + n /\ Cardinality(holding') = Cardinality(holding)
  BY DEF CreateConnections
<1> HIDE DEF v
<1>5. totalConnections' - totalConnections
         <= (Live(idleConnections') - Live(v)) + (Cardinality(holding') - Cardinality(holding))
  BY <1>1, <1>2, <1>3, <1>4
<1> USE DEF v
<1> QED
  BY <1>5, TotalStep

\* A connection that is dropped from the vector leaves the counter too.
LEMMA TotalDrop ==
    ASSUME TypeOK, TypeOK', TotalNeverOverstates, UNCHANGED <<holding, shutdown>>,
           NEW n \in Nat, idleConnections' = DropBack(n),
           totalConnections' = totalConnections
                               - (Len(idleConnections) - Len(idleConnections'))
    PROVE  TotalNeverOverstates'
<1> DEFINE v == idleConnections
           w == idleConnections'
<1>1. v \in Vector /\ w \in Vector /\ totalConnections \in Int
  BY DEF TypeOK, Vector
<1>2. Live(v) \in Nat /\ Live(w) \in Nat /\ Len(v) \in Nat /\ Len(w) \in Nat
  BY <1>1, LiveFacts DEF Vector
<1>3. Live(w) >= Live(v) - (Len(v) - Len(w))
  BY LiveDropBack
<1>4. Cardinality(holding) \in Nat /\ Cardinality(holding') = Cardinality(holding)
  BY PoolAssumption, FS_Subset, FS_CardinalityType DEF TypeOK
<1>5. totalConnections' = totalConnections - (Len(v) - Len(w))
  OBVIOUS
<1> HIDE DEF v, w
<1>6. totalConnections' - totalConnections
         <= (Live(w) - Live(v)) + (Cardinality(holding') - Cardinality(holding))
  BY <1>1, <1>2, <1>3, <1>4, <1>5
<1> USE DEF v, w
<1> QED
  BY <1>6, TotalStep

\* acquire(): the connection a client takes is counted with its loans, and the
\* null pointer it may be given instead was not counted.
LEMMA TotalAcquire ==
    ASSUME TypeOK, TypeOK', Seats, TotalNeverOverstates, NEW c \in Clients, Acquire(c)
    PROVE  TotalNeverOverstates'
<1> USE DEF lifeVars, poolVars, counters
<1>1. CASE Create(c)
  <2>1. PICK n \in Nat : CreateConnections(n)
    BY <1>1 DEF Create
  <2>2. UNCHANGED <<holding, shutdown>>
    BY <1>1 DEF Create
  <2> QED
    BY <2>1, <2>2, TotalCreate
<1>2. CASE Call(c) \/ SpuriousWakeup(c) \/ DeadlinePasses(c) \/ WaitTimesOut(c)
  BY <1>2, TotalUntouched DEF Call, SpuriousWakeup, DeadlinePasses, WaitTimesOut
<1>3. CASE Enter(c) \/ Wake(c) \/ Block(c) \/ Test(c)
  BY <1>3, TotalUntouched DEF Enter, Wake, LoopTurn, Block, Test
<1>4. CASE Take(c)
  <2> DEFINE v == idleConnections
             w == idleConnections'
             h == Cardinality(holding)
             hh == Cardinality(holding')
  <2>1. UNCHANGED <<shutdown, totalConnections>> /\ c \notin holding
    BY <1>4 DEF Take, Seats
  <2>2. w = DropBack(1) /\ v # <<>>
    BY <1>4 DEF Take, Seats
  <2>3. Len(w) = Len(v) - 1
    BY <2>2, DropBackFacts
  <2>4. v \in Vector /\ w \in Vector /\ totalConnections \in Int
    BY DEF TypeOK, Vector
  <2>5. Live(v) \in Nat /\ Live(w) \in Nat /\ Len(v) \in Nat
    BY <2>4, LiveFacts DEF Vector
  <2>6. /\ Live(w) >= Live(v) - (Len(v) - Len(w))
        /\ v[Len(v)] # Conn => Live(w) = Live(v)
    BY <2>2, LiveDropBack
  <2>7. IsFiniteSet(holding) /\ h \in Nat
    BY PoolAssumption, FS_Subset, FS_CardinalityType DEF TypeOK
  <2>8. Cardinality(holding \cup {c}) = h + 1
    BY <2>1, <2>7, FS_AddElement
  <2>9. \/ v[Len(v)] # Conn /\ hh = h
        \/ hh = h + 1
    BY <1>4, <2>8 DEF Take
  <2> HIDE DEF v, w, h, hh
  <2>10. totalConnections' - totalConnections <= (Live(w) - Live(v)) + (hh - h)
    BY <2>1, <2>3, <2>4, <2>5, <2>6, <2>7, <2>9
  <2> USE DEF v, w, h, hh
  <2> QED
    BY <2>1, <2>10, TotalStep
<1> QED
  BY <1>1, <1>2, <1>3, <1>4 DEF Acquire

\* release(): the connection goes back to the vector, or is uncounted.
LEMMA TotalRelease ==
    ASSUME TypeOK, TypeOK', TotalNeverOverstates, NEW c \in Clients, Release(c)
    PROVE  TotalNeverOverstates'
<1> DEFINE v == idleConnections
           w == idleConnections'
           h == Cardinality(holding)
           hh == Cardinality(holding')
<1>1. UNCHANGED shutdown /\ holding' = holding \ {c} /\ c \in holding
  BY DEF Release, lifeVars
<1>2. h \in Nat /\ hh = h - 1
  BY <1>1, LoanFacts
<1>3. v \in Vector /\ totalConnections \in Int
  BY DEF TypeOK, Vector
<1>4. Live(v) \in Nat /\ Live(Append(v, Conn)) = Live(v) + 1
  BY <1>3, LiveFacts, LiveAppend
<1>5. CASE shutdown
  BY <1>1, <1>5, TotalUntouched
<1>6. CASE ~shutdown
  <2>1. \/ w = v /\ totalConnections' = totalConnections - 1
        \/ w = Append(v, Conn) /\ totalConnections' = totalConnections
    BY <1>6 DEF Release, ReleaseLate, ReleaseUnhealthy, ReleaseHealthy, Discard
  <2>2. \/ Live(w) = Live(v) /\ totalConnections' = totalConnections - 1
        \/ Live(w) = Live(v) + 1 /\ totalConnections' = totalConnections
    BY <1>4, <2>1
  <2> HIDE DEF v, w, h, hh
  <2>3. totalConnections' - totalConnections <= (Live(w) - Live(v)) + (hh - h)
    BY <1>2, <1>3, <1>4, <2>2
  <2> USE DEF v, w, h, hh
  <2> QED
    BY <1>1, <2>3, TotalStep
<1> QED
  BY <1>5, <1>6

\* Resizing creates and drops as it counts.
LEMMA TotalResize ==
    ASSUME TypeOK, TypeOK', TotalNeverOverstates, NEW newSize \in Int, ResizePool(newSize)
    PROVE  TotalNeverOverstates'
<1>1. UNCHANGED <<holding, shutdown>> /\ currentPoolSize \in Int
  BY DEF ResizePool, lifeVars, TypeOK
<1>2. ASSUME NEW n \in 0..(newSize - currentPoolSize), CreateConnections(n)
      PROVE  TotalNeverOverstates'
  BY <1>1, <1>2, TotalCreate
<1>3. ASSUME newSize < currentPoolSize,
             idleConnections' = DropBack(currentPoolSize - newSize),
             totalConnections' = totalConnections
                                 - (Len(idleConnections) - Len(idleConnections'))
      PROVE  TotalNeverOverstates'
  <2>1. currentPoolSize - newSize \in Nat
    BY <1>1, <1>3
  <2> QED
    BY <1>1, <1>3, <2>1, TotalDrop
<1> QED
  BY <1>2, <1>3 DEF ResizePool

\* The slot that the health pass gives up was counted at most once, and its
\* replacement is counted in its place.
LEMMA TotalCheckSlot ==
    ASSUME TypeOK, TypeOK', TotalNeverOverstates, CheckSlot
    PROVE  TotalNeverOverstates'
<1> USE DEF lifeVars, counters
<1> DEFINE v == idleConnections
           w == idleConnections'
<1>1. UNCHANGED <<holding, shutdown>>
  BY DEF CheckSlot
<1>2. CASE SlotHealthy
  BY <1>1, <1>2, TotalUntouched DEF SlotHealthy
<1>3. CASE ReplaceUnhealthyConnection
  <2>1. v \in Vector /\ SlotReset \in Vector /\ totalConnections \in Int
    BY SlotResetFacts DEF TypeOK, Vector
  <2>2. /\ Live(v) \in Nat /\ Live(SlotReset) \in Nat
        /\ Live(SlotReset) >= Live(v) - 1
        /\ Live(Append(SlotReset, Conn)) = Live(SlotReset) + 1
    BY <2>1, LiveFacts, LiveAppend, LiveSlotReset
  <2>3. \/ w = Append(SlotReset, Conn) /\ totalConnections' = totalConnections
        \/ w = SlotReset /\ totalConnections' = totalConnections - 1
    BY <1>3 DEF ReplaceUnhealthyConnection
  <2>4. Cardinality(holding) \in Nat /\ Cardinality(holding') = Cardinality(holding)
    BY <1>1, PoolAssumption, FS_Subset, FS_CardinalityType DEF TypeOK
  <2>5. \/ Live(w) = Live(SlotReset) + 1 /\ totalConnections' = totalConnections
        \/ Live(w) = Live(SlotReset) /\ totalConnections' = totalConnections - 1
    BY <2>2, <2>3
  <2> HIDE DEF v, w
  <2>6. totalConnections' - totalConnections
           <= (Live(w) - Live(v)) + (Cardinality(holding') - Cardinality(holding))
    BY <2>1, <2>2, <2>4, <2>5
  <2> USE DEF v, w
  <2> QED
    BY <1>1, <2>6, TotalStep
<1> QED
  BY <1>2, <1>3 DEF CheckSlot

\* Every step of the pool keeps the counter at or below what it counts.
LEMMA TotalNext ==
    TypeOK /\ Seats /\ TotalNeverOverstates /\ [Next]_vars => TotalNeverOverstates'
<1> SUFFICES ASSUME TypeOK, Seats, TotalNeverOverstates, [Next]_vars
             PROVE  TotalNeverOverstates'
  OBVIOUS
<1> USE DEF lifeVars, poolVars, counters
<1>1. TypeOK'
  BY TypeNext
<1>2. CASE UNCHANGED vars
  BY <1>2, TotalUntouched DEF vars
<1>3. ASSUME NEW c \in Clients, Acquire(c) \/ Release(c)
      PROVE  TotalNeverOverstates'
  BY <1>1, <1>3, TotalAcquire, TotalRelease
<1>4. CASE Resize
  <2>1. SizeTargets \subseteq Int /\ SizeSteps \subseteq Int /\ currentPoolSize \in Int
    BY PoolAssumption DEF TypeOK
  <2>2. PICK newSize \in Int : ResizePool(newSize)
    BY <1>4, <2>1 DEF Resize, SetPoolSize, IncreasePoolSize, DecreasePoolSize
  <2> QED
    BY <1>1, <2>2, TotalResize
<1>5. CASE HealthWake \/ HealthPass \/ HealthPassEnds \/ StaleSlotCrash \/ CleanupWake
  BY <1>5, TotalUntouched DEF HealthWake, HealthPass, HealthPassEnds, StaleSlotCrash, CleanupWake
<1>6. CASE CleanupIdleConnections
  <2>1. UNCHANGED <<holding, shutdown>>
    BY <1>6 DEF CleanupIdleConnections
  <2>2. CASE UNCHANGED <<idleConnections, counters>>
    BY <2>1, <2>2, TotalUntouched
  <2>3. CASE /\ idleConnections # <<>>
             /\ idleConnections' = DropBack(1)
             /\ totalConnections' = totalConnections - 1
    <3>1. Len(idleConnections') = Len(idleConnections) - 1 /\ Len(idleConnections) \in Nat
      <4>1. Len(DropBack(1)) = Len(idleConnections) - 1
        BY <2>3, DropBackFacts
      <4> QED
        BY <2>3, <4>1 DEF TypeOK
    <3>2. totalConnections' = totalConnections
                              - (Len(idleConnections) - Len(idleConnections'))
      BY <2>3, <3>1 DEF TypeOK
    <3> QED
      BY <1>1, <2>1, <2>3, <3>2, TotalDrop
  <2> QED
    BY <1>6, <2>2, <2>3 DEF CleanupIdleConnections
<1>7. CASE Shutdown \/ ShutdownThread
  BY <1>7, TotalUntouched
     DEF Shutdown, ShutdownThread, ShutdownNotify, ShutdownJoin, ShutdownClear, Seats
<1>8. CASE Initialize \/ (\E n \in 0..(MinPoolSize - 1) : InitializeFails(n))
  <2>1. PICK n \in Nat : CreateConnections(n)
    <3>1. ASSUME NEW n \in 0..(MinPoolSize - 1), InitializeFails(n)
          PROVE  n \in Nat /\ CreateConnections(n)
      BY <3>1, PoolAssumption DEF InitializeFails
    <3>2. CASE Initialize
      BY <3>2, PoolAssumption DEF Initialize
    <3> QED
      BY <1>8, <3>1, <3>2
  <2>2. UNCHANGED <<holding, shutdown>>
    BY <1>8 DEF Initialize, InitializeFails
  <2> QED
    BY <1>1, <2>1, <2>2, TotalCreate
<1>9. CASE Stopped
  BY <1>2, <1>9 DEF Stopped
<1> QED
  BY <1>1, <1>2, <1>3, <1>4, <1>5, <1>6, <1>7, <1>8, <1>9, TotalCheckSlot
     DEF Next, HealthThread, CleanupThread

\* totalConnections_ never counts a connection that is gone, so it never keeps
\* a running pool from growing, whatever dies, is replaced or is resized away.
THEOREM PoolTotalNeverOverstates == Spec => []TotalNeverOverstates
<1>1. Init => TotalNeverOverstates
  <2>1. ASSUME Init
        PROVE  TypeOK /\ Live(idleConnections) \in Nat /\ Cardinality(holding) \in Nat
    <3>1. TypeOK
      BY <2>1, TypeInit
    <3>2. Cardinality(holding) \in Nat
      BY <3>1, PoolAssumption, FS_Subset, FS_CardinalityType DEF TypeOK
    <3> QED
      BY <3>1, <3>2, LiveFacts DEF TypeOK, Vector
  <2>2. LiveIdle = Live(idleConnections)
    BY DEF LiveIdle, Live, LiveSlots
  <2>3. Init => totalConnections = 0
    BY DEF Init
  <2>4. \A m, n \in Nat : 0 <= m + n
    OBVIOUS
  <2> QED
    BY <2>1, <2>2, <2>3, <2>4 DEF TotalNeverOverstates
<1>2. TypeOK /\ Seats /\ TotalNeverOverstates /\ [Next]_vars => TotalNeverOverstates'
  BY TotalNext
<1> QED
  BY <1>1, <1>2, TypeCorrect, SeatsInvariant, PTL DEF Spec
=============================================================================
