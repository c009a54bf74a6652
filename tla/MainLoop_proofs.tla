-------------------------- MODULE MainLoop_proofs --------------------------
(***************************************************************************)
(* Proofs about MainLoop, for every set of messages, of types and of       *)
(* handler outcomes.                                                       *)
(***************************************************************************)
EXTENDS MainLoop, SequenceTheorems, TLAPS

\* What makes the properties inductive: the thread exists exactly from start()
\* to the join of stop(), and exits only when stop() is on its way.
Handshake ==
    /\ owner = "idle" => (running <=> loop # "none")
    /\ owner = "join" => ~running /\ loop # "none"
    /\ loop = "exited" => owner = "join"
    /\ RunningHandlerIsRegistered

LoopInv == TypeOK /\ Handshake

-----------------------------------------------------------------------------
\* The initial state satisfies the invariant.
LEMMA LoopInit == Init => LoopInv
  <1> SUFFICES ASSUME Init PROVE TypeOK /\ Handshake
    BY DEF LoopInv
  <1>1. TypeOK
    <2>1. queue \in Seq(Messages) /\ handled \in Seq(Messages)
      BY EmptySeq DEF Init
    <2>2. loop \notin {"lock", "handle", "stuck"} /\ current = <<>>
      BY DEF Init
    <2> QED  BY <2>1, <2>2 DEF Init, TypeOK
  <1>2. Handshake
    BY DEF Init, Handshake, RunningHandlerIsRegistered
  <1> QED  BY <1>1, <1>2

\* Every step keeps the types.
LEMMA TypeStep == ASSUME LoopInv, [Next]_vars PROVE TypeOK'
  <1> USE LoopAssumption DEF LoopInv, TypeOK
  <1>1. ASSUME NEW m \in Messages, AddMessage(m) PROVE TypeOK'
    BY <1>1 DEF AddMessage
  <1>2. CASE Start \/ Stop \/ StopJoin
    BY <1>2 DEF Start, Stop, StopJoin, tables, Handshake
  <1>3. CASE LoopTest
    BY <1>3 DEF LoopTest, tables
  <1>4. CASE GetNextMessage
    <2>1. CASE TakeMessage
      <3>1. Head(queue) \in Messages /\ Tail(queue) \in Seq(Messages)
        BY <2>1 DEF TakeMessage
      <3> QED  BY <1>4, <2>1, <3>1 DEF GetNextMessage, TakeMessage
    <2>2. CASE queue = <<>> /\ loop' = "check" /\ UNCHANGED <<queue, current>>
      BY <1>4, <2>2 DEF GetNextMessage
    <2> QED  BY <1>4, <2>1, <2>2 DEF GetNextMessage
  <1>5. ASSUME Dispatched, loop \in {"lock", "handle"},
               UNCHANGED <<queue, handlers, running, owner>>
        PROVE  TypeOK'
    <2>1. PICK m \in Messages : current = <<m>>
      BY <1>5
    <2>2. handled \o current \in Seq(Messages)
      BY <2>1
    <2> QED  BY <1>5, <2>2 DEF Dispatched
  <1>6. CASE HandleMessage
    BY <1>5, <1>6 DEF HandleMessage
  <1>7. ASSUME NEW outcome \in HandlerOutcome, HandlerEnds(outcome) PROVE TypeOK'
    BY <1>5, <1>7 DEF HandlerEnds
  <1>8. ASSUME NEW t \in Types, RegisterHandler(t) \/ UnregisterHandler(t)
        PROVE  TypeOK'
    BY <1>8 DEF RegisterHandler, UnregisterHandler
  <1>9. CASE Clear
    BY <1>9 DEF Clear
  <1>10. CASE HandlerBlocks \/ UNCHANGED vars
    BY <1>10 DEF HandlerBlocks, vars, tables
  <1> QED  BY <1>1, <1>2, <1>3, <1>4, <1>6, <1>7, <1>8, <1>9, <1>10 DEF Next, LoopStep

\* Every step keeps the handshake between the owner and the loop thread.
LEMMA HandshakeStep == ASSUME LoopInv, [Next]_vars PROVE Handshake'
  <1> USE DEF LoopInv, TypeOK, Handshake, RunningHandlerIsRegistered, Type
  <1>1. ASSUME NEW m \in Messages, AddMessage(m) PROVE Handshake'
    BY <1>1 DEF AddMessage
  <1>2. CASE Start \/ Stop \/ StopJoin
    BY <1>2 DEF Start, Stop, StopJoin, tables
  <1>3. CASE LoopTest
    BY <1>3 DEF LoopTest, tables
  <1>4. CASE GetNextMessage
    BY <1>4 DEF GetNextMessage, TakeMessage
  <1>5. CASE HandleMessage
    BY <1>5 DEF HandleMessage, Dispatched
  <1>6. ASSUME NEW outcome \in HandlerOutcome, HandlerEnds(outcome)
        PROVE  Handshake'
    BY <1>6 DEF HandlerEnds, Dispatched
  <1>7. ASSUME NEW t \in Types, RegisterHandler(t) \/ UnregisterHandler(t)
        PROVE  Handshake'
    BY <1>7 DEF RegisterHandler, UnregisterHandler, TableFree
  <1>8. CASE Clear
    BY <1>8 DEF Clear, TableFree
  <1>9. CASE HandlerBlocks \/ UNCHANGED vars
    BY <1>9 DEF HandlerBlocks, vars, tables
  <1> QED  BY <1>1, <1>2, <1>3, <1>4, <1>5, <1>6, <1>7, <1>8, <1>9 DEF Next, LoopStep

\* The strengthened invariant holds in every reachable state.
THEOREM LoopInvariant == Spec => []LoopInv
  <1>1. LoopInv /\ [Next]_vars => LoopInv'
    BY TypeStep, HandshakeStep DEF LoopInv
  <1> QED  BY LoopInit, <1>1, PTL DEF Spec

\* MainLoop.cpp: the variables keep their types, and the loop has a message in
\* hand exactly between the pop and the end of handleMessage().
THEOREM LoopTypeCorrect == Spec => []TypeOK
  BY LoopInvariant, PTL DEF LoopInv

\* MainLoop::stop(): when it has returned, the loop thread is gone, for any
\* traffic and any handlers.
THEOREM LoopStopIsQuiescent == Spec => []StopIsQuiescent
  <1>1. LoopInv => StopIsQuiescent
    BY DEF LoopInv, Handshake, StopIsQuiescent
  <1> QED  BY LoopInvariant, <1>1, PTL

\* MainLoopHandler: a handler that runs is in the table, so unregisterHandler()
\* and clear() never return while the handler they removed runs.
THEOREM LoopHandlerIsRegistered == Spec => []RunningHandlerIsRegistered
  BY LoopInvariant, PTL DEF LoopInv, Handshake

-----------------------------------------------------------------------------
(* The refinement.                                                         *)

\* Moving the head of a sequence to one in hand leaves their concatenation.
LEMMA HeadInHand ==
  ASSUME NEW S, NEW q \in Seq(S), q # <<>>
  PROVE  <<Head(q)>> \o Tail(q) = <<>> \o q
  OBVIOUS

\* Concatenation has the elements of both sequences.
LEMMA ElementsOfConcat ==
  ASSUME NEW S, NEW s \in Seq(S), NEW t \in Seq(S)
  PROVE  Elements(s \o t) \subseteq Elements(s) \cup Elements(t)
  BY DEF Elements

\* A step of the loop is a step of the abstract specification, or none.
LEMMA RefinementStep ==
  ASSUME LoopInv, [Next]_vars PROVE [Abstract!Next]_(Abstract!vars)
  <1> USE LoopAssumption DEF LoopInv, TypeOK
  <1> DEFINE pending == current \o queue
  <1>0. ASSUME pending' = pending, handled' = handled
        PROVE  [Abstract!Next]_(Abstract!vars)
    BY <1>0 DEF Abstract!vars
  <1>1. ASSUME NEW m \in Messages, AddMessage(m)
        PROVE  Abstract!Accept(m)
    <2>1. current \in Seq(Messages)
      <3>1. CASE current = <<>>
        BY <3>1
      <3>2. ASSUME NEW m2 \in Messages, current = <<m2>>
            PROVE  current \in Seq(Messages)
        BY <3>2
      <3> QED  BY <3>1, <3>2
    <2>2. m \notin Elements(pending)
      BY <1>1, <2>1, ElementsOfConcat DEF AddMessage
    <2>3. pending' = Append(pending, m)
      BY <1>1, <2>1 DEF AddMessage
    <2> QED  BY <1>1, <2>2, <2>3 DEF AddMessage, Abstract!Accept, Abstract!Elements, Elements
  <1>2. ASSUME Dispatched, loop \in {"lock", "handle"}, UNCHANGED queue
        PROVE  Abstract!Deliver
    <2>1. PICK m \in Messages : current = <<m>>
      BY <1>2
    <2>2. /\ pending # <<>>
          /\ Head(pending) = m
          /\ Tail(pending) = queue
          /\ pending' = queue
          /\ handled' = Append(handled, m)
      BY <1>2, <2>1 DEF Dispatched
    <2> QED  BY <2>2 DEF Abstract!Deliver
  <1>3. CASE GetNextMessage
    <2>1. CASE TakeMessage
      BY <1>0, <1>3, <2>1, HeadInHand DEF GetNextMessage, TakeMessage
    <2> QED  BY <1>0, <1>3, <2>1 DEF GetNextMessage
  <1>4. CASE HandleMessage
    BY <1>0, <1>2, <1>4 DEF HandleMessage, Abstract!Next
  <1>5. ASSUME NEW outcome \in HandlerOutcome, HandlerEnds(outcome)
        PROVE  [Abstract!Next]_(Abstract!vars)
    BY <1>2, <1>5 DEF HandlerEnds, Abstract!Next
  <1>6. CASE Start \/ Stop \/ StopJoin \/ LoopTest
    BY <1>0, <1>6 DEF Start, Stop, StopJoin, LoopTest, tables
  <1>7. ASSUME NEW t \in Types, RegisterHandler(t) \/ UnregisterHandler(t)
        PROVE  [Abstract!Next]_(Abstract!vars)
    BY <1>0, <1>7 DEF RegisterHandler, UnregisterHandler
  <1>8. CASE Clear
    BY <1>0, <1>8 DEF Clear
  <1>9. CASE HandlerBlocks \/ UNCHANGED vars
    BY <1>0, <1>9 DEF HandlerBlocks, vars, tables
  <1> QED
    BY <1>1, <1>3, <1>4, <1>5, <1>6, <1>7, <1>8, <1>9 DEF Next, LoopStep, Abstract!Next

\* MainLoop with its queue and its table of handlers implements
\* InOrderDelivery: whatever is accepted is dispatched once, in order.
THEOREM LoopDeliversInOrder == Spec => DeliversInOrder
  <1>1. Init => Abstract!Init
    BY DEF Init, Abstract!Init
  <1> QED
    BY LoopInvariant, RefinementStep, <1>1, PTL DEF Spec, DeliversInOrder, Abstract!Spec
=============================================================================
