------------------------ MODULE MessageQueue_proofs ------------------------
(***************************************************************************)
(* Proofs about MessageQueue for any set of messages and any finite set of *)
(* consumers.                                                              *)
(***************************************************************************)
EXTENDS MessageQueue, FiniteSetTheorems, SequenceTheorems, TLAPS

\* Taking the front of a queue that has one.
LEMMA TailFacts ==
    ASSUME NEW S, NEW q \in Seq(S), q # <<>>
    PROVE  /\ Tail(q) \in Seq(S)
           /\ Len(Tail(q)) = Len(q) - 1
           /\ Len(q) \in Nat \ {0}
BY HeadTailProperties, EmptySeq

\* How the number of notified consumers changes.
LEMMA NotifiedFacts ==
    ASSUME TypeOK, NEW c \in Consumers
    PROVE  /\ IsFiniteSet(notified)
           /\ Cardinality(notified) \in Nat
           /\ c \in waiters =>
                Cardinality(notified \cup {c}) = Cardinality(notified) + 1
           /\ c \in notified =>
                /\ Cardinality(notified \ {c}) = Cardinality(notified) - 1
                /\ Cardinality(notified) > 0
<1>1. IsFiniteSet(notified)
  BY QueueAssumption, FS_Subset DEF TypeOK
<1>2. Cardinality(notified) \in Nat
  BY <1>1, FS_CardinalityType
<1>3. c \in waiters => Cardinality(notified \cup {c}) = Cardinality(notified) + 1
  <2>1. c \in waiters => c \notin notified
    BY DEF TypeOK
  <2> QED
    BY <1>1, <2>1, FS_AddElement
<1>4. c \in notified => Cardinality(notified \ {c}) = Cardinality(notified) - 1
  BY <1>1, FS_RemoveElement
<1>5. c \in notified => Cardinality(notified \ {c}) \in Nat
  BY <1>1, FS_RemoveElement, FS_CardinalityType
<1> QED
  BY <1>1, <1>2, <1>3, <1>4, <1>5

-----------------------------------------------------------------------------
\* The empty queue is well typed.
LEMMA QueueTypeInit == Init => TypeOK
<1>1. <<>> \in Seq(Messages)
  BY EmptySeq
<1> QED
  BY <1>1 DEF Init, TypeOK

\* push(), pop(), wakeups and shutdown() keep the types.
LEMMA QueueTypeNext == TypeOK /\ [Next]_vars => TypeOK'
<1> SUFFICES ASSUME TypeOK, [Next]_vars
             PROVE  TypeOK'
  OBVIOUS
<1>1. queue \in Seq(Messages) /\ (queue # <<>> => Tail(queue) \in Seq(Messages))
  BY TailFacts DEF TypeOK
<1>2. ASSUME NEW m \in Messages, Push(m)
      PROVE  TypeOK'
  <2>1. Append(queue, m) \in Seq(Messages)
    BY <1>1, AppendProperties
  <2> QED
    BY <1>2, <2>1 DEF Push, NotifyOne, TypeOK
<1>3. ASSUME NEW c \in Consumers, Pop(c)
      PROVE  TypeOK'
  BY <1>1, <1>3 DEF Pop, TypeOK
<1>4. ASSUME NEW c \in Consumers, PopWaits(c)
      PROVE  TypeOK'
  BY <1>4 DEF PopWaits, TypeOK
<1>5. ASSUME NEW c \in Consumers, Wake(c)
      PROVE  TypeOK'
  BY <1>1, <1>5 DEF Wake, TypeOK
<1>6. ASSUME NEW c \in Consumers, SpuriousWakeup(c)
      PROVE  TypeOK'
  BY <1>6 DEF SpuriousWakeup, TypeOK
<1>7. CASE Shutdown
  BY <1>7 DEF Shutdown, TypeOK
<1>8. CASE UNCHANGED vars
  BY <1>8 DEF vars, TypeOK
<1> QED
  BY <1>2, <1>3, <1>4, <1>5, <1>6, <1>7, <1>8 DEF Next

\* The queue holds messages, and no consumer is both waiting and notified.
THEOREM QueueTypeCorrect == Spec => []TypeOK
<1> QED
  BY QueueTypeInit, QueueTypeNext, PTL DEF Spec

-----------------------------------------------------------------------------
\* No operation leaves a message without a consumer on its way while
\* another consumer waits.
LEMMA WakeupsNext == TypeOK /\ WakeupsCoverQueue /\ [Next]_vars => WakeupsCoverQueue'
<1> SUFFICES ASSUME TypeOK, WakeupsCoverQueue, [Next]_vars
             PROVE  WakeupsCoverQueue'
  OBVIOUS
<1> DEFINE n == Cardinality(notified)
<1>1. queue \in Seq(Messages) /\ Len(queue) \in Nat
  BY DEF TypeOK
<1>2. n \in Nat
  BY QueueAssumption, FS_Subset, FS_CardinalityType DEF TypeOK
<1>3. queue # <<>> => Len(Tail(queue)) = Len(queue) - 1
  BY <1>1, TailFacts
<1>4. ASSUME NEW m \in Messages, Push(m)
      PROVE  WakeupsCoverQueue'
  <2>1. Len(queue') = Len(queue) + 1
    BY <1>1, <1>4, AppendProperties DEF Push
  <2>2. CASE waiters = {} /\ UNCHANGED <<waiters, notified>>
    BY <2>2 DEF WakeupsCoverQueue
  <2>3. ASSUME NEW w \in waiters, notified' = notified \cup {w}
        PROVE  WakeupsCoverQueue'
    <3>1. w \in Consumers
      BY DEF TypeOK
    <3>2. Cardinality(notified') = n + 1
      BY <2>3, <3>1, NotifiedFacts
    <3>3. Len(queue) <= n
      BY DEF WakeupsCoverQueue
    <3> QED
      BY <1>1, <1>2, <2>1, <3>2, <3>3 DEF WakeupsCoverQueue
  <2> QED
    BY <1>4, <2>2, <2>3 DEF Push, NotifyOne
<1>5. ASSUME NEW c \in Consumers, Pop(c)
      PROVE  WakeupsCoverQueue'
  <2>1. queue # <<>> /\ queue' = Tail(queue) /\ UNCHANGED <<waiters, notified>>
    BY <1>5 DEF Pop
  <2>2. Len(queue') = Len(queue) - 1
    BY <1>3, <2>1
  <2> QED
    BY <1>1, <1>2, <2>1, <2>2 DEF WakeupsCoverQueue
<1>6. ASSUME NEW c \in Consumers, PopWaits(c)
      PROVE  WakeupsCoverQueue'
  <2>1. Len(queue') = 0 /\ notified' = notified
    BY <1>6, EmptySeq DEF PopWaits
  <2> QED
    BY <1>2, <2>1 DEF WakeupsCoverQueue
<1>7. ASSUME NEW c \in Consumers, Wake(c)
      PROVE  WakeupsCoverQueue'
  <2>1. Cardinality(notified') = n - 1 /\ n > 0
    BY <1>7, NotifiedFacts DEF Wake
  <2>2. CASE queue = <<>>
    <3>1. Len(queue') = 0
      BY <1>7, <2>2, EmptySeq DEF Wake
    <3> QED
      BY <1>2, <2>1, <3>1 DEF WakeupsCoverQueue
  <2>3. CASE queue # <<>>
    <3>1. Len(queue') = Len(queue) - 1 /\ waiters' = waiters
      BY <1>3, <1>7, <2>3 DEF Wake
    <3> QED
      BY <1>1, <1>2, <2>1, <3>1 DEF WakeupsCoverQueue
  <2> QED
    BY <2>2, <2>3
<1>8. ASSUME NEW c \in Consumers, SpuriousWakeup(c)
      PROVE  WakeupsCoverQueue'
  <2>1. Cardinality(notified') = n + 1
    BY <1>8, NotifiedFacts DEF SpuriousWakeup
  <2>2. queue' = queue /\ waiters # {}
    BY <1>8 DEF SpuriousWakeup
  <2> QED
    BY <1>1, <1>2, <2>1, <2>2 DEF WakeupsCoverQueue
<1>9. CASE Shutdown
  BY <1>9 DEF Shutdown, WakeupsCoverQueue
<1>10. CASE UNCHANGED vars
  BY <1>10 DEF vars, WakeupsCoverQueue
<1> QED
  BY <1>4, <1>5, <1>6, <1>7, <1>8, <1>9, <1>10 DEF Next

\* No wakeup is lost, for any number of consumers and messages: one
\* notify_one() per message is enough, whoever takes the messages.
THEOREM QueueLosesNoWakeup == Spec => []WakeupsCoverQueue
<1>1. Init => WakeupsCoverQueue
  BY DEF Init, WakeupsCoverQueue
<1> QED
  BY <1>1, WakeupsNext, QueueTypeCorrect, PTL DEF Spec
=============================================================================
