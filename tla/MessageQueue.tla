---------------------------- MODULE MessageQueue ----------------------------
(***************************************************************************)
(* The thread-safe queue of messaging/message.cpp: any number of producers *)
(* push(), consumers pop() with or without waiting, and shutdown().  Every *)
(* operation runs under mutex_ from its first to its last line, so it is   *)
(* one action; pop(true) gives the mutex up while it waits.                *)
(*                                                                         *)
(* A message is an object owned by a unique_ptr: the same one is never     *)
(* twice in the queue.  push() of a null pointer and push() after          *)
(* shutdown() throw and change nothing, so they are not steps.             *)
(***************************************************************************)
EXTENDS Integers, Sequences, FiniteSets

CONSTANTS
    Messages,    \* the messages that producers may push
    Consumers    \* the threads that call pop()

ASSUME QueueAssumption == IsFiniteSet(Consumers)

VARIABLES
    queue,       \* queue_
    shutdown,    \* shutdown_
    waiters,     \* consumers blocked on condition_, not notified
    notified     \* consumers notified, that have not got the mutex yet

vars == <<queue, shutdown, waiters, notified>>

Queued == {queue[i] : i \in 1..Len(queue)}

TypeOK ==
    /\ queue \in Seq(Messages)
    /\ shutdown \in BOOLEAN
    /\ waiters \in SUBSET Consumers
    /\ notified \in SUBSET Consumers
    /\ waiters \cap notified = {}

Init ==
    /\ queue = <<>>
    /\ shutdown = FALSE
    /\ waiters = {}
    /\ notified = {}

-----------------------------------------------------------------------------
\* condition_.notify_one().  The mutant leaves it out when the queue already
\* held a message.
NotifyOne_IfEmpty ==
    \/ (waiters = {} \/ queue # <<>>) /\ UNCHANGED <<waiters, notified>>
    \/ /\ queue = <<>>
       /\ \E w \in waiters : /\ waiters' = waiters \ {w}
                             /\ notified' = notified \cup {w}

NotifyOne ==
    \/ waiters = {} /\ UNCHANGED <<waiters, notified>>
    \/ \E w \in waiters : /\ waiters' = waiters \ {w}
                          /\ notified' = notified \cup {w}

Push(m) ==
    /\ ~shutdown
    /\ m \notin Queued
    /\ queue' = Append(queue, m)
    /\ NotifyOne
    /\ UNCHANGED shutdown

\* pop(false), or pop(true) that need not wait: the message at the front, or
\* nullptr, which changes nothing.
Pop(c) ==
    /\ c \notin waiters \cup notified
    /\ queue # <<>>
    /\ queue' = Tail(queue)
    /\ UNCHANGED <<shutdown, waiters, notified>>

\* pop(true) finds the queue open and empty.
PopWaits(c) ==
    /\ c \notin waiters \cup notified
    /\ ~shutdown
    /\ queue = <<>>
    /\ waiters' = waiters \cup {c}
    /\ UNCHANGED <<queue, shutdown, notified>>

\* Mutant: the notification is not used up.
Wake_KeepsNotification(c) ==
    /\ c \in notified
    /\ queue' = IF queue = <<>> THEN queue ELSE Tail(queue)
    /\ waiters' = IF queue = <<>> /\ ~shutdown THEN waiters \cup {c} ELSE waiters
    /\ UNCHANGED <<shutdown, notified>>

\* A notified consumer has the mutex and finds a message, or a closed queue
\* that is empty (it returns nullptr), or nothing at all and waits again.
Wake(c) ==
    /\ c \in notified
    /\ notified' = notified \ {c}
    /\ queue' = IF queue = <<>> THEN queue ELSE Tail(queue)
    /\ waiters' = IF queue = <<>> /\ ~shutdown THEN waiters \cup {c} ELSE waiters
    /\ UNCHANGED shutdown

\* condition_ may wake a consumer that nobody notified.
SpuriousWakeup(c) ==
    /\ c \in waiters
    /\ waiters' = waiters \ {c}
    /\ notified' = notified \cup {c}
    /\ UNCHANGED <<queue, shutdown>>

\* The mutant wakes one consumer only.
Shutdown_NotifyOne ==
    /\ ~shutdown
    /\ shutdown' = TRUE
    /\ NotifyOne
    /\ UNCHANGED queue

\* A second call sets the flag again and finds nobody to notify.
Shutdown ==
    /\ ~shutdown
    /\ shutdown' = TRUE
    /\ notified' = notified \cup waiters
    /\ waiters' = {}
    /\ UNCHANGED queue

-----------------------------------------------------------------------------
Next ==
    \/ \E m \in Messages : Push(m)
    \/ \E c \in Consumers : Pop(c) \/ PopWaits(c) \/ Wake(c) \/ SpuriousWakeup(c)
    \/ Shutdown

Spec == Init /\ [][Next]_vars

\* A notified thread gets the mutex in the end.  Nobody has to push, to call
\* pop() or to shut the queue down.
FairSpec == Spec /\ \A c \in Consumers : WF_vars(Wake(c))

-----------------------------------------------------------------------------
(* Properties                                                              *)

\* No wakeup is lost: while a consumer waits without having been notified,
\* each message in the queue has a notified consumer on its way to it, also
\* after consumers that did not wait have taken messages from under those
\* that did, and after notified consumers had to go back to waiting.
WakeupsCoverQueue ==
    waiters # {} => Len(queue) <= Cardinality(notified)

\* A message does not stay in the queue for ever while consumers are blocked
\* in pop(true).
NoMessageStranded ==
    \A m \in Messages :
        (m \in Queued) ~> (m \notin Queued \/ waiters \cup notified = {})

\* shutdown() frees every blocked consumer.
ShutdownFreesConsumers == shutdown ~> (waiters \cup notified = {})
=============================================================================
