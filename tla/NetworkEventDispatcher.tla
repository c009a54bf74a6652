----------------------- MODULE NetworkEventDispatcher -----------------------
(***************************************************************************)
(* NetworkEventDispatcher, src/network/NetworkEventDispatcher.h: the       *)
(* listeners of network events, kept as weak_ptrs.  The five notify        *)
(* functions differ in the member they call; each holds listenersMutex_    *)
(* while it calls the listeners one after the other.                       *)
(*                                                                         *)
(* A listener that adds or removes a listener in its callback blocks       *)
(* itself and its thread: no listener here does.                           *)
(***************************************************************************)
EXTENDS Integers, Sequences

CONSTANTS
    Listeners,
    MaxListeners   \* BOUND: entries of listeners_

VARIABLES
    listeners,    \* listeners_
    owned,        \* the listeners that somebody has a shared_ptr of
    visiting,     \* the index the notification is at; 0: the mutex is free
    calling,      \* the listener whose callback runs, as a set
    registered    \* history: those added and not removed since

vars == <<listeners, owned, visiting, calling, registered>>

TypeOK ==
    /\ listeners \in Seq(Listeners)
    /\ Len(listeners) <= MaxListeners
    /\ owned \in SUBSET Listeners
    /\ visiting \in 0..(Len(listeners) + 1)
    /\ calling \in SUBSET Listeners
    /\ registered \in SUBSET Listeners

Init ==
    /\ listeners = <<>>
    /\ owned = Listeners
    /\ visiting = 0
    /\ calling = {}
    /\ registered = {}

-----------------------------------------------------------------------------
\* Mutant: no lock_guard, and the vector changes under the notification.
MutexFree_Unlocked == TRUE

MutexFree == visiting = 0

\* addListener(), also of one that is there already.
AddListener(l) ==
    /\ MutexFree
    /\ l \in owned
    /\ Len(listeners) < MaxListeners
    /\ listeners' = Append(listeners, l)
    /\ registered' = registered \cup {l}
    /\ UNCHANGED <<owned, visiting, calling>>

\* Mutant: std::find() and one erase().
Gone_First(l) ==
    LET found == {i \in 1..Len(listeners) : listeners[i] = l}
    IN {i \in found : \A j \in found : i <= j}

\* All entries of l, and those that have expired.
Gone(l) == {i \in 1..Len(listeners) : listeners[i] = l \/ listeners[i] \notin owned}

\* std::remove_if() and erase(): the entries at the other positions stay, in
\* their order.
Erase(positions) ==
    LET kept == (1..Len(listeners)) \ positions
    IN \E n \in 0..Len(listeners) : \E from \in [1..n -> kept] :
          /\ \A i, j \in 1..n : i < j => from[i] < from[j]
          /\ \A k \in kept : \E i \in 1..n : from[i] = k
          /\ listeners' = [i \in 1..n |-> listeners[from[i]]]

\* removeListener(); the caller has a shared_ptr.
RemoveListener(l) ==
    /\ MutexFree
    /\ l \in owned
    /\ Erase(Gone(l))
    /\ registered' = registered \ {l}
    /\ UNCHANGED <<owned, visiting, calling>>

\* cleanupExpiredListeners()
CleanupExpiredListeners ==
    /\ MutexFree
    /\ Erase({i \in 1..Len(listeners) : listeners[i] \notin owned})
    /\ UNCHANGED <<owned, visiting, calling, registered>>

\* The last shared_ptr of a listener goes, with or without removeListener().
DropListener(l) ==
    /\ owned' = owned \ {l}
    /\ UNCHANGED <<listeners, visiting, calling, registered>>

-----------------------------------------------------------------------------
(* notifyClientConnected() and the others                                  *)

NotifyBegins ==
    /\ MutexFree
    /\ visiting' = 1
    /\ UNCHANGED <<listeners, owned, calling, registered>>

\* weak.lock(): one that has expired is passed over, another is called and
\* lives at least to the end of the call.
NotifyNext ==
    /\ visiting \in 1..Len(listeners)
    /\ calling = {}
    /\ \/ /\ listeners[visiting] \in owned
          /\ calling' = {listeners[visiting]}
          /\ UNCHANGED visiting
       \/ /\ listeners[visiting] \notin owned
          /\ visiting' = visiting + 1
          /\ UNCHANGED calling
    /\ UNCHANGED <<listeners, owned, registered>>

\* The callback returns, or throws and is logged.
ListenerReturns ==
    /\ calling # {}
    /\ calling' = {}
    /\ visiting' = visiting + 1
    /\ UNCHANGED <<listeners, owned, registered>>

NotifyEnds ==
    /\ visiting > Len(listeners)
    /\ visiting' = 0
    /\ UNCHANGED <<listeners, owned, calling, registered>>

NotifyStep == NotifyNext \/ ListenerReturns

ListenerCall ==
    \/ \E l \in Listeners :
          AddListener(l) \/ RemoveListener(l) \/ (l \in owned /\ DropListener(l))
    \/ CleanupExpiredListeners

-----------------------------------------------------------------------------
(* Properties                                                              *)

\* Once removeListener() has returned the listener is not called any more,
\* and no call of it is still running, however often it had been added.
SilentAfterRemoval == calling \subseteq registered
=============================================================================
