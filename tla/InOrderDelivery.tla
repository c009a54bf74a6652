--------------------------- MODULE InOrderDelivery ---------------------------
(***************************************************************************)
(* What the main loop promises to the network threads: each message it     *)
(* accepts is dispatched at most once, and in the order of acceptance.     *)
(* Nothing is said of threads, mutexes, restarts or handlers.              *)
(***************************************************************************)
EXTENDS Integers, Sequences

CONSTANT Messages

VARIABLES
    pending,     \* accepted, not dispatched yet, oldest first
    delivered    \* dispatched, in the order of dispatch

vars == <<pending, delivered>>

Elements(s) == {s[i] : i \in 1..Len(s)}

Init == pending = <<>> /\ delivered = <<>>

Accept(m) ==
    /\ m \notin Elements(pending) \cup Elements(delivered)
    /\ pending' = Append(pending, m)
    /\ UNCHANGED delivered

Deliver ==
    /\ pending # <<>>
    /\ delivered' = Append(delivered, Head(pending))
    /\ pending' = Tail(pending)

Next == Deliver \/ \E m \in Messages : Accept(m)

Spec == Init /\ [][Next]_vars
=============================================================================
