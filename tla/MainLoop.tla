------------------------------ MODULE MainLoop ------------------------------
(***************************************************************************)
(* The main loop, src/main/MainLoop.cpp, with its table of handlers,       *)
(* src/handler/MainLoopHandler.cpp, and its MessageQueue: network threads  *)
(* call addMessage(), the owner start() and stop(), anybody may change the *)
(* table, and the loop thread dispatches one message after the other.      *)
(*                                                                         *)
(* The loop thread takes from the queue with pop(false) and nobody calls   *)
(* the queue's shutdown(), so of MessageQueue's state only queue_ is left. *)
(* The sleep of an idle turn is part of the turn.                          *)
(***************************************************************************)
EXTENDS Integers, Sequences

CONSTANTS
    Messages,        \* the messages the network threads may send
    Types,           \* MessageType
    TypeOf,          \* Message::getType()
    HandlerOutcome   \* how a handler may end: "returns", "throws", "blocks"

ASSUME LoopAssumption ==
    /\ TypeOf \in [Messages -> Types]
    /\ HandlerOutcome \in SUBSET {"returns", "throws", "blocks"}

VARIABLES
    queue,      \* messageQueue_
    current,    \* the message the loop thread has popped: <<>> or <<m>>
    handlers,   \* the types that have a handler in handlers_
    running,    \* the atomic running_
    loop,       \* where the loop thread stands
    owner,      \* where the owner's stop() stands
    handled     \* history: the messages dispatched, in order

tables == <<queue, current, handlers, handled>>
vars == <<tables, running, loop, owner>>

Elements(s) == {s[i] : i \in 1..Len(s)}

TypeOK ==
    /\ queue \in Seq(Messages)
    /\ IF loop \in {"lock", "handle", "stuck"} THEN \E m \in Messages : current = <<m>>
                                               ELSE current = <<>>
    /\ handlers \in SUBSET Types
    /\ running \in BOOLEAN
    /\ loop \in {"none", "check", "pop", "lock", "handle", "stuck", "exited"}
    /\ owner \in {"idle", "join"}
    /\ handled \in Seq(Messages)

Init ==
    /\ queue = <<>>
    /\ current = <<>>
    /\ handlers = {}
    /\ running = FALSE
    /\ loop = "none"
    /\ owner = "idle"
    /\ handled = <<>>

-----------------------------------------------------------------------------
\* addMessage(), also before start() and after stop().  A message is a new
\* object each time: one that was dispatched does not come back.
AddMessage(m) ==
    /\ m \notin Elements(queue) \cup Elements(current) \cup Elements(handled)
    /\ queue' = Append(queue, m)
    /\ UNCHANGED <<current, handlers, handled, running, loop, owner>>

\* start() of a loop that is not running.  stop() has joined the thread
\* before, so that loopThread_ may be assigned.
Start ==
    /\ owner = "idle"
    /\ ~running
    /\ running' = TRUE
    /\ loop' = "check"
    /\ UNCHANGED <<tables, owner>>

\* Mutant: the flag goes down after the join only.
Stop_FlagLast ==
    /\ owner = "idle"
    /\ running
    /\ owner' = "join"
    /\ UNCHANGED <<tables, running, loop>>

\* stop(): the flag, then the join.
Stop ==
    /\ owner = "idle"
    /\ running
    /\ running' = FALSE
    /\ owner' = "join"
    /\ UNCHANGED <<tables, loop>>

\* Mutant: detach() instead of join().
StopJoin_Detach ==
    /\ owner = "join"
    /\ owner' = "idle"
    /\ UNCHANGED <<tables, running, loop>>

StopJoin ==
    /\ owner = "join"
    /\ loop = "exited"
    /\ loop' = "none"
    /\ owner' = "idle"
    /\ UNCHANGED <<tables, running>>

-----------------------------------------------------------------------------
(* runLoop()                                                               *)

LoopTest ==
    /\ loop = "check"
    /\ loop' = IF running THEN "pop" ELSE "exited"
    /\ UNCHANGED <<tables, running, owner>>

\* Mutant: the message is dropped when stop() has been called meanwhile.
TakeMessage_UnlessStopping ==
    /\ queue # <<>>
    /\ queue' = Tail(queue)
    /\ current' = IF running THEN <<Head(queue)>> ELSE <<>>
    /\ loop' = IF running THEN "lock" ELSE "check"

TakeMessage ==
    /\ queue # <<>>
    /\ queue' = Tail(queue)
    /\ current' = <<Head(queue)>>
    /\ loop' = "lock"

\* getNextMessage(): a message, or none and the thread sleeps.
GetNextMessage ==
    /\ loop = "pop"
    /\ \/ TakeMessage
       \/ queue = <<>> /\ loop' = "check" /\ UNCHANGED <<queue, current>>
    /\ UNCHANGED <<handlers, handled, running, owner>>

Type == TypeOf[Head(current)]

\* Mutant: the loop keeps hold of the message.
Dispatched_KeptInHand ==
    /\ handled' = handled \o current
    /\ loop' = "check"
    /\ UNCHANGED current

\* The loop thread is done with the message in hand.
Dispatched ==
    /\ handled' = handled \o current
    /\ current' = <<>>
    /\ loop' = "check"

\* handleMessage() takes handlersMutex_, which nobody else keeps beyond a
\* step, and calls the handler; without one the message is dropped.
HandleMessage ==
    /\ loop = "lock"
    /\ \/ /\ Type \in handlers
          /\ loop' = "handle"
          /\ UNCHANGED <<current, handled>>
       \/ /\ Type \notin handlers
          /\ Dispatched
    /\ UNCHANGED <<queue, handlers, running, owner>>

\* Mutant: an exception of the handler ends the loop.
HandlerEnds_ThrowExits(outcome) ==
    /\ loop = "handle"
    /\ handled' = handled \o current
    /\ current' = <<>>
    /\ loop' = IF outcome = "throws" THEN "exited" ELSE "check"
    /\ UNCHANGED <<queue, handlers, running, owner>>

\* The handler returns or throws: handlersMutex_ is released, an exception is
\* logged by runLoop(), and the loop goes on.
HandlerEnds(outcome) ==
    /\ loop = "handle"
    /\ Dispatched
    /\ UNCHANGED <<queue, handlers, running, owner>>

\* Or it does neither: it answers with send(), which waits on Windows, where the
\* sockets of clients block, for as long as the client does not read.
HandlerBlocks ==
    /\ "blocks" \in HandlerOutcome
    /\ loop = "handle"
    /\ loop' = "stuck"
    /\ UNCHANGED <<tables, running, owner>>

-----------------------------------------------------------------------------
(* registerHandler(), unregisterHandler(), clear().  The loop thread holds *)
(* handlersMutex_ while it runs a handler.                                 *)

\* Mutant: no lock_guard.
TableFree_Unlocked == TRUE

TableFree == loop \notin {"handle", "stuck"}

RegisterHandler(t) ==
    /\ TableFree
    /\ handlers' = handlers \cup {t}
    /\ UNCHANGED <<queue, current, handled, running, loop, owner>>

UnregisterHandler(t) ==
    /\ TableFree
    /\ handlers' = handlers \ {t}
    /\ UNCHANGED <<queue, current, handled, running, loop, owner>>

Clear ==
    /\ TableFree
    /\ handlers' = {}
    /\ UNCHANGED <<queue, current, handled, running, loop, owner>>

-----------------------------------------------------------------------------
LoopStep ==
    \/ LoopTest \/ GetNextMessage \/ HandleMessage
    \/ \E outcome \in HandlerOutcome \ {"blocks"} : HandlerEnds(outcome)
    \/ HandlerBlocks

Next ==
    \/ \E m \in Messages : AddMessage(m)
    \/ Start \/ Stop \/ StopJoin
    \/ LoopStep
    \/ \E t \in Types : RegisterHandler(t) \/ UnregisterHandler(t)
    \/ Clear

Spec == Init /\ [][Next]_vars

\* The loop thread runs, its handlers end or block, and the owner gets past a
\* join whose thread has exited.  Nobody has to send, to start or to stop.
FairSpec == Spec /\ WF_vars(LoopStep) /\ WF_vars(StopJoin)

-----------------------------------------------------------------------------
(* Properties                                                              *)

\* The loop implements InOrderDelivery: no message is lost, dispatched twice
\* or overtaken between addMessage() and the handler, over any number of
\* stops and restarts, handlers that throw and changes of the table.
Abstract == INSTANCE InOrderDelivery
                WITH pending <- current \o queue, delivered <- handled

DeliversInOrder == Abstract!Spec

\* When stop() has returned the loop thread is gone: GameServerApp::shutdown()
\* deletes the main loop and the server that handlers use on the strength of
\* it.
StopIsQuiescent == ~running /\ owner = "idle" => loop = "none"

\* unregisterHandler() and clear() return only when the handler they remove
\* does not run, so what it captured may go: a handler that runs, for however
\* long, is in the table.
RunningHandlerIsRegistered == loop \in {"handle", "stuck"} => Type \in handlers

\* A message that was accepted is dispatched, also after its predecessors'
\* handlers have thrown, unless somebody stops the loop or a handler blocks.
EveryMessageDispatched ==
    \A m \in Messages :
        (m \in Elements(queue) /\ running)
            ~> (m \in Elements(handled) \/ ~running \/ loop = "stuck")

\* stop() returns, whatever is still in the queue, unless a handler blocks.
StopReturns == (owner = "join") ~> (owner = "idle" \/ loop = "stuck")
=============================================================================
