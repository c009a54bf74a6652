--------------------------- MODULE DatabaseManager ---------------------------
(***************************************************************************)
(* DatabaseManager, src/database/DatabaseManager.cpp: the table of pools   *)
(* between initialize() and shutdown(), which the main thread calls.  A    *)
(* pool in the table has its threads running (MySQLPool).  The other       *)
(* operations look a pool up and pass the call on to it.                   *)
(***************************************************************************)
VARIABLES
    initialized,   \* initialized_
    pools          \* the keys of pools_

vars == <<initialized, pools>>

Names == {"account", "game"}

TypeOK == initialized \in BOOLEAN /\ pools \in SUBSET Names

Init == initialized = FALSE /\ pools = {}

\* createPools(): a pool whose initialize() answers false is dropped, and its
\* destructor shuts it down; the caller is not told.
CreatePool(name) ==
    /\ name \notin pools
    /\ pools' \in {pools, pools \cup {name}}

\* The end of initialize(), whatever became of the pools.
Initialized == initialized' = TRUE

\* shutdown() joins the threads of each pool.  It does nothing when an
\* exception ended initialize() early, also if there is a pool already.
Shutdown ==
    \/ ~initialized /\ UNCHANGED vars
    \/ /\ initialized
       /\ initialized' = FALSE
       /\ pools' = {}
=============================================================================
