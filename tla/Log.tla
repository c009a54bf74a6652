--------------------------------- MODULE Log ---------------------------------
(***************************************************************************)
(* Log, src/logging/Log.cpp: one logger for the program, set up and taken  *)
(* down by the main thread, used by all threads without a lock.  Levels,   *)
(* sinks and patterns are left out; a call while there is no logger does   *)
(* nothing.                                                                *)
(***************************************************************************)
VARIABLES
    initialized,   \* initialized
    logger,        \* logger: "none", "set", or "reset" by shutdown()
    writers        \* the threads of spdlog's pool exist

vars == <<initialized, logger, writers>>

TypeOK ==
    /\ initialized \in BOOLEAN
    /\ logger \in {"none", "set", "reset"}
    /\ writers \in BOOLEAN
    /\ initialized => logger = "set"

Init == initialized = FALSE /\ logger = "none" /\ writers = FALSE

\* initialize() with or without asynchronous logging: the pool of threads,
\* the sinks, the logger, the timer that flushes.
Initialize(async) ==
    /\ ~initialized
    /\ initialized' = TRUE
    /\ logger' = "set"
    /\ writers' = async

\* spdlog throws, initialize() answers false: the pool cannot be created, the
\* log file cannot be opened, or the timer's thread cannot be started.  What
\* is there by then stays.
InitializeFails(async) ==
    /\ ~initialized
    /\ \/ UNCHANGED <<logger, writers>>
       \/ logger' \in {"none", "set"} /\ writers' = async
    /\ UNCHANGED initialized

\* shutdown() flushes and takes down what a successful initialize() set up.
Shutdown ==
    \/ ~initialized /\ UNCHANGED vars
    \/ /\ initialized
       /\ initialized' = FALSE
       /\ logger' = "reset"
       /\ writers' = FALSE
=============================================================================
