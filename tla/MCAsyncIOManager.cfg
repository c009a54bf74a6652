CONSTANTS
    Platforms = {"windows", "linux"}
    Sockets = {s1}
    Pollers = {p1, p2}
    MAX_THREADS = 2
    BUFFER_SIZE = 2
    DataSizes = {2}
    RelockOutcome = {"blocks", "proceeds"}
    MaxContexts = 2
    MaxUnderWay = 2
SPECIFICATION Spec
CHECK_DEADLOCK FALSE
INVARIANTS TypeOK OneOperationPerDirection OnePollerPerContext WakeupForEachWaiter
PROPERTIES ContextOutlivesCallback ShutdownReturns
