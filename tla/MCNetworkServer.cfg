CONSTANTS
    Descriptors = {1, 2}
    Clients = {c1, c2}
    Chunks <- MCChunks
    MaxBuffer = 8
    MaxReceived = 17
    Listeners = {l1}
    MaxListeners = 2
SPECIFICATION Spec
CHECK_DEADLOCK FALSE
INVARIANTS TypeOK FramedAsReceived ListsFollowDescriptors NothingLeftOpen SilentAfterRemoval
PROPERTIES EventsEnd
