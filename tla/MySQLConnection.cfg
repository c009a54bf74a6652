SPECIFICATION Spec
INVARIANT ConnectFailsWithServer
