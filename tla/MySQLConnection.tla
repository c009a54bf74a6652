--------------------------- MODULE MySQLConnection ---------------------------
(***************************************************************************)
(* How a connection comes up and goes down: connect(), disconnect() and    *)
(* ping() of src/database/MySQLConnection.cpp.  One thread at a time has   *)
(* the object, so that each call is one action; the MySQL server changes   *)
(* between the calls.                                                      *)
(***************************************************************************)

VARIABLES
    connected,    \* connected_
    connection,   \* connection_ is not null
    statement,    \* statement_ is not null
    server,       \* "up", "down" (refuses), "failing" (accepts, then fails)
    lastConnect   \* history: what the last connect() found and answered

vars == <<connected, connection, statement, server, lastConnect>>

TypeOK ==
    /\ connected \in BOOLEAN
    /\ connection \in BOOLEAN
    /\ statement \in BOOLEAN
    /\ server \in {"up", "down", "failing"}
    /\ lastConnect \in [server : {"up", "down", "failing"}, answer : BOOLEAN]

Init ==
    /\ connected = FALSE
    /\ connection = FALSE
    /\ statement = FALSE
    /\ server \in {"up", "down"}
    /\ lastConnect = [server |-> "up", answer |-> TRUE]

\* The environment.
ServerChanges ==
    /\ server' \in {"up", "down", "failing"} \ {server}
    /\ UNCHANGED <<connected, connection, statement, lastConnect>>

\* ping(), and isConnected() of a connection_ that is not null.
Ping == connected /\ server = "up"

\* connect() of an object that is connected.
ConnectAgain ==
    /\ connected
    /\ lastConnect' = [server |-> server, answer |-> TRUE]
    /\ UNCHANGED <<connected, connection, statement, server>>

\* The driver throws and connection_ stays what it was, or answers null.
ConnectRefused ==
    /\ ~connected
    /\ server = "down"
    /\ connection' \in {connection, FALSE}
    /\ lastConnect' = [server |-> server, answer |-> FALSE]
    /\ UNCHANGED <<connected, statement, server>>

\* The driver has connected, the options are set, and the ping decides.
Connect ==
    /\ ~connected
    /\ server # "down"
    /\ connection' = TRUE
    /\ connected' = Ping
    /\ statement' = (statement \/ Ping)
    /\ lastConnect' = [server |-> server, answer |-> Ping]
    /\ UNCHANGED server

Disconnect ==
    /\ connected
    /\ connected' = FALSE
    /\ connection' = FALSE
    /\ statement' = FALSE
    /\ UNCHANGED <<server, lastConnect>>

Next ==
    ServerChanges \/ ConnectAgain \/ ConnectRefused \/ Connect \/ Disconnect

Spec == Init /\ [][Next]_vars

-----------------------------------------------------------------------------
(* What a comment says and the code does not do.                           *)

\* MySQLConnection.cpp:57 "Test connection with ping": connect() fails only
\* when the server does.
ConnectFailsWithServer == lastConnect.answer \/ lastConnect.server # "up"
=============================================================================
