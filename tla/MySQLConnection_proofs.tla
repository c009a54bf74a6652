----------------------- MODULE MySQLConnection_proofs -----------------------
(***************************************************************************)
(* Proofs about MySQLConnection.                                           *)
(***************************************************************************)
EXTENDS MySQLConnection, TLAPS

\* What the constructor sets up and every step keeps: the types, and that no
\* call has connected the object.
LEMMA NeverStep ==
    ASSUME TypeOK, ~connected, ~statement, [Next]_vars
    PROVE  TypeOK' /\ ~connected' /\ ~statement'
<1> USE DEF TypeOK
<1>1. CASE ServerChanges
  BY <1>1 DEF ServerChanges
<1>2. CASE ConnectAgain \/ Disconnect
  BY <1>2 DEF ConnectAgain, Disconnect
<1>3. CASE ConnectRefused
  BY <1>3 DEF ConnectRefused
<1>4. CASE Connect
  BY <1>4 DEF Connect, Ping
<1>5. CASE UNCHANGED vars
  BY <1>5 DEF vars
<1> QED
  BY <1>1, <1>2, <1>3, <1>4, <1>5 DEF Next

\* connect() of this commit never succeeds, whatever the server does and in
\* whatever order the calls come: connected_ stays false and there is never a
\* statement to run a query with.  So MySQLPool runs with ConnectOutcome
\* equal to {FALSE} until the ping is moved behind the flag.
THEOREM NeverConnected == Spec => [](TypeOK /\ ~connected /\ ~statement)
<1>1. ASSUME Init
      PROVE  TypeOK /\ ~connected /\ ~statement
  <2>1. ~connected /\ ~statement /\ connected \in BOOLEAN /\ statement \in BOOLEAN
    BY <1>1 DEF Init
  <2>2. connection \in BOOLEAN
    BY <1>1 DEF Init
  <2>3. server \in {"up", "down", "failing"}
    BY <1>1 DEF Init
  <2>4. lastConnect \in [server : {"up", "down", "failing"}, answer : BOOLEAN]
    BY <1>1 DEF Init
  <2> QED
    BY <2>1, <2>2, <2>3, <2>4 DEF TypeOK
<1> QED
  BY <1>1, NeverStep, PTL DEF Spec
=============================================================================
