---------------------------- MODULE MCMySQLPool ----------------------------
(***************************************************************************)
(* MySQLPool for TLC.                                                      *)
(***************************************************************************)
EXTENDS MySQLPool, TLC

CONSTANTS c1, c2, c3

\* Arguments of increasePoolSize() and decreasePoolSize(), which take any int.
BothSigns == {-1, 1}

\* Nothing in the pool tells one client from another.
ClientSymmetry == Permutations(Clients)
============================================================================
