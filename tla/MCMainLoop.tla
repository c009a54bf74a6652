----------------------------- MODULE MCMainLoop -----------------------------
(***************************************************************************)
(* MainLoop for TLC: two messages of one type, one of another.             *)
(***************************************************************************)
EXTENDS MainLoop

CONSTANTS m1, m2, m3, login, register

MCTypeOf == [m \in {m1, m2, m3} |-> IF m = m3 THEN register ELSE login]
=============================================================================
