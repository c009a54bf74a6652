----------------------------- MODULE MCGameServer -----------------------------
(***************************************************************************)
(* GameServer for TLC: a login, a registration and a message of a type     *)
(* without a handler.                                                      *)
(***************************************************************************)
EXTENDS GameServer

CONSTANTS m1, m2, m3

MCTypeOf == [m \in {m1, m2, m3} |->
    CASE m = m1 -> "LOGIN" [] m = m2 -> "REGISTER" [] OTHER -> "CUSTOM"]
=============================================================================
