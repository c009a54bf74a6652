-------------------------- MODULE MCNetworkServer --------------------------
(***************************************************************************)
(* NetworkServer for TLC.  First and Rest together are a message of nine   *)
(* bytes, which the buffer can hold but for its last byte, and one without *)
(* a body; Rest by itself begins a message that is too long.               *)
(***************************************************************************)
EXTENDS NetworkServer

First == <<0, 0, 0, 7, 0>>
Rest == <<0, 0, 1, 5, 0, 0, 0, 8, 0, 0, 0, 0>>

MCChunks == {First, Rest}
=============================================================================
