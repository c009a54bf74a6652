--------------------------- MODULE MCMessageQueue ---------------------------
(***************************************************************************)
(* MessageQueue for TLC.                                                   *)
(***************************************************************************)
EXTENDS MessageQueue

CONSTANTS m1, m2, m3, c1, c2, c3
============================================================================
