-------------------------- MODULE MCAsyncIOManager --------------------------
(***************************************************************************)
(* AsyncIOManager for TLC, with either back end: one descriptor that two   *)
(* clients have one after the other, and two threads.                      *)
(***************************************************************************)
EXTENDS AsyncIOManager
=============================================================================
