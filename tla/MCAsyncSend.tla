---------------------------- MODULE MCAsyncSend ----------------------------
(***************************************************************************)
(* AsyncSend with a store of a few messages and a queue of two entries.    *)
(***************************************************************************)
EXTENDS AsyncSend
=============================================================================
