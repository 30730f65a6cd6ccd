------------------------------- MODULE MCCanTx -------------------------------
(* A small instance of CanTx: two states of the plate, a queue of two. *)
EXTENDS CanTx

CONSTANTS DISCONNECT, OK
=============================================================================
