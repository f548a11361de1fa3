------------------------- MODULE MCServerTransaction -------------------------
(* The transactions of one request and of its CANCEL. *)
EXTENDS ServerTransaction
=============================================================================
