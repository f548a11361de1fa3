------------------------- MODULE MCClientTransaction -------------------------
(* One request of the transaction user and the CANCEL of it, which is repeated *)
(* for a request on a flow.                                                    *)
EXTENDS ClientTransaction

MCMaxCancels == [w \in Ways |-> IF w = "flow" THEN 2 ELSE 1]
=============================================================================
