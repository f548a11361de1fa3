-------------------------- MODULE MCSipTransaction --------------------------
(* One request between two stacks. *)
EXTENDS SipTransaction
=============================================================================
