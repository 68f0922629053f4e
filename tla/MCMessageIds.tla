---------------------------- MODULE MCMessageIds ----------------------------
(* A small instance of MessageIds. *)
EXTENDS MessageIds
=============================================================================
