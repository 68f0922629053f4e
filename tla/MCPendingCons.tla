--------------------------- MODULE MCPendingCons ---------------------------
(* Small instances of PendingCons: e1a is e1 under a security association. *)
EXTENDS PendingCons, TLC
CONSTANTS e1, e1a, e2

MCEndpoints == {e1, e1a, e2}
MCPhysical == (e1 :> e1) @@ (e1a :> e1) @@ (e2 :> e2)
=============================================================================
