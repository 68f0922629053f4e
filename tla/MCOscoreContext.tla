-------------------------- MODULE MCOscoreContext --------------------------
(* Model checking of OscoreContext; the configuration fixes its three sizes. *)
EXTENDS OscoreContext
=============================================================================
