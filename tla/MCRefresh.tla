----------------------------- MODULE MCRefresh -----------------------------
(* Model checking of Refresh: its constants are given in the configurations. *)
EXTENDS Refresh
============================================================================
