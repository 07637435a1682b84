----------------------------- MODULE MCSession -----------------------------
(* Model checking of Session: its constants are given in the configurations. *)
EXTENDS Session
============================================================================
