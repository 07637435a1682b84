------------------------------- MODULE MCSos -------------------------------
(* Model checking of Sos: its constants are given in the configurations.   *)
EXTENDS Sos
============================================================================
