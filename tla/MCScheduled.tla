---------------------------- MODULE MCScheduled ----------------------------
(* Model checking of Scheduled: its constants are given in the configurations. *)
EXTENDS Scheduled
============================================================================
