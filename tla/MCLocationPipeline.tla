-------------------------- MODULE MCLocationPipeline --------------------------
(* Model checking of LocationPipeline: its constants are given in the configurations. *)
EXTENDS LocationPipeline
============================================================================
