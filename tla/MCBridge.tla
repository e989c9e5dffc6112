------------------------------ MODULE MCBridge ------------------------------
(* The instances of the bridge for TLC. The run of what holds has liveness *)
(* properties, so that no symmetry is used.                                *)
EXTENDS Bridge
=============================================================================
