---------------------------- MODULE MCAutoscaler ----------------------------
(* TLC instance of Autoscaler. *)
EXTENDS Autoscaler, TLC
=============================================================================
