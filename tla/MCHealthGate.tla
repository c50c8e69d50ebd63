---------------------------- MODULE MCHealthGate ----------------------------
(* The runs of HealthGate; their bounds are in the configurations. *)
EXTENDS HealthGate
=============================================================================
