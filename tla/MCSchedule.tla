----------------------------- MODULE MCSchedule -----------------------------
(* The runs of Schedule; their bounds are in the configurations. *)
EXTENDS Schedule
=============================================================================
