------------------------- MODULE MCContainerUpdate -------------------------
(* Bounds for the runs of ContainerUpdate. *)
EXTENDS ContainerUpdate

AllPolicies == Policy

\* The third run is for what follows from the two before it, and has less go wrong.
CalmThirdRun == run.n = 3 => trouble <= 2
=============================================================================
