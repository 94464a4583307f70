------------------------- MODULE MCReleasePublication -------------------------
(* A small instance of ReleasePublication: CI and one other required       *)
(* workflow.                                                               *)
EXTENDS ReleasePublication

CONSTANTS ci, gateflow

MCWorkflows == {ci, gateflow}
=============================================================================
