-------------------------- MODULE MCDemoPublication --------------------------
(* Small instances of DemoPublication: CI and one other required workflow, *)
(* a release of two assets of which one has the same bytes in every CI     *)
(* attempt.                                                                *)
EXTENDS DemoPublication

CONSTANTS ci, gateflow, codeql, evidence, wheels

MCWorkflows == {ci, gateflow}
MCThreeWorkflows == {ci, gateflow, codeql}
MCAssets == {evidence, wheels}
MCReproducible == {wheels}
=============================================================================
