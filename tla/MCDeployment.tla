---------------------------- MODULE MCDeployment ----------------------------
(* TLC instance of Deployment.                                             *)
EXTENDS Deployment, TLC

CONSTANTS p1, p2, d1

MCPods == {p1, p2}
MCDocs == {d1}
=============================================================================
