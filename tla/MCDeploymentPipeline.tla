------------------------- MODULE MCDeploymentPipeline -------------------------
(* Instances of DeploymentPipeline for TLC.                                *)
EXTENDS DeploymentPipeline
=============================================================================
