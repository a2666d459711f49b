-------------------------- MODULE MCDeployPipeline --------------------------
(* Model checking of DeployPipeline: enough deployments, aborted or rolled   *)
(* back at every command, for the prune to have something to remove.         *)
EXTENDS DeployPipeline
=============================================================================
