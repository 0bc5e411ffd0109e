--------------------------- MODULE MCDeployPipeline ---------------------------
(* Small instances of DeployPipeline for TLC. *)
EXTENDS DeployPipeline, TLC

\* three deployments without failing queries and deaths of the worker, two with them
SmallEnough == faults.crash + faults.db > 0 => created <= 2

CommitSymmetry == Permutations(Commits)
=============================================================================
