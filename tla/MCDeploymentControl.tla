----------------------- MODULE MCDeploymentControl -----------------------
(* A small instance of DeploymentControl for TLC. *)
EXTENDS DeploymentControl, TLC

CONSTANTS r1, r2, r3, x1, x2

\* Nothing tells one session or one release from another.
Interchangeable == Permutations(Releases) \union Permutations(Sessions)
=============================================================================
