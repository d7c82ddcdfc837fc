-------------------------- MODULE MCProcessingJob --------------------------
(* Small instances of ProcessingJob for TLC. *)
EXTENDS ProcessingJobRefinement, TLC

CONSTANTS s1, s2, j1, j2, j3, w1, w2, a1

\* One Artifact: a first Upload that may be retried once, and a second Upload
\* that replaces it or adds a Version.
MCArtifactOf == (s1 :> a1) @@ (s2 :> a1)
MCSessionOf  == (j1 :> s1) @@ (j2 :> s1) @@ (j3 :> s2)

MCRetryDelay == (1 :> 1) @@ (2 :> 2)

WorkerSymmetry == Permutations(Workers)
=============================================================================
