-------------------------- MODULE MCContentBundle --------------------------
(* Small instances of ContentBundle for TLC. *)
EXTENDS ContentBundle, ProcessingJobRefinement, TLC

CONSTANTS s1, s2, j1, j2, w1, w2, a1, a2, r1, c1

\* Two Artifacts, one job each.
MCArtifactOf == (s1 :> a1) @@ (s2 :> a2)
MCSessionOf  == (j1 :> s1) @@ (j2 :> s2)

\* One Upload whose attempts take over from each other.
MCArtifactOf1 == s1 :> a1
MCSessionOf1  == j1 :> s1
MCRawOf1      == s1 :> r1
MCContentOf1  == r1 :> c1

\* Two Artifacts with the same ZIP.
MCRawOf2     == (s1 :> r1) @@ (s2 :> r1)

MCRetryDelay == (1 :> 0) @@ (2 :> 0)

WorkerSymmetry == Permutations(Workers)
=============================================================================
