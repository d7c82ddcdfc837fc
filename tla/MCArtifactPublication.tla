---------------------- MODULE MCArtifactPublication ----------------------
(* A small instance of ArtifactPublication for TLC. *)
EXTENDS ArtifactPublication, TLC

CONSTANTS a1, a2, b1, b2, k1, k2, r1, r2

\* Two Artifacts of one Owner may share a bundle; no two of a kind differ.
Interchangeable ==
    Permutations(Artifacts) \union Permutations(Bundles) \union Permutations(Keys)
        \union Permutations(Reconcilers)
=============================================================================
