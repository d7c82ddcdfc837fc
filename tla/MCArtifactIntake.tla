------------------------- MODULE MCArtifactIntake -------------------------
(* A small instance of ArtifactIntake for TLC. *)
EXTENDS ArtifactIntake, TLC

CONSTANTS c1, c2, c3, k1, i1, i2
=============================================================================
