---------------------- MODULE MCGalleryGovernance ----------------------
(* A small instance of GalleryGovernance for TLC. *)
EXTENDS GalleryGovernance, TLC

CONSTANTS o, c, v1, v2, r1, r2

\* Nothing tells one report or one Version from another.
Interchangeable == Permutations(Reports) \union Permutations(Versions)
=============================================================================
