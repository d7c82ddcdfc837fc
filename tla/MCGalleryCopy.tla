--------------------------- MODULE MCGalleryCopy ---------------------------
(* Small instances of GalleryCopy for TLC. *)
EXTENDS GalleryCopy, TLC

CONSTANTS j1, j2, c1, w1, w2

\* Both keys are one Copier's: they share an account.
MCCopierOf == (j1 :> c1) @@ (j2 :> c1)

\* Only the second may be retried.
MCMaxAttempts == (j1 :> 1) @@ (j2 :> 2)
=============================================================================
