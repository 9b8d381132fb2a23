------------------------- MODULE MCDisplayPipeline -------------------------
(***************************************************************************)
(* DisplayPipeline on a small screen, for TLC.                             *)
(***************************************************************************)
EXTENDS DisplayPipeline

CONSTANTS t1, t2, t3

ThreeTiles == {t1, t2, t3}
============================================================================
