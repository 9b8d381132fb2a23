--------------------------- MODULE MCFrameEncoder ---------------------------
(***************************************************************************)
(* FrameEncoder on a screen of 3 x 2 tiles of 2 x 2 pixels.                *)
(***************************************************************************)
EXTENDS FrameEncoder

\* Both ends, the middle of a tile, a tile boundary, and beyond the screen.
SomeCoords == {0, 1, 2, 5, 6}

\* Nothing, a part of a tile, a tile or across two, more than the screen.
SomeSizes == {0, 1, 2, 7}
=============================================================================
