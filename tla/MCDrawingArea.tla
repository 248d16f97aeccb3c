--------------------------- MODULE MCDrawingArea ---------------------------
(***************************************************************************)
(* Instances of DrawingArea for TLC.                                       *)
(***************************************************************************)
EXTENDS DrawingArea

(* The page is scrolled by one tile, up or down.                           *)
UpAndDown == {-1, 1}
NoScroll == {}
=============================================================================
