--------------------------- MODULE MCMazeModule -----------------------------
(* MazeModule checked with two seeds, two levels and every way to rebuild. *)
EXTENDS MazeModule
=============================================================================
