------------------------- MODULE MC_GradAccumulation -------------------------
(***************************************************************************)
(* GradAccumulation on a 2-mode tensor with rows {1, 2} in each mode and *)
(* two nonzeros, at <1, 1> and <1, 2>: a nonzero sample hits row 1 of    *)
(* mode 1 whichever nonzero it draws, so two threads collide there.      *)
(***************************************************************************)
EXTENDS GradAccumulation

MCNzIndices == {<<1, 1>>, <<1, 2>>}

=============================================================================
