--------------------------- MODULE MC_Redistribute ---------------------------
(* A 2 x 2 grid over a 3 x 2 tensor: mode 1 is cut [0,2) [2,3), mode 2    *)
(* [0,1) [1,2).  The five nonzeros give rank 1 two of them, the others    *)
(* one, and rank 0's slice of the read order two of them.                 *)
EXTENDS DistSetup

MCGrid == << 2, 2 >>
MCTDims == << 3, 2 >>
MCTensor == {<< 0, 0 >>, << 0, 1 >>, << 1, 1 >>, << 2, 0 >>, << 2, 1 >>}

(* Four nonzeros, none in block (1, 0): rank 2's local tensor is empty.   *)
MCTensorSparse == {<< 0, 0 >>, << 0, 1 >>, << 1, 1 >>, << 2, 1 >>}
(* A 4 x 1 grid over a 4 x 2 tensor: mode 1 is cut into single rows, so  *)
(* every rank alone owns its mode-1 factor rows (a sub-communicator of   *)
(* one rank, skipped) and all four share the mode-2 rows.                 *)
MCGridRow == << 4, 1 >>
MCTDimsRow == << 4, 2 >>
MCTensorRow == {<< 0, 0 >>, << 1, 1 >>, << 2, 0 >>, << 3, 0 >>, << 3, 1 >>}
=============================================================================
