--------------------------- MODULE ProcessorGrid ---------------------------
(***************************************************************************)
(* The processor grid of the distributed tensor code and the medium-grain  *)
(* blocking built on it.                                                   *)
(*                                                                         *)
(*  - ProcessorMap (src/src/rol/Genten_CP_Opt_Rol.cpp, lines 241-346):     *)
(*    rank 0 factors the number of ranks into a Cartesian grid, one extent *)
(*    per tensor mode, by an exhaustive recursive search over divisors    *)
(*    for the grid whose replicated factor matrices take least storage.   *)
(*  - TensorBlockSystem (src/src/Genten_TensorBlockSystem.cpp): the range *)
(*    of each mode is cut into one contiguous block per grid extent, the  *)
(*    nonzeros read by rank 0 are cut into one slice per rank, and a      *)
(*    nonzero is owned by the grid rank whose blocks contain its indices. *)
(*                                                                         *)
(* The C++ helpers are the operators of GridOps.  This module's state    *)
(* machine enumerates the inputs (the number of ranks, the mode lengths, *)
(* the number of nonzeros) and applies the three setup calls to them.    *)
(***************************************************************************)
EXTENDS GridOps

CONSTANTS
    MaxRanks,     \* largest number of MPI ranks enumerated
    NDims,        \* number of tensor modes
    MaxModeLen,   \* largest mode length enumerated
    MaxNnz        \* largest number of nonzeros enumerated

ASSUME RanksAssumption == MaxRanks \in Nat \ {0}
ASSUME DimsAssumption == NDims \in Nat \ {0}
ASSUME ModeLenAssumption == MaxModeLen \in Nat \ {0}
ASSUME NnzAssumption == MaxNnz \in Nat

Modes == 1..NDims

(***************************************************************************)
(* Setup state: the inputs, and the three results (<< >> until computed). *)
(***************************************************************************)
VARIABLES
    nranks,    \* DistContext::nranks()
    dims,      \* Ti.dim_sizes, the mode lengths
    nnz,       \* number of nonzeros rank 0 reads
    who,       \* who_gets_what of distributeTensorToVectors
    grid,      \* dimension_sizes_ of the ProcessorMap
    blocking   \* the medium-grain blocking of every mode

vars == << nranks, dims, nnz, who, grid, blocking >>

Init ==
    /\ nranks \in 1..MaxRanks
    /\ dims \in [Modes -> 1..MaxModeLen]
    /\ nnz \in 0..MaxNnz
    /\ who = << >>
    /\ grid = << >>
    /\ blocking = << >>

(* distributeTensorToVectors (lines 91-98): rank 0's nonzeros are cut into *)
(* one contiguous slice per rank.                                          *)
Distribute ==
    /\ who = << >>
    /\ who' = SingleDimMediumGrainBlocking(nnz, nranks)
    /\ UNCHANGED << nranks, dims, nnz, grid, blocking >>

(* ProcessorMap constructor (lines 350-359): rank 0 computes the grid and *)
(* broadcasts it; every rank then holds the same dimension_sizes_.        *)
BuildProcessorMap ==
    /\ grid = << >>
    /\ grid' = CartGrid(nranks, dims)
    /\ UNCHANGED << nranks, dims, nnz, who, blocking >>

(* generateMediumGrainBlocking(ModeLengths, ProcGridSizes) over the grid. *)
BuildBlocking ==
    /\ grid # << >>
    /\ blocking = << >>
    /\ blocking' = GenerateMediumGrainBlocking(dims, grid)
    /\ UNCHANGED << nranks, dims, nnz, who, grid >>

(* Setup is over once all three results are there.                       *)
SetupDone ==
    /\ who # << >>
    /\ blocking # << >>
    /\ UNCHANGED vars

Next == Distribute \/ BuildProcessorMap \/ BuildBlocking \/ SetupDone

Spec == Init /\ [][Next]_vars

-----------------------------------------------------------------------------
(* The results have their shapes: boundaries within the range they cut, *)
(* one grid extent and one blocking per mode.                            *)
TypeOK ==
    /\ nranks \in 1..MaxRanks
    /\ dims \in [Modes -> 1..MaxModeLen]
    /\ nnz \in 0..MaxNnz
    /\ who \in Seq(0..nnz)
    /\ grid = << >> \/ grid \in [Modes -> 1..nranks]
    /\ blocking = << >> \/ blocking \in [Modes -> Seq(0..MaxModeLen)]

(* A balanced partition of 0..len-1 into procs contiguous blocks, as the *)
(* asserts of singleDimMediumGrainBlocking (lines 70-72) and the loop    *)
(* over who_gets_what in distributeTensorToVectors (lines 121-138) need. *)
Balanced(range, len, procs) ==
    /\ Len(range) = procs + 1
    /\ range[1] = 0
    /\ range[procs + 1] = len
    /\ \A k \in 1..procs :
          range[k + 1] - range[k] \in {len \div procs, len \div procs + 1}

(* The grid handed to MPI_Cart_create multiplies out to the number of     *)
(* ranks, so every rank gets a grid position (CartGrid, lines 293-330).   *)
GridCoversAllRanks ==
    grid # << >> => GridProduct(grid) = nranks

(* Every factorisation of nranks into one extent per mode.               *)
Factorizations(n) == {g \in [Modes -> 1..n] : GridProduct(g) = n}

(* The grid CartGrid picks needs no more factor storage than any other   *)
(* grid of the same ranks, as the comment on recurseMinSpaceGrid (lines  *)
(* 291-292) promises.                                                    *)
GridIsOptimal ==
    grid # << >> =>
        \A g \in Factorizations(nranks) :
            NElementsForRank1Factors(grid, dims) <= NElementsForRank1Factors(g, dims)

(* Whenever there are at least as many fibers (nonzeros) as ranks, every *)
(* blocking and the slicing of the nonzeros are balanced partitions.     *)
BlockingBalanced ==
    /\ who # << >> /\ nnz >= nranks => Balanced(who, nnz, nranks)
    /\ blocking # << >> =>
          \A i \in Modes : dims[i] >= grid[i] => Balanced(blocking[i], dims[i], grid[i])

(* Every index of every mode falls in the block blockInThatDim returns,  *)
(* and the owner rankInGridThatOwns computes for any coordinates is a   *)
(* rank of the grid.                                                     *)
OwnerIsBlock ==
    blocking # << >> =>
        /\ \A i \in Modes : \A x \in 0..(dims[i] - 1) :
              LET b == BlockInThatDim(x, blocking[i])
              IN blocking[i][b + 1] <= x /\ x < blocking[i][b + 2]
        /\ \A coo \in [Modes -> 0..(MaxModeLen - 1)] :
              (\A i \in Modes : coo[i] < dims[i]) =>
                  RankInGridThatOwns(coo, grid, blocking) \in 0..(nranks - 1)

=============================================================================
