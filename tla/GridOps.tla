------------------------------ MODULE GridOps ------------------------------
(***************************************************************************)
(* The pure helpers of the processor grid and of the medium-grain         *)
(* blocking, translated one operator per C++ function:                    *)
(*                                                                         *)
(*  - src/src/rol/Genten_CP_Opt_Rol.cpp, lines 241-346 (anonymous         *)
(*    namespace of the ProcessorMap): divisors, nelementsForRank1Factors, *)
(*    recurseMinSpaceGrid, minFactorSpaceGrid and CartGrid;               *)
(*  - src/src/Genten_TensorBlockSystem.cpp: singleDimMediumGrainBlocking, *)
(*    generateMediumGrainBlocking, blockInThatDim, rankInGridThatOwns.    *)
(*                                                                         *)
(* C++ sequences are 0-based, TLA+ sequences 1-based: range[k] of the     *)
(* code is range[k + 1] here.  The loops and the recursive search are     *)
(* RECURSIVE operators, so the modules using these helpers are checked by *)
(* TLC only.                                                              *)
(***************************************************************************)
EXTENDS Integers, Sequences, SequencesExt, Functions, TLC

(* std::accumulate(grid, 1ll, multiplies): the number of ranks of a grid. *)
GridProduct(grid) == FoldFunction(LAMBDA x, y : x * y, 1, grid)

(* int sroot = std::sqrt(input): the square root truncated to an int.     *)
ISqrt(n) == CHOOSE r \in 0..n : r * r <= n /\ (r + 1) * (r + 1) > n

(* divisors(input) without the test input % i = 0.                       *)
DivisorsNoModCheck(input) ==
    LET sroot == ISqrt(input)
        pushed(i) == IF i # sroot THEN << i, input \div i >> ELSE << i >>
    IN SortSeq(<< input >> \o FlattenSeq([i \in 1..sroot |-> pushed(i)]),
               LAMBDA a, b : a < b)

(* divisors(input): starts from {input}, pushes every i <= sroot that     *)
(* divides input and, unless i = sroot, its cofactor input / i; sorted.   *)
Divisors(input) ==
    LET sroot == ISqrt(input)
        pushed(i) == IF input % i # 0 THEN << >>
                     ELSE IF i # sroot THEN << i, input \div i >> ELSE << i >>
    IN SortSeq(<< input >> \o FlattenSeq([i \in 1..sroot |-> pushed(i)]),
               LAMBDA a, b : a < b)

(* nelementsForRank1Factors: factor matrix i is replicated on the         *)
(* nprocs / grid[i] ranks outside its fiber.                              *)
NElementsForRank1Factors(grid, tensor_dims) ==
    LET nprocs == GridProduct(grid)
    IN FoldFunction(LAMBDA x, y : x + y, 0,
                    [i \in DOMAIN grid |-> (nprocs \div grid[i]) * tensor_dims[i]])

(* std::numeric_limits<int64_t>::max() as the initial min_storage; no     *)
(* storage of the enumerated inputs comes near it.                        *)
StorageSentinel == 2^30

(* recurseMinSpaceGrid(nprocs, grid, tensor_dims, dims_remaining): the    *)
(* last position takes the remaining ranks; otherwise every divisor d is  *)
(* tried at the current position on the copy `test` (kept from one d to  *)
(* the next), the later positions are filled recursively, and grid takes  *)
(* test whenever its storage is strictly smaller than the best so far.    *)
(* TryDivisors is the for loop over divs from its k-th element on.        *)
RECURSIVE RecurseMinSpaceGrid(_, _, _, _), TryDivisors(_, _, _, _, _, _, _, _)
TryDivisors(nprocs, divs, k, test, grid, min_storage, tensor_dims, dims_remaining) ==
    IF k > Len(divs) THEN grid
    ELSE LET current_index == Len(grid) - dims_remaining + 1
             next_test == RecurseMinSpaceGrid(nprocs \div divs[k],
                              [test EXCEPT ![current_index] = divs[k]],
                              tensor_dims, dims_remaining - 1)
             test_storage == NElementsForRank1Factors(next_test, tensor_dims)
         IN IF test_storage < min_storage
            THEN TryDivisors(nprocs, divs, k + 1, next_test, next_test,
                             test_storage, tensor_dims, dims_remaining)
            ELSE TryDivisors(nprocs, divs, k + 1, next_test, grid,
                             min_storage, tensor_dims, dims_remaining)

RecurseMinSpaceGrid(nprocs, grid, tensor_dims, dims_remaining) ==
    IF dims_remaining = 1
    THEN [grid EXCEPT ![Len(grid)] = nprocs]
    ELSE TryDivisors(nprocs, Divisors(nprocs), 1, grid, grid, StorageSentinel,
                     tensor_dims, dims_remaining)

(* CartGrid(nprocs, dims, MinFactorSpace) = minFactorSpaceGrid: the       *)
(* search started from a grid of zeros (minAllReduceComm is the same).    *)
CartGrid(nprocs, tensor_dims) ==
    RecurseMinSpaceGrid(nprocs, [i \in DOMAIN tensor_dims |-> 0], tensor_dims,
                        Len(tensor_dims))

(* singleDimMediumGrainBlocking with the Remainder never decremented.     *)
RECURSIVE GrowRangeNoDecrement(_, _, _, _)
GrowRangeNoDecrement(range, remainder, fibers, len) ==
    IF Last(range) >= len THEN range
    ELSE IF remainder > 0
         THEN GrowRangeNoDecrement(Append(range, Last(range) + fibers + 1),
                                   remainder, fibers, len)
         ELSE GrowRangeNoDecrement(Append(range, Last(range) + fibers),
                                   remainder, fibers, len)

SingleDimBlockingNoDecrement(ModeLength, ProcsInMode) ==
    LET FibersPerBlock == ModeLength \div ProcsInMode
        start == IF FibersPerBlock = 0 THEN << 0, ModeLength >> ELSE << 0 >>
    IN GrowRangeNoDecrement(start, ModeLength % ProcsInMode, FibersPerBlock,
                            ModeLength)

(* The while loop of singleDimMediumGrainBlocking: append the next block  *)
(* boundary, one fiber larger while Remainder fibers are left over.       *)
RECURSIVE GrowRange(_, _, _, _)
GrowRange(range, remainder, fibers, len) ==
    IF Last(range) >= len THEN range
    ELSE IF remainder > 0
         THEN GrowRange(Append(range, Last(range) + fibers + 1),
                        remainder - 1, fibers, len)
         ELSE GrowRange(Append(range, Last(range) + fibers),
                        remainder, fibers, len)

(* singleDimMediumGrainBlocking(ModeLength, ProcsInMode): the block       *)
(* boundaries, starting at 0; with fewer fibers than ranks, one block.    *)
SingleDimMediumGrainBlocking(ModeLength, ProcsInMode) ==
    LET FibersPerBlock == ModeLength \div ProcsInMode
        start == IF FibersPerBlock = 0 THEN << 0, ModeLength >> ELSE << 0 >>
    IN GrowRange(start, ModeLength % ProcsInMode, FibersPerBlock, ModeLength)

(* generateMediumGrainBlocking: one blocking per mode over its grid size. *)
GenerateMediumGrainBlocking(ModeLengths, ProcGridSizes) ==
    [i \in DOMAIN ModeLengths |->
        SingleDimMediumGrainBlocking(ModeLengths[i], ProcGridSizes[i])]

(* blockInThatDim with the loop test element > range[guess+1].           *)
RECURSIVE ScanBlocksStrict(_, _, _)
ScanBlocksStrict(element, range, guess) ==
    IF element > range[guess + 2] THEN ScanBlocksStrict(element, range, guess + 1)
    ELSE guess

BlockInThatDimStrict(element, range) == ScanBlocksStrict(element, range, 0)

(* The loop of blockInThatDim (0-based block_guess; range is 1-based).    *)
RECURSIVE ScanBlocks(_, _, _)
ScanBlocks(element, range, guess) ==
    IF element >= range[guess + 2] THEN ScanBlocks(element, range, guess + 1)
    ELSE guess

(* blockInThatDim(element, range): the 0-based block holding element.    *)
BlockInThatDim(element, range) == ScanBlocks(element, range, 0)

(* rankInGridThatOwns: the grid position of a nonzero's coordinates,      *)
(* turned into a rank by MPI_Cart_rank (row-major, last mode fastest).    *)
RankInGridThatOwns(COO, grid, ElementRanges) ==
    LET GridPos == [i \in DOMAIN COO |-> BlockInThatDim(COO[i], ElementRanges[i])]
        stride(i) == GridProduct([j \in (i + 1)..Len(grid) |-> grid[j]])
    IN FoldFunction(LAMBDA x, y : x + y, 0,
                    [i \in DOMAIN GridPos |-> GridPos[i] * stride(i)])

=============================================================================
