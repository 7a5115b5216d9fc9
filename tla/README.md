# TLA+ verification of GenTen's distributed GCP-SGD

This directory holds TLA+ models of parts of GenTen, the TLC configurations that
check them, and TLAPS proofs about them. The sources sit under `../src`. The
distributed solver `DistGCP` sits in `src/unnamed/part_002`. The process grid
(`Genten_Pmap.cpp`) is the second half of `src/src/rol/Genten_CP_Opt_Rol.cpp`.

## 1. The system

GenTen computes generalized CP (GCP) tensor decompositions. The part with
protocol-like behaviour is `DistGCP`, the MPI solver. It has these components:

| component | state | operations | interacts with |
|---|---|---|---|
| ProcessorMap (`Genten_Pmap.cpp`) | Cartesian grid, coordinates, one sub-communicator per mode | `divisors`, grid search, `MPI_Cart_sub`, `gridAllReduce`, `gridBarrier` | every collective of DistGCP |
| TensorBlockSystem | blocking of each mode, nonzeros per rank | `singleDimMediumGrainBlocking`, `distributeTensorToVectors`, `redistributeTensor` (one-sided Put) | gives each rank its local tensor |
| DistGCP setup | replicated factors `Kfac_` | `init_factors`, `allReduceKT`, `setAlgParams` | sampler, stepper |
| DistGCP epoch driver | `u`, `u_best`, `meta_u`, `fest`, `fest_prev`, `fest_best`, `e`, `i` | `allReduceTrad`, `fedOpt` | sampler (gradient), stepper, annealer, `allReduceKT` |
| DistGCP export | `Kfac_` | `exportKTensor` (Gatherv to rank 0) | reads what the driver leaves |
| AlgParams::fixup | kernel strategy fields | defaulting of `mttkrp_method`, `mttkrp_all_method` | chooses the accumulation kernels |
| SemiStratifiedSampler | sample counts, weights, sampled tensors | constructor defaults, `initialize`, `sampleTensorF/G`, `fusedGradient` | gradient kernels |
| Streaming SS gradient kernels | the gradient `G`, shared by threads | ScatterView (Single, Atomic, Duplicated) or atomic kernels | fixup picks the strategy |
| Async (hogwild) iteration | `u`, shared by threads | `gcp_sgd_iter_async_kernel`, `eval_async` | stepper |

How they interact in one run:

1. The ranks build the grid.
2. Each rank gets its block of nonzeros.
3. Each rank initialises the factors locally. One `allReduceKT` makes the
   replicas agree.
4. Then `compute()` runs one of the epoch loops.
5. In every epoch each rank computes a sampled gradient on its block. The
   gradients, or the parameters under fedOpt, are all-reduced over the
   sub-communicators. The fit estimate `fest` is all-reduced over the whole
   grid, and each rank accepts or rejects the epoch on that value.

### What is hard, and what makes each part correct

- **Epoch driver.** Rollback and best-snapshot bookkeeping are spread over many
  epochs and several variables: `u`, `u_best`, `meta_u`, `fest_prev`,
  `fest_best`, `Kfac_`.
  - A rejected epoch must be undone for good.
  - `u_best` must be the vector that `fest_best` was measured on.
  - What is exported and returned must belong together.
  - These break only after particular sequences of accepts and rejects, and
    unit tests rarely build those sequences.
- **Collectives.** Every rank must call the same sequence of collectives on the
  same communicators. `allReduceKT` skips a mode when its sub-communicator
  has size 1, and fedOpt returns early on NaN. The replicas must be equal
  whenever `fest` is evaluated.
- **Blocking and grid.** These are integer edge cases: fewer nonzeros than
  ranks, a missing divisor, `int` truncation of a `uint64` count.
- **Kernels.**
  - Non-atomic accumulation is safe only with one thread.
  - `fixup` must never pick it otherwise.
  - The hogwild kernel races by design.

Every component is listed in `PROJECT.json` under "components", with its
status. Every hazard is listed under "hazards", at its source line.

## 2. Modules

| module | models | source |
|---|---|---|
| `DistGCPDriver` | the epoch loops of `allReduceTrad` and `fedOpt`, at grid level | `part_002` 219–255, 392–782 |
| `BestSnapshotLoop` | the abstract promise of the epoch loop: train, keep (new best only when strictly lower), roll back to the best snapshot, abort on NaN, return with the best snapshot exported or the factors untouched | — (implemented by `DistGCPDriver`) |
| `MC_DistGCPDriver` | model values a `.cfg` cannot write (negative fits) | — |
| `MC_GradAccumulation` | the nonzero subscripts of the `grad_accum` run | — |
| `DistGCPDriver_proofs` | TLAPS proofs about `DistGCPDriver`, and its refinement of `BestSnapshotLoop` | — |
| `GridOps` | the pure helpers of the grid and the blocking, one operator per C++ function | `Genten_CP_Opt_Rol.cpp` 241–346; `Genten_TensorBlockSystem.cpp` 46–89, 148–178 |
| `ProcessorGrid` | the three setup calls (grid, blocking, nonzero slicing) over all small inputs | `Genten_CP_Opt_Rol.cpp` 350–360; `Genten_TensorBlockSystem.cpp` 83–98 |
| `Redistribute` | `distributeTensorToVectors` and `redistributeTensor`, rank by rank | `Genten_TensorBlockSystem.cpp` 91–145, 181–240 |
| `DistSetup` | the `DistGCP` constructor, `init_factors` and `allReduceKT` after the redistribution, over ProcessorMap's sub-communicators; `setAlgParams` and the sampler's construction | `part_002` 138–217, 258–390; `Genten_CP_Opt_Rol.cpp` 374–388; `Genten_GCP_SemiStratifiedSampler.hpp` 62–135 |
| `MC_Redistribute` | the grids, tensor shapes and nonzeros of the `Redistribute` and `DistSetup` runs | — |
| `AlgParamsFixup` | `AlgParams::fixup` and the dispatch of the fused kernel on its result, as pure operators | `Genten_AlgParams.hpp` 207–306; `Genten_GCP_SS_Grad_Streaming_Def.hpp` 572–597 |
| `GradAccumulation` | `fixup`, `gradient()` and the threads of the fused semi-stratified gradient kernels (ScatterView and Cuda atomic); the asynchronous (Hogwild) iterator | `Genten_GCP_SemiStratifiedSampler.hpp` 234–264, 496; `Genten_GCP_SS_Grad_Streaming_Def.hpp` 113–298, 338–480; `part_003` 79–237 |
| `GradAccumulation_proofs` | TLAPS proofs of `DispatchAccepts` and of `GradientExact` for the Atomic and NonAtomic kernels | — |
| `KtensorOps` | the `KtensorT` member functions normalize, distribute(i), arrange, entry, hasNonFinite, normFsq, and `compute_Ktensor_value`, over exact rationals | `part_002` 912–926, 1088–1477; `Genten_Ktensor.hpp` 332–425 |
| `MC_KtensorOps` | the factor sizes and the negative entries of the `ktensor_ops` run | — |

### DistGCPDriver: state and actions

Every branch of both loops reads only values that are the same on all ranks:
the all-reduced `fest`, `e`, `i` and the options. So every rank takes the same
path. The module therefore describes the loop once for the whole grid. Keeping
the replicas equal is the job of the collectives; `DistSetup` models the
first of them, the all-reduce of the initial factors.

**Data abstraction.** A parameter vector (`u`, `u_best`, `meta_u`, `Kfac_`) is a
record with two fields:

- `hist`: the set of epochs whose gradient steps it carries;
- `fit`: its evaluated fit, or `None` when it has changed since it was last
  evaluated.

`gcp_value` on the fixed sample `X_val` is a function of the parameters. So an
evaluated vector keeps its fit, and a fresh vector may get any fit in
`LossVals ∪ {NaN}`. The learning rate (annealer, `setStep`, `setPassed` and
`setFailed` of the steppers) only changes numbers. It is covered by this
nondeterministic choice of fits.

**Tolerance.** The literal `0.001` is kept exactly by scaling with
`Tol = 1000` over integer fits.

**NaN.** Floating-point comparisons with NaN are false (`Lt`, `EpochPasses`).

**Method.** `compute()` reads the `dist_update_method` option (lines
220–256) and runs one loop. The variable `method` is chosen in `Init` from
the constant set `Methods` and never changes, so one run covers both loops.

| action | code |
|---|---|
| `Init` | the method `compute()` picks; setup of `u`, `u_best`, `meta_u`, `X_val`, `fest = fest_best = fest_prev` (fedOpt 392–462; allReduceTrad 615–664 is the same) |
| `TradIter` | one inner iteration of allReduceTrad: update, gradient, `allReduceKT(GFac)`, `eval` (681–695) |
| `FedIter` | one inner iteration of fedOpt without a meta step, or with `fedavg` (470–493) |
| `FedMetaIter` | a sync iteration of fedOpt without `fedavg`: diff, all-reduce, Adam meta step, `u.set(meta_u)` (494–506) |
| `Accept` | `fest_diff > -0.001*fest_best`: `fest_prev = fest`, and a new best if `fest < fest_best` (763–770, 577–585) |
| `Reject` | otherwise: `u.set(u_best)` (771–776, 586–592) |
| `NaNAbort` | fedOpt's `isnan(fest)`, which returns `fest_best` (508–541) |
| `Finish` | after the loop. allReduceTrad does `u.set(u_best)`, `deep_copy(Kfac_, ut)`, `return fest_prev`; fedOpt only does `return fest_prev` (777–782, 595) |
| `Terminated` | `compute()` has returned (240–255) |

The history variables `rejected` and `accepted` are not in the code. They
record the fit of each rejected epoch and the set of accepted fits, so that
the properties can be stated.

### Properties

| property | statement |
|---|---|
| `TypeOK` | the variables have their types |
| `NoRejectedProgress` | `u` never carries the steps of a rejected epoch |
| `BestIsMinimum` | `u_best.fit = fest_best`, and `fest_best` is the least accepted fit |
| `ImprovementNeverRejected` | no epoch whose fit beat `fest_best` was rejected |
| `RollbackKept` | `NoRejectedProgress` whenever the method is allReduceTrad, or fedOpt with `fedavg` |
| `FinalIsBest` | once `compute()` has returned, `Kfac_ = u_best` |
| `ReturnedFitMatchesFactors` | the returned fit is the fit of `Kfac_` |
| `BestSnapshotRefined` | `DistGCPDriver` implements `BestSnapshotLoop` |

`BestSnapshotRefined` is `Abstract!ASpec`, where `Abstract` is
`INSTANCE BestSnapshotLoop WITH work <- u, best <- uBest, bestFit <- festBest,
out <- kfac, running <- (pc = "run")`. The epoch and iteration counters,
`meta_u`, `fest_prev`, the returned value and the histories are hidden. The
mapping is action by action:

- `TradIter`, `FedIter` and `FedMetaIter` are `ATrain` (epochs are only
  added to the working vector, which is not evaluated yet);
- `Accept` is `AKeep`;
- `Reject` is `ARollback`;
- `NaNAbort` is `AAbort`;
- `Finish` is `AReturn`: allReduceTrad restores and exports `u_best`, and
  fedOpt leaves `u` and `Kfac_` alone.

`ARollback` does not say that the rejected fit was no improvement. The
concrete state keeps no value the rejected fit could be mapped to, so that
claim is the invariant `ImprovementNeverRejected`, which needs nonnegative
losses.

### GridOps and ProcessorGrid

`GridOps` translates each helper into an operator of the same name:

- `Divisors(n)` is `divisors`. It starts from `<<n>>`. For each `i <= ISqrt(n)`
  that divides `n` it appends `i`, and `n \div i` unless `i = sroot`. Then it
  sorts.
- `RecurseMinSpaceGrid` and `TryDivisors` are `recurseMinSpaceGrid` and its
  for loop. The copy `test` is carried from one divisor to the next, as in
  the code. `grid` takes it only on a strictly smaller storage.
- `CartGrid` is `minFactorSpaceGrid`, started from a grid of zeros.
- `SingleDimMediumGrainBlocking` and `GrowRange` are the function and its
  while loop. This includes the early `<<0, ModeLength>>` when there are
  fewer fibers than ranks.
- `BlockInThatDim` and `ScanBlocks` are `blockInThatDim`. C++ index `k` is
  TLA+ index `k + 1`.
- `RankInGridThatOwns` is the row-major rank `MPI_Cart_rank` gives.

These are RECURSIVE operators, so no module that uses them holds theorems.

`ProcessorGrid` enumerates every input in `Init`:

- `nranks` in `1..8`;
- mode lengths in `[1..3 -> 1..3]`;
- `nnz` in `0..9`.

It applies three actions in any order:

- `Distribute`: `who_gets_what` of `distributeTensorToVectors`;
- `BuildProcessorMap`: rank 0's `CartGrid`, broadcast;
- `BuildBlocking`: `generateMediumGrainBlocking` over that grid.

Its properties:

- `GridCoversAllRanks`: the grid multiplies out to the ranks.
- `BlockingBalanced`: each blocking is a partition into contiguous blocks
  whose sizes differ by at most one. This applies where there are at least as
  many fibers as ranks.
- `OwnerIsBlock`: the owner lookup returns the block that contains the index,
  and a rank of the grid.
- `GridIsOptimal` (violated): the grid needs no more storage than any other
  factorisation. This is checked against the reference set `Factorizations`.

The same input also fails the assert at line 71 of
`Genten_TensorBlockSystem.cpp`: `<1,3,2>` fits every mode, but the chosen
`<1,2,3>` puts 3 ranks on a mode of length 2. This is recorded with the
`grid_optimal` finding.

### Redistribute: state and actions

Each rank has:

- a `pc`;
- its `Tvec` (`tvec`);
- `elems_to_write` (`toWrite`);
- `offset_to_write_at` (`offset`);
- `amount_to_allocate_for_window` (`winSize`);
- a put counter (`putIdx`);
- its output (`out`).

`window[t]` is the set of `<<slot, element, origin>>` writes that landed in
rank `t`'s window. `msgs` holds the `MPI_Isend` messages in flight. `file` is
the order in which rank 0 read the nonzeros; `Init` ranges over every order.

| action | code | ranks |
|---|---|---|
| `ReadAndSend` | 100–131: read, `MPI_Isend` of `[who[i-1], who[i])` to rank `i` | 0 |
| `KeepOwnSlice` | 132–136: `MPI_Waitall`, erase all but `[0, who[1])` | 0 |
| `Recv(r)` | 137–142: `MPI_Recv` of `who[r] - who[r-1]` elements | r ≥ 1 |
| `Bucket(r)` | 189–198: owner of each element by `rankInGridThatOwns` | each |
| `Exscan` | 200–202: exclusive prefix sum; rank 0 keeps its zeros | all together |
| `OpenWindow` | 204–218: `MPI_Reduce_scatter_block`, `MPI_Win_allocate`, first fence | all together |
| `Put(r)` | 219–229: one `MPI_Put` per target, in loop order | each, interleaved |
| `CloseEpoch` | 230: second fence once every rank has issued its puts | all together |
| `Copy(r)` | 232–239: copy the window out | each |

A collective blocks until all ranks reach it, so it is one step taken when
every `pc` is at it.

An unwritten slot holds uninitialised memory, modelled as the model value
`Garbage`. A slot written twice may hold either value. `out` therefore keeps,
for each slot, the set of values the copy may have read.

Properties:

- `PutsDisjoint`: every put lands inside its window and on a slot no other
  put wrote.
- `RedistributionComplete`: each rank ends with exactly the nonzeros it owns,
  where ownership is by the reference `OwnerRef`. It holds each of them as
  many times as the ranks held it before the call, and no slot is garbage.
- `DistributionLossless` (violated): after `distributeTensorToVectors`, every
  nonzero is held by exactly one rank.

### DistSetup: state and actions

`DistSetup` extends `Redistribute`. Once a rank has copied its window out it
runs the rest of the `DistGCP` constructor. Each rank has an `ipc`
(`"wait"`, `"ar"`, `"ready"`), the mode `arIdx` of `allReduceKT`'s loop, and
per mode a factor block `fac[r][i]`. A block is abstracted to the set of
ranks whose random numbers it sums, and a flag saying it is infinite.
`MPI_SUM` is then the union of the sets and the disjunction of the flags;
dividing by a grid size changes neither.

| action | code |
|---|---|
| `InitFactors(r)` | 165–181: own random factors, weights times `1/norm_x` of the local tensor (infinite when it has no nonzero), `distribute()` |
| `SkipMode(r)` | 196–199: a sub-communicator of one rank is skipped |
| `AllReduce(grp, i)` | 201–208: `MPI_Allreduce` over `subComm(i)`, once every rank of it is there |
| `DivideByGridSize(r)` | 211–216: every factor times `1/gridSizes[d]` |
| `SetAlgParams` | `setAlgParams` (258–390) on all ranks: local counts `min(lnz, batch / np)`, the global batch by `gridAllReduce`, `epoch_iters = gnz / batch` (a division by zero ends every rank in `"crashed"`) |
| `SamplerInit(r)` | the `SemiStratifiedSampler` constructor and `initialize` (sampler file 62–135): every count left at 0 gets its default; the weights and the sort or hash of the local tensor are left out |
| `SetupDone` | every rank has built its sampler, or all have crashed |

`InitFactors` is built from three Ktensor helpers of `part_002`. A Ktensor
is a weights flag (non-finite weights) and one block per mode.
`NewKtensor` is the constructor with unit weights (920–941).
`SetMatricesScatter` fills every block with the rank's own random numbers
(962–974). `Distribute` folds the weights into every factor and resets
them (1233–1248). A non-finite weight therefore makes every factor
non-finite.

`SubComm(r, i)` is ProcessorMap's `MPI_Cart_sub` with `dim_filter[i] = 0`:
the ranks that share `r`'s coordinate in mode `i`, which are the ranks
holding the same rows of factor `i`.

Properties:

- `FactorsReplicated`: once a rank is ready, its factor of every mode sums
  exactly the initial factors of the ranks sharing those rows. So all
  replicas agree, and none is counted twice or left out.
- `InitFactorsFinite` (violated): no ready rank's initial factors are
  infinite. A rank with an empty block has `norm_x = 0`, and the all-reduce
  spreads the infinity to every rank sharing its rows.

### AlgParamsFixup and GradAccumulation

`fixup` runs once before the solver. It fills in `mttkrp_method` and
`mttkrp_all_method` when they are `Default`, then corrects choices that are
invalid on Cuda. Its inputs are a record: concurrency, Cuda or not, fast
atomics (`cuda_arch() >= 600 || sizeof(ttb_real) == 4`), solver, sampling,
`fuse` and the user's two methods. `KernelFor` is the dispatch of
`gcp_sgd_ss_grad`: on a host space Single, Atomic and Duplicated pick the
ScatterView template arguments and Iterated calls `Genten::error`; on Cuda
only Atomic is accepted.

`GradAccumulation` runs one gradient evaluation of the fused path:

| action | code |
|---|---|
| `DoFixup` | `algParams.fixup<ExecSpace>(out)` in `driver` (line 496) |
| `Gradient` | `gradient()`: `g.zero()`, new ScatterViews, `run()` dispatch or error |
| `StartSample(t)` | in the nonzero kernel a free thread takes the next team and draws the subscripts of a nonzero from `NzIndices` (lines 125–143) |
| `StartZeroSample(t)` | in the zero kernel a free thread takes the next team and draws any subscripts (lines 209–227) |
| `StartAtomicSample(t)`, `StartAtomicZeroSample(t)` | the same in `gcp_sgd_ss_grad_atomic_kernel`, the kernel of Atomic on Cuda (lines 338–397, 439–480) |
| `Load(t)`, `Store(t)` | `ga(k,j) += tmp` without atomics: into `G`, or into the thread's duplicate |
| `AtomicAdd(t)` | `ScatterAtomic` access, or `Kokkos::atomic_add` in the Cuda kernel (lines 399–432) |
| `EndKernel` | a `parallel_for` returns: nonzero kernel, then zero kernel |
| `Contribute` | `contribute_into`: the duplicates are summed into `G` |
| `AsyncRun` | `GCP_SGD_Iter_Async::run` (`part_003` 189–237): an SGD or AdaGrad stepper runs the kernel, any other ends in `Genten::error` |
| `AsyncSample(t)` | a thread takes one of the `N * RowsPerTeam` samples of the async kernel and draws a nonzero or a zero sample (96–136) |
| `AsyncEval(t)` | one `stepper.eval_async` per mode into `u` (138–183) |
| `AsyncEnd` | the async `parallel_for` returns |

Each add adds 1, and a ghost `issued` counts the adds each cell was given.
So `G = issued` means no add was lost. A data race on `+=` is modelled as
the load and the store being separate steps; the outcomes are those of the
interleavings.

Properties:

- `GradientExact`: after `contribute_into`, `G = issued`.
- `DispatchAccepts`: the dispatch fails only when the user asked for Iterated
  on a host space.
The async path (`params.async`) takes the place of `gradient()` and the
step: it builds no gradient. The values written into `u`, and so the races
of the Hogwild updates, are outside the model; the hazards list them. An
async epoch runs `N = ceil(num_samples / RowsPerTeam)` whole teams with no
`idx >= num_samples` test, so it draws up to `RowsPerTeam - 1` samples more
than `num_samples`. The model does the same, and no property of a passing
run claims otherwise.

The atomic kernel differs from the ScatterView kernel in three places that
the model, whose adds all count 1 and whose `modes` is every mode, does not
tell apart; they are recorded as a hazard: the Mprev term multiplies by `M`
where the ScatterView kernel uses `Mt` (lines 413 and 496 against 181 and
268), and the zero kernel loops `n < nd` over `modes[n]` and `m < d` over the
factors (lines 486 and 502).

Two divergences are recorded as hazards and not as runs. First, a user's
explicit `mttkrp_all_method` Single is kept by fixup on a multi-threaded host
(lines 271–303 correct it only on Cuda), and the non-atomic kernel then
loses adds; the `KernelForNoDup` mutant shows `GradientExact` catching that
accumulation. Second, The comment at line
240 says "Always use Single if there is only a single thread". But the
assignment at lines 241–242 is followed by an if/else chain that assigns in
every branch, so one host thread gets Duplicated for GCP-SGD. The sums are
still right, at the cost of memory and a reduction. `DefaultAllMethod` models
this as it is.

### KtensorOps: one Ktensor and its member functions

A real is an exact rational `<<num, den>>` in lowest terms, with `den = 0`
for the non-finite values (`<<1,0>>`, `<<-1,0>>` and NaN `<<0,0>>`), so
`x/0`, `0/0` and `0*inf` come out as IEEE arithmetic gives them. Sums are
`FoldFunction` over the community `Functions` module. Exact arithmetic is
what lets `TensorPreserved` and `NormFsqExact` be equalities: rounding is
not modelled. The 2-norm is irrational and `distribute()` takes an nd-th
root, so `NormTwo` and `distribute()` are left out; `distribute(i)` is in.

The state is the Ktensor `k` (`lambda` and `data`, a factor stored by
rows), the tensor `full` it stood for when built, the (norm type, mode)
pairs normalized since, and whether `arrange()` ran last.

| action | code (`part_002`) |
|---|---|
| `Init` | `KtensorT(nc, nd, sz)` sets every weight to 1 (912–926); the factors get any entries from `Vals` |
| `Distribute1` | `distribute(i)`: the weights scale factor i, then become 1 (1249–1255) |
| `Normalize1` | `normalize(type, i)`: column norms of factor i, a zero norm replaced by 1, columns divided, weights multiplied (1257–1326) |
| `NormalizeAll` | `normalize(type)`: every mode in turn (1328–1336), as `exportKTensor` calls it |
| `Arrange` | `arrange()`: the permutation sorting the weights non-increasing, ties in any order since `std::sort` is not stable (1345–1365) |
| `ArrangeWith` | `arrange(p)` with any permutation (1367–1383) |

`entry`, `normFsq`, `hasNonFinite` and the blocked and flat
`compute_Ktensor_value` of `Genten_Ktensor.hpp` are operators, and so are
two pieces of `Genten_Tensor.cpp` and `Genten_Util.cpp`:

- `CopyFromKtensor(kt, cuda)` is `TensorT(const KtensorT&)` with
  `copyFromKtensor` (`Genten_Tensor.cpp` 35–116): `numel()` is the product
  of the factors' row counts, `values` is allocated without initialisation,
  and thread `team_rank` of team `league_rank` writes entry
  `league_rank * TeamSize + team_rank` when it is below `numel()`, with
  `TeamSize = (256 + nc - 1) / nc` on Cuda and 1 on a host, over
  `N = (numel + TeamSize - 1) / TeamSize` teams. `ind2sub` is not in the
  sources and is taken first-mode-fastest.
- `IsEqualToTol(d1, d2, tol)` is `isEqualToTol` (`Genten_Util.cpp` 55–79),
  the test `isEqual` applies to every weight and factor entry.

Properties about them, checked on every reachable Ktensor:

- `IsEqualDocumented`: on the Ktensor's values, the infinities and NaN,
  and tolerances 1/4, 1/2 and 1, `isEqualToTol` is the formula the header of
  `KtensorT::isEqual` documents, `|a - b| / max(1, |a|, |b|) < TOL`. The
  branches of the code pick the same denominator; a reversed magnitude test
  (`IsEqualToTolMin`) does not. Two equal infinite values compare unequal
  under both (the difference is NaN), which the hazards record. The
FacMatrixT helpers (`colNorms`, `colScale`, `rowTimes`, `permute`,
`gramian`) are not in the sources and are written from their documented
meaning. The setters (`setWeights`, `setMatrices`, the random ones) and the
checks `isConsistent` and `isNonnegative` are left out: the setters
only replace data, and with them the weights grow without bound under
repeated normalize.

## 3. Runs and what they show

All runs use `MaxEpochs = 3` and `EpochIters = 2`. Fits come from four values
around 2000. With `Tol = 1000` these values make every interesting case
happen:

- a small accepted regression (2000 → 2001);
- a rejection (→ 2003);
- an improvement (→ 1999);
- NaN.

Three epochs are enough for the longest pattern the properties need:
accept a regression, then reject, then sync or finish.

| run | expect | shows |
|---|---|---|
| `epoch_loop` | pass | with either method (fedOpt with a meta step every 2 iterations) and nonnegative fits: `TypeOK`, `BestIsMinimum`, `ImprovementNeverRejected`, `BestSnapshotRefined`, and for allReduceTrad `RollbackKept` |
| `trad_returned_fit` | violation | allReduceTrad returns `fest_prev` but exports `u_best` |
| `trad_negative_loss` | violation | with negative fits (poisson) an improving epoch is rolled back |
| `fedopt_rollback` | violation | fedOpt's meta step restores progress of a rejected epoch from `meta_u` |
| `fedopt_export` | violation | fedOpt never writes `Kfac_`, so `exportKTensor` exports the initial factors |
| `grid` | pass | over 2160 inputs the grid covers the ranks, blockings are balanced, owners agree with the blocks |
| `grid_optimal` | violation | `divisors(6)` is `[1,2,6,6]`: with 6 ranks and modes `<1,3,2>` the search returns `<1,2,3>` (storage 19), not `<1,3,2>` (18) |
| `dist_setup` | pass | on a 4×1 grid over a 4×2 tensor with 5 nonzeros, in all 120 read orders and all put interleavings, puts never collide, every rank ends with what it owns, after `init_factors` every factor replica sums exactly the ranks sharing its rows, and the sampler uses the counts `setAlgParams` planned |
| `distribute_lossless` | violation | rank 1 receives a copy of rank 0's slice, and the last slice reaches no rank |
| `grad_accum` | pass | for 1 or 2 threads, host or Cuda, fast atomics or not, and every user MTTKRP-All choice but Single, no gradient add is lost and only a host Iterated is rejected |
| `ktensor_ops` | pass | on a 2-mode Ktensor with 2 and 1 rows, 2 components and entries in {-1, 0, 2}, any sequence of normalize (1-norm or max-norm, one mode or all), distribute(i), arrange() and arrange(p) keeps every entry of the tensor exact, and the dense tensor built from it afterwards holds exactly those entries, each once, on a host and on Cuda (`TensorPreserved`); normalized columns stay normalized (`ColumnsNormalized`); `normFsq` equals the sum of squared entries (`NormFsqExact`); the blocked `compute_Ktensor_value` equals `entry` for Len 1, 2 and 4 (`BlockedValueExact`); `isEqualToTol` is the documented relative test (`IsEqualDocumented`) |
| `init_empty_block` | violation | on the 2×2 grid over the 3×2 tensor with block (1,0) empty, rank 2's `norm_x` is 0 and infinite initial factors reach the ranks sharing its rows |

The seven violations are recorded as findings in `PROJECT.json`.

Bounds for the grid runs:

- Rank counts up to 8 include 6 and 8. These are the smallest counts whose
  `sroot` divides them without being their square root, which is where the
  divisor bug shows.
- They also include a perfect square (4) and primes.
- Modes up to 3 long are shorter than many grid extents, which exercises the
  "fewer fibers than ranks" branch.
- Up to 9 nonzeros give every remainder for every rank count.

The gradient runs use two threads, two modes, two rows, two nonzero samples
and one zero sample, with the Mprev add. Two threads are the fewest that
race. Two rows let the samples hit the same row or different rows. Each
sample makes four adds, so both phases and a duplicate per thread are used.

The async part of `grad_accum` uses `EpochIters = 1`, `RowBlock = 2` and
`NComps = 64`: three samples per epoch, a team of one on the host and of two
on Cuda, so the league has two teams on the host and one on Cuda and both
round up to 4 samples. The steppers are SGD and Adam, so both outcomes of
`run()` happen.

The `ktensor_ops` instance has two modes of 2 and 1 rows and two
components, with entries in {-1, 0, 2}: zero columns (the zero-norm guard),
ties and strict orders among the weights, negative entries for the 1-norm
and the max-norm, and a mode of one row. `Len = 4` is longer than `nc`,
`Len = 2` equals it and `Len = 1` splits it, the three cases of the
blocking test `j + Len < nc`.

The `dist_setup` instance has 4 ranks and 5 nonzeros on a 4×1 grid. A
grid with one extent above 1 is the only shape with both a skipped mode
(every rank alone owns its mode-1 rows) and an all-reduce (all four share
the mode-2 rows). It is also the smallest instance with:

- a remainder in the slicing;
- a rank owning two nonzeros;
- puts from several origins into one window.

Its input gives batch sizes of 4 (one sample per rank) and the default
value sizes. Rank 3's block is full, so its zero population is 0. No count
that `setAlgParams` plans is 0 here, so the sampler's "0 means default"
rule never fires; with `batch_size_zero = 0` it replaces the planned count.
That disagreement is a hazard in `PROJECT.json` that no run shows.

Every property of a passing run has a mutant in `PROJECT.json`. A mutant is a
plausible bug in the mapped code that TLC then catches:

- a loop bound `<=`;
- a dropped `u.set(u_best)`;
- a dropped `fest < fest_best` test;
- a flipped sign of the tolerance;
- a missing restore before `deep_copy`;
- a divisor test dropped;
- a remainder not decremented;
- `>` for `>=` in `blockInThatDim`;
- `MPI_Scan` for `MPI_Exscan`;
- the `dim_filter` of the sub-communicators inverted;
- the `idx >= ns_nz` test dropped;
- Duplicated instantiated as a plain ScatterView;
- the forcing of Atomic for the fused kernel on Cuda dropped;
- `lambda.times(norms)` dropped from normalize;
- the zero-norm guard of normalize dropped;
- the `normFsq` inner loop starting on the diagonal;
- the weights not loaded in `compute_Ktensor_value`;
- the league size of `copyFromKtensor` rounded down;
- the magnitude test of `isEqualToTol` reversed.

**Fairness and deadlock.** No specification assumes fairness, and no
property is a liveness property. The loops of the modelled code are bounded
and its threads wait on nothing, so a property that every call ends would
hold whatever the code does.

`GradAccumulation` has no terminal stuttering action. The program really
stops once the gradient is handed on, the async epoch is over or the error
has thrown, so `grad_accum` runs with `CHECK_DEADLOCK FALSE`. The other
specifications end in explicit stuttering actions (`Terminated`,
`SetupDone`, `Finished` of `Redistribute`), so deadlock checking stays on.

In `Redistribute` the deadlock check is the check that the collectives match.
A state in which some rank waits at a collective that another rank never
reaches has no successor, and TLC would report it.

## 4. What is proved

`DistGCPDriver_proofs` proves, for every value of the constants allowed by the
`ASSUME`s of `DistGCPDriver`:

- `TypeCorrect`: `Spec => []TypeOK`, through the lemma `TypeOKStep`.
- `BestSnapshot`: `Spec => []BestIsMinimum`, for both methods.
  `TypeOK /\ BestIsMinimum` is already inductive. The key step: a new best
  `f < fest_best` is below every accepted fit, because those are
  `>= fest_best`.
- `RollbackSound`: `Spec => []RollbackKept`. The lemma `RollbackStep`
  shows, when `method = "trad" \/ FedAvg`, that `RollbackInv` is preserved;
  the theorem's invariant is `TypeOK /\ (method = "trad" \/ FedAvg =>
  RollbackInv)`, since no step changes `method` (lemma `MethodFixed`).
  `RollbackInv` adds three facts:
  - `u_best` carries only epochs `< e`, none of them rejected;
  - `u` carries only epochs `<= e`;
  - no epoch `>= e` is marked rejected.

  So `u.set(u_best)` at epoch `e` drops exactly the rejected epoch. Without
  the hypothesis the theorem is false (run `fedopt_rollback`).
- `ImprovementKept`: `Spec => []ImprovementNeverRejected`, under
  `LossVals \subseteq Nat` (gaussian and bernoulli losses). The invariant
  `ImprovementInv` adds two facts:
  - `fest_prev` and `fest_best` are NaN together;
  - otherwise `fest_best <= fest_prev`.

  A rejected fit is `>= fest_prev + fest_best/1000 >= fest_best`. Without the
  hypothesis the theorem is false (run `trad_negative_loss`).

The initial-state steps rest on `InitFacts` (what an initial state is, with
its existential fit named `u.fit`) and `FitSelf` (a fit is never strictly
below itself).

Each inductive invariant was first checked with TLC as an invariant of the
passing runs.

`GradAccumulation_proofs` proves `DispatchAcceptsCorrect`:
`Spec => []DispatchAccepts` for every number of threads, modes, rows and
samples, and every set of user choices. The lemma `FixupDispatch` is the
fact about the operators: for every parameter set of the fused path,
`KernelFor(p, Fixup(p).am) = "Error"` only for a host run with a user
Iterated. On Cuda the last block of `fixup` forces Atomic. On a host a
Default becomes Duplicated. The inductive invariant `DispatchInv` says that
`params` never changes and that, once past fixup and the dispatch, `method`
and `kernel` are the operators' values of it.

`RowsPerTeam` uses `Pow2Floor(NComps)`, the largest power of two not above
`nc` (`VectorSize`). Its existence for every `nc >= 1` is an induction over
the exponent, which the provers cannot do. It is therefore the assumption
`Pow2FloorAssumption` of `GradAccumulation`, a fact of arithmetic that TLC
evaluates on every run of the module.

Each inductive invariant (`DispatchInv`, `ExactInv`) was first checked with
TLC as an invariant of `grad_accum`.

`GradAccumulation_proofs` proves `NonDuplicatedExact`:
`Spec => [](kernel # "Duplicated" => GradientExact)`, for every number of
threads, rows and samples. Its hypothesis `SingleThreadedNonAtomic` says that
the user "Single" choice is offered only with `MaxConc = 1`. The hypothesis is
needed: with "Single" and two threads, TLC finds two non-atomic
read-modify-writes of one cell that lose an add. The inductive invariant
`ExactInv` adds these facts to `DispatchInv`:

- before the kernel runs, nothing has been issued;
- a thread is between its load and its store only while a sample kernel runs,
  and only under the NonAtomic or Duplicated kernel;
- while the Atomic or NonAtomic kernel runs, `G = issued` after every step.
  An atomic add and a load-store pair change both by the same amount;
- under NonAtomic, `MaxConc = 1`, and a thread about to store holds
  `G` of its cell plus its addend. With one thread nothing can write the
  cell in between.

The lemma `NonAtomicMeansSingle` shows that the dispatch picks NonAtomic only
for a user "Single". `ExactInv` was first checked with TLC as an invariant of
`grad_accum`.

`DistGCPDriver_proofs` proves `BestSnapshotRefinement`:
`Spec => BestSnapshotRefined`, for every method, bound and loss. It is
proved step by step:

- `InitRefines`: the initial guess is an initial state of `BestSnapshotLoop`;
- `NextRefines`: under `TypeOK`, each action is the abstract action listed
  under "DistGCPDriver: state and actions" in section 2, or a stutter
  (`Terminated`). `Accept`'s `Lt` is the abstract `Lower`, and `FitsOf` is
  `Measure`.

`TypeOK` is the only invariant needed, because each concrete step maps to
one abstract step. PTL combines the two lemmas with `TypeCorrect`.

**Left to TLC.** These stay model-checked only:

- **`GradientExact` under the Duplicated kernel, and the `TypeOK` of
  `GradAccumulation`.** Both rest on `contribute_into`'s sum of the
  per-thread duplicates, a fold over a set. Proving them would need
  induction over that fold. The fold lemmas of the community modules take
  the folded operator as a parameter, which the installed provers cannot
  instantiate.
- **The `KtensorOps` properties.** They are stated with folds and sums over
  sets, and `arrange` chooses a permutation.
- **`GridOps`, `ProcessorGrid`, `Redistribute` and `DistSetup`.** They reach
  RECURSIVE operators, which take the SMT backend away from any module that
  uses them.

## 5. Next steps

- A refinement of `DistGCPDriver` by a module with per-rank replicas and the
  per-iteration all-reduces (`INSTANCE DistGCPDriver WITH u <- replica of
  rank 0, ...`), and replica equality.
- `GradientExact` proved for Duplicated, with lemmas on sums over threads.
- Symbolic gradient terms in `GradAccumulation`, to show the atomic
  kernel's `M`/`Mt` and `nd`/`d` differences from the ScatterView kernel.

## 6. Not modelled

- Floating-point numerics of losses, gradients and steppers: abstracted to
  fits.
- The ROL wrapper: an external library.
- `driver()`: sequential dispatch and printing.
- `KtensorT::distribute()` and `NormTwo` (irrational), the setters and the
  checks `isConsistent` and `isNonnegative`; `TensorT(const SptensorT&)`
  (the sparse tensor type is not in the sources), `getGentenVersion`,
  `Genten::error` (a throw, modelled where it is called) and
  `connect_vtune` (a shell command).
- The values of the async kernel's updates of `u`, and so its lost updates.
- `UniformSampler` (`part_001`): DistGCP and the fused path use the
  semi-stratified sampler.
- Build documentation.
