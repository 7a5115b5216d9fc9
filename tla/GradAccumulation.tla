-------------------------- MODULE GradAccumulation --------------------------
(***************************************************************************)
(* The fused semi-stratified gradient kernel of GCP-SGD and the threads   *)
(* that accumulate into the gradient through it.                          *)
(*                                                                         *)
(*  - fixup (AlgParamsFixup) chooses the MTTKRP-All method once, before   *)
(*    the solver starts (driver, Genten_GCP_SemiStratifiedSampler.hpp, line 496). *)
(*  - gradient() (Genten_GCP_SemiStratifiedSampler.hpp, lines 234-264)   *)
(*    zeroes the gradient g and calls gcp_sgd_ss_grad, which dispatches   *)
(*    on the method (KernelFor) and runs gcp_sgd_ss_grad_sv_kernel or the *)
(*    atomic kernel (Genten_GCP_SS_Grad_Streaming_Def.hpp, lines 59-520): *)
(*    one Kokkos::parallel_for over the nonzero samples, then one over the *)
(*    zero samples, then contribute_into of every ScatterView into G.     *)
(*                                                                         *)
(* Each sample (one team of one thread on the host) draws its indices and *)
(* then, for every mode n, adds into row ind[n] of G[n]: `ga(k,j) += tmp` *)
(* and, when Mprev is given, a second `ga(k,j) += tmp`.  The values added *)
(* are abstracted to 1 each, so G counts the adds that reached it; the   *)
(* factor columns j are one block (nc <= FacBlockSize).                  *)
(*                                                                         *)
(* A non-atomic add is a load then a store (a data race between threads  *)
(* resolves to one of the interleavings of the two); an atomic add is one *)
(* step; with ScatterDuplicated each thread adds into its own copy.       *)
(* Teams are taken from a shared counter by whichever thread is free, an *)
(* over-approximation of Kokkos' static schedule.                         *)
(***************************************************************************)
EXTENDS Integers, Functions, AlgParamsFixup

CONSTANTS
    MaxConc,         \* largest concurrency() enumerated
    NModes,          \* number of tensor modes d
    Rows,            \* the rows a drawn index can fall in
    NzSamples,       \* num_samples_nonzeros_grad
    ZSamples,        \* num_samples_zeros_grad
    HaveMprev,       \* have_Mprev: a second add per mode
    UserMethods,     \* mttkrp_method values the user may give
    UserAllMethods,  \* mttkrp_all_method values the user may give
    NzIndices,       \* the subscripts of the tensor's nonzeros
    Asyncs,          \* algParams.async values the user may give
    Steppers,        \* the GCP_SGD_Step classes the solver may pass
    RowBlock,        \* mttkrp_nnz_tile_size, RowBlockSize of the async kernel
    EpochIters,      \* epoch_iters
    NComps           \* ncomponents() of u

ASSUME ConcAssumption == MaxConc \in Nat \ {0}
ASSUME ModesAssumption == NModes \in Nat \ {0}
ASSUME SamplesAssumption == NzSamples \in Nat /\ ZSamples \in Nat
ASSUME UserAssumption ==
    /\ HaveMprev \in BOOLEAN
    /\ UserMethods \subseteq MTTKRPMethods
    /\ UserAllMethods \subseteq MTTKRPAllMethods
    /\ NzIndices \subseteq [1..NModes -> Rows]
    /\ Asyncs \subseteq BOOLEAN
    /\ Steppers \subseteq {"SGD", "AdaGrad", "Adam", "SGDMomentum", "DEMON"}
ASSUME AsyncAssumption ==
    RowBlock \in Nat \ {0} /\ EpochIters \in Nat /\ NComps \in Nat \ {0}

Threads == 1..MaxConc
Modes == 1..NModes
Cells == Modes \X Rows
ZeroGrad == [c \in Cells |-> 0]

(* The parameter sets fixup can be called with on the fused path.         *)
Params ==
    [conc: 1..MaxConc, cuda: BOOLEAN, fast: BOOLEAN, solver: {"GCP_SGD"},
     sampling: {"SemiStratified"}, fuse: {TRUE},
     mm: UserMethods, am: UserAllMethods, async: Asyncs, stepper: Steppers]

VARIABLES
    params,   \* the AlgParams and space properties
    method,   \* algParams after fixup: [mm, am]
    kernel,   \* accumulation chosen by the dispatch
    phase,    \* "fixup", "grad", "nz", "z", "contribute", "done", "error",
              \* or "async", "stepped", "unsupported" on the async path
    G,        \* the gradient Ktensor gt: one counter per (mode, row)
    dup,      \* ScatterDuplicated: each thread's private copy of G
    pc,       \* per thread: "idle", "add" or "store"
    ind,      \* per thread: the row the current sample hits in every mode
    n,        \* per thread: the mode of the add in progress
    second,   \* per thread: the add in progress is the Mprev one
    reg,      \* per thread: the value loaded by a non-atomic add
    next,     \* the next team (sample) of the running parallel_for
    issued    \* ghost: the adds each cell was given

vars == << params, method, kernel, phase, G, dup, pc, ind, n, second, reg,
           next, issued >>

Active == 1..params.conc
NSamples(ph) == IF ph = "nz" THEN NzSamples ELSE ZSamples

Init ==
    /\ params \in Params
    /\ method = [mm |-> "Default", am |-> "Default"]
    /\ kernel = "Error"
    /\ phase = "fixup"
    /\ G = [c \in Cells |-> 1]           \* the previous iteration's gradient
    /\ dup = [t \in Threads |-> ZeroGrad]
    /\ pc = [t \in Threads |-> "idle"]
    /\ ind = [t \in Threads |-> [m \in Modes |-> CHOOSE r \in Rows : TRUE]]
    /\ n = [t \in Threads |-> 1]
    /\ second = [t \in Threads |-> FALSE]
    /\ reg = [t \in Threads |-> 0]
    /\ next = 0
    /\ issued = ZeroGrad

ThreadVars == << pc, ind, n, second, reg >>

(* driver() up to algParams.fixup<ExecSpace>(out) (lines 432-496): the   *)
(* random initial guess, normalized to the tensor's norm, is data the     *)
(* model leaves out (G starts as an arbitrary previous gradient).         *)
DoFixup ==
    /\ phase = "fixup"
    /\ method' = Fixup(params)
    /\ phase' = "grad"
    /\ UNCHANGED << params, kernel, G, dup, ThreadVars, next, issued >>

(* gradient(): g.zero() (line 251), then gcp_sgd_ss_grad: the ScatterViews *)
(* are built over G[n] with zeroed duplicates (lines 119-121) and run()   *)
(* dispatches on the method, Genten::error ending the run.                *)
Gradient ==
    /\ phase = "grad"
    /\ ~params.async
    /\ kernel' = KernelFor(params, method.am)
    /\ phase' = IF kernel' = "Error" THEN "error" ELSE "nz"
    /\ G' = ZeroGrad
    /\ dup' = [t \in Threads |-> ZeroGrad]
    /\ UNCHANGED << params, method, ThreadVars, next, issued >>

(* A team started whether or not its index is below the sample count     *)
(* (mutant: the `idx >= ns_nz` test of line 133 dropped).                 *)
StartSampleNoBound(t) ==
    /\ phase = "nz"
    /\ ~(params.cuda /\ kernel = "Atomic")
    /\ pc[t] = "idle"
    /\ \E rows \in NzIndices : ind' = [ind EXCEPT ![t] = rows]
    /\ next' = next + 1
    /\ pc' = [pc EXCEPT ![t] = "add"]
    /\ n' = [n EXCEPT ![t] = 1]
    /\ second' = [second EXCEPT ![t] = FALSE]
    /\ UNCHANGED << params, method, kernel, phase, G, dup, reg, issued >>

(* A free thread starts the next team of the nonzero kernel: Rand::draw   *)
(* picks one of the nnz nonzeros and ind takes its subscripts (lines      *)
(* 129-143); teams past ns_nz do nothing.                                 *)
StartSample(t) ==
    /\ phase = "nz"
    /\ ~(params.cuda /\ kernel = "Atomic")
    /\ pc[t] = "idle"
    /\ next < NzSamples
    /\ \E rows \in NzIndices : ind' = [ind EXCEPT ![t] = rows]
    /\ next' = next + 1
    /\ pc' = [pc EXCEPT ![t] = "add"]
    /\ n' = [n EXCEPT ![t] = 1]
    /\ second' = [second EXCEPT ![t] = FALSE]
    /\ UNCHANGED << params, method, kernel, phase, G, dup, reg, issued >>

(* The same for the zero kernel: every ind[m] is drawn uniformly from     *)
(* 0..X.size(m)-1, a nonzero's position included (lines 213-227).         *)
StartZeroSample(t) ==
    /\ phase = "z"
    /\ ~(params.cuda /\ kernel = "Atomic")
    /\ pc[t] = "idle"
    /\ next < ZSamples
    /\ \E rows \in [Modes -> Rows] : ind' = [ind EXCEPT ![t] = rows]
    /\ next' = next + 1
    /\ pc' = [pc EXCEPT ![t] = "add"]
    /\ n' = [n EXCEPT ![t] = 1]
    /\ second' = [second EXCEPT ![t] = FALSE]
    /\ UNCHANGED << params, method, kernel, phase, G, dup, reg, issued >>

(* gcp_sgd_ss_grad_atomic_kernel, the kernel of the Atomic method on Cuda *)
(* (lines 338-397): a thread of a team of TeamSize threads takes sample   *)
(* offset + ii, skips it past ns_nz, draws a nonzero in Kokkos::single    *)
(* and computes y_val (and yt_val with Mprev) before its adds.            *)
StartAtomicSample(t) ==
    /\ phase = "nz"
    /\ params.cuda /\ kernel = "Atomic"
    /\ pc[t] = "idle"
    /\ next < NzSamples
    /\ \E rows \in NzIndices : ind' = [ind EXCEPT ![t] = rows]
    /\ next' = next + 1
    /\ pc' = [pc EXCEPT ![t] = "add"]
    /\ n' = [n EXCEPT ![t] = 1]
    /\ second' = [second EXCEPT ![t] = FALSE]
    /\ UNCHANGED << params, method, kernel, phase, G, dup, reg, issued >>

(* Its zero kernel (lines 439-480): the indices drawn uniformly, then     *)
(* y_val = weight_zeros * f.deriv(0, m_val).  The add loop runs over the  *)
(* nd tensor modes (line 502) where the nonzero kernel runs over the d    *)
(* modes of `modes`; the model takes modes to be every mode, d = nd.      *)
StartAtomicZeroSample(t) ==
    /\ phase = "z"
    /\ params.cuda /\ kernel = "Atomic"
    /\ pc[t] = "idle"
    /\ next < ZSamples
    /\ \E rows \in [Modes -> Rows] : ind' = [ind EXCEPT ![t] = rows]
    /\ next' = next + 1
    /\ pc' = [pc EXCEPT ![t] = "add"]
    /\ n' = [n EXCEPT ![t] = 1]
    /\ second' = [second EXCEPT ![t] = FALSE]
    /\ UNCHANGED << params, method, kernel, phase, G, dup, reg, issued >>

Cell(t) == << n[t], ind[t][n[t]] >>

(* After an add: the Mprev add of the same mode, else the next mode, else *)
(* the team is finished (the loops of lines 165-200).                     *)
Advance(t) ==
    IF HaveMprev /\ ~second[t]
    THEN /\ second' = [second EXCEPT ![t] = TRUE]
         /\ pc' = [pc EXCEPT ![t] = "add"]
         /\ UNCHANGED n
    ELSE /\ second' = [second EXCEPT ![t] = FALSE]
         /\ IF n[t] < NModes
            THEN n' = [n EXCEPT ![t] = n[t] + 1] /\ pc' = [pc EXCEPT ![t] = "add"]
            ELSE pc' = [pc EXCEPT ![t] = "idle"] /\ UNCHANGED n

(* `ga(k,j) += tmp` without atomics: the load ...                         *)
Load(t) ==
    /\ pc[t] = "add"
    /\ kernel \in {"NonAtomic", "Duplicated"}
    /\ reg' = [reg EXCEPT ![t] = IF kernel = "Duplicated"
                                 THEN dup[t][Cell(t)] ELSE G[Cell(t)]]
    /\ pc' = [pc EXCEPT ![t] = "store"]
    /\ UNCHANGED << params, method, kernel, phase, G, dup, ind, n, second,
                    next, issued >>

(* ... and the store, into G or into the thread's own duplicate.          *)
Store(t) ==
    /\ pc[t] = "store"
    /\ IF kernel = "Duplicated"
       THEN dup' = [dup EXCEPT ![t][Cell(t)] = reg[t] + 1] /\ UNCHANGED G
       ELSE G' = [G EXCEPT ![Cell(t)] = reg[t] + 1] /\ UNCHANGED dup
    /\ issued' = [issued EXCEPT ![Cell(t)] = @ + 1]
    /\ Advance(t)
    /\ UNCHANGED << params, method, kernel, phase, ind, reg, next >>

(* ScatterAtomic access, or Kokkos::atomic_add of row_func in the Cuda   *)
(* kernel (lines 399-432 and 482-515): one indivisible add per mode and,  *)
(* with Mprev, a second one.                                              *)
AtomicAdd(t) ==
    /\ pc[t] = "add"
    /\ kernel = "Atomic"
    /\ G' = [G EXCEPT ![Cell(t)] = @ + 1]
    /\ issued' = [issued EXCEPT ![Cell(t)] = @ + 1]
    /\ Advance(t)
    /\ UNCHANGED << params, method, kernel, phase, dup, ind, reg, next >>

(* The parallel_for returns when every team is done: the nonzero kernel  *)
(* is followed by the zero kernel, and that by contribute_into.           *)
EndKernel ==
    /\ phase \in {"nz", "z"}
    /\ next = NSamples(phase)
    /\ \A t \in Threads : pc[t] = "idle"
    /\ phase' = IF phase = "nz" THEN "z" ELSE "contribute"
    /\ next' = 0
    /\ UNCHANGED << params, method, kernel, G, dup, ThreadVars, issued >>

(* sa[n].contribute_into(G[n].view()) (lines 297-298): the duplicates are *)
(* summed into G; for a non-duplicated view G already holds the sums.     *)
Contribute ==
    /\ phase = "contribute"
    /\ G' = IF kernel = "Duplicated"
            THEN [c \in Cells |-> G[c] + FoldFunction(+, 0, [t \in Threads |-> dup[t][c]])]
            ELSE G
    /\ phase' = "done"
    /\ UNCHANGED << params, method, kernel, dup, ThreadVars, next, issued >>

-----------------------------------------------------------------------------
(* GCP_SGD_Iter_Async::run and gcp_sgd_iter_async_kernel (Hogwild SGD,   *)
(* src/unnamed/part_003): no gradient is built; every sample's           *)
(* contribution goes straight into u through stepper.eval_async.          *)

(* 2^floor(log2(x)) for x >= 1.                                           *)
Pow2Floor(x) == 2^(CHOOSE e \in 0..x : 2^e <= x /\ x < 2^(e + 1))

(* VectorSize, TeamSize and RowsPerTeam of the kernel (lines 84-89).      *)
VectorSize(p) ==
    IF p.cuda THEN IF Pow2Floor(NComps) < 128 THEN Pow2Floor(NComps) ELSE 128
    ELSE 1
TeamSize(p) == IF p.cuda THEN 128 \div VectorSize(p) ELSE 1
RowsPerTeam(p) == TeamSize(p) * RowBlock

(* 2^floor(log2(nc)) lies in 1..nc: a fact of arithmetic for every nc >= 1 *)
(* (its proof is an induction over the exponent), evaluated by TLC.       *)
ASSUME Pow2FloorAssumption == Pow2Floor(NComps) \in 1..NComps

(* num_samples = (nsz + nsnz) * epoch_iters (line 79).                    *)
AsyncSamples == (ZSamples + NzSamples) * EpochIters

(* N = (num_samples + RowsPerTeam - 1) / RowsPerTeam teams (line 90).     *)
NTeams(p) == (AsyncSamples + RowsPerTeam(p) - 1) \div RowsPerTeam(p)

(* run() (lines 200-236): the sampler is the semi-stratified one on this *)
(* path; an SGDStep or an AdaGradStep runs the kernel, any other stepper  *)
(* ends in Genten::error.                                                 *)
AsyncRun ==
    /\ phase = "grad"
    /\ params.async
    /\ phase' = IF params.stepper \in {"SGD", "AdaGrad"} THEN "async"
                ELSE "unsupported"
    /\ UNCHANGED << params, method, kernel, G, dup, ThreadVars, next, issued >>

(* A thread of a team takes its next sample (lines 101-136): each of the *)
(* RowBlockSize samples of every team member is drawn, with no test      *)
(* against num_samples; idx < nsnz makes it a nonzero (drawn among the   *)
(* nnz nonzeros) and otherwise a zero sample (drawn uniformly).          *)
AsyncSample(t) ==
    /\ phase = "async"
    /\ pc[t] = "idle"
    /\ next < NTeams(params) * RowsPerTeam(params)
    /\ \/ NzSamples > 0 /\ \E rows \in NzIndices : ind' = [ind EXCEPT ![t] = rows]
       \/ ZSamples > 0 /\ \E rows \in [Modes -> Rows] : ind' = [ind EXCEPT ![t] = rows]
    /\ next' = next + 1
    /\ pc' = [pc EXCEPT ![t] = "eval"]
    /\ n' = [n EXCEPT ![t] = 1]
    /\ UNCHANGED << params, method, kernel, phase, G, dup, second, reg, issued >>

(* u's rows are read into scratch, m_val and y_val computed, then for     *)
(* every mode n stepper.eval_async(n, k, j, tmp, u) updates row ind[n] of *)
(* u[n] in place (lines 138-183).  The values, and the races between the *)
(* threads' read-modify-writes of u, are abstracted away.                *)
AsyncEval(t) ==
    /\ pc[t] = "eval"
    /\ IF n[t] < NModes
       THEN n' = [n EXCEPT ![t] = n[t] + 1] /\ UNCHANGED pc
       ELSE pc' = [pc EXCEPT ![t] = "idle"] /\ UNCHANGED n
    /\ UNCHANGED << params, method, kernel, phase, G, dup, ind, second, reg,
                    next, issued >>

(* The parallel_for returns once every team is done; run() returns       *)
(* epoch_iters as the iterations taken.                                   *)
AsyncEnd ==
    /\ phase = "async"
    /\ next = NTeams(params) * RowsPerTeam(params)
    /\ \A t \in Threads : pc[t] = "idle"
    /\ phase' = "stepped"
    /\ UNCHANGED << params, method, kernel, G, dup, ThreadVars, next, issued >>

Next ==
    \/ DoFixup
    \/ Gradient
    \/ \E t \in Threads : t \in Active /\ (StartSample(t) \/ StartZeroSample(t) \/ StartAtomicSample(t) \/ StartAtomicZeroSample(t) \/ Load(t) \/ Store(t) \/ AtomicAdd(t))
    \/ EndKernel
    \/ Contribute
    \/ AsyncRun
    \/ \E t \in Threads : t \in Active /\ (AsyncSample(t) \/ AsyncEval(t))
    \/ AsyncEnd

Spec == Init /\ [][Next]_vars

-----------------------------------------------------------------------------
(* Every counter, method and thread state has its type.                   *)
TypeOK ==
    /\ params \in Params
    /\ method.mm \in MTTKRPMethods /\ method.am \in MTTKRPAllMethods
    /\ kernel \in {"NonAtomic", "Atomic", "Duplicated", "Error"}
    /\ G \in [Cells -> Nat] /\ issued \in [Cells -> Nat]
    /\ dup \in [Threads -> [Cells -> Nat]]
    /\ pc \in [Threads -> {"idle", "add", "store", "eval"}]
    /\ next \in 0..(NzSamples + ZSamples + AsyncSamples + RowsPerTeam(params))

(* No add is lost: once contribute_into has run, every cell of G holds   *)
(* exactly the adds the samples made to it, whatever the method and the  *)
(* interleaving of the threads (the invariance the spec asks of the      *)
(* accumulation strategies).                                              *)
GradientExact ==
    phase = "done" => G = issued

(* The dispatch rejects a method fixup produced only when the user asked *)
(* for Iterated on a host space: every default, and every choice on Cuda, *)
(* reaches a kernel.                                                      *)
DispatchAccepts ==
    phase = "error" => ~params.cuda /\ params.am = "Iterated"

=============================================================================
