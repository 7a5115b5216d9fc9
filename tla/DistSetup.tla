------------------------------ MODULE DistSetup ------------------------------
(***************************************************************************)
(* The DistGCP constructor after the tensor is distributed: init_factors  *)
(* and allReduceKT (src/unnamed/part_002, lines 165-217), over the        *)
(* sub-communicators ProcessorMap makes with MPI_Cart_sub                 *)
(* (src/src/rol/Genten_CP_Opt_Rol.cpp, lines 374-388).                    *)
(*                                                                         *)
(* Every rank first runs redistributeTensor (module Redistribute); then   *)
(* it fills its factor matrices with its own random numbers, scales the   *)
(* weights by 1/norm_x, the norm of its LOCAL tensor, folds the weights   *)
(* into the factors (Ktensor::distribute) and, on a grid of more than one *)
(* rank, all-reduces every factor matrix over the sub-communicator of its *)
(* mode and divides it by the sub-communicator's size.                    *)
(*                                                                         *)
(* A factor block is abstracted to the set of ranks whose random numbers  *)
(* it sums, and whether it is infinite: MPI_SUM of blocks is the union of *)
(* the sets and the disjunction of the flags, and a division by a grid    *)
(* size changes neither.  1/norm_x is infinite exactly when the local     *)
(* tensor has no nonzeros (their values are taken to be nonzero).         *)
(*                                                                         *)
(* compute() then calls setAlgParams (part_002, lines 258-390), which     *)
(* splits the batch sizes of the input over the ranks and derives         *)
(* epoch_iters, and builds the SemiStratifiedSampler on the local tensor, *)
(* whose constructor (Genten_GCP_SemiStratifiedSampler.hpp, lines 62-101) *)
(* fills in every sample count left at 0.  The sampling weights are      *)
(* population / count and are left out; the fixup of the methods is      *)
(* module AlgParamsFixup.                                                 *)
(***************************************************************************)
EXTENDS Redistribute

CONSTANTS
    BatchNz,     \* batch_size_nz of the input
    BatchZ,      \* batch_size_zero
    ValueNz,     \* value_size_nz
    ValueZ,      \* value_size_zero
    MaxEpochs,   \* max_epochs
    EpochSize    \* epoch_size, or "none" when the input has none

ASSUME InputAssumption ==
    /\ {BatchNz, BatchZ, ValueNz, ValueZ} \subseteq Nat
    /\ MaxEpochs \in Nat \ {0}
    /\ EpochSize \in Nat \cup {"none"}

VARIABLES
    ipc,     \* per rank: "wait", "ar", "built", "params", "ready", "crashed"
    arIdx,   \* per rank: the mode of allReduceKT's loop
    fac,     \* per rank and mode: [from: ranks summed, inf: infinite entries]
    plan,    \* per rank: the sample counts setAlgParams returns
    epochIters, \* algParams.epoch_iters
    samp     \* per rank: the sample counts the sampler uses

setupVars == << ipc, arIdx, fac, plan, epochIters, samp >>
sampVars == << plan, epochIters, samp >>
allVars == << vars, setupVars >>

Block == [from : SUBSET Ranks, inf : BOOLEAN]

(* The dim_filter inverted, keeping only grid dimension i (mutant).       *)
SubCommKeepOnly(r, i) ==
    {q \in Ranks : \A j \in Modes \ {i} : GridCoord(q, j) = GridCoord(r, j)}

(* The ranks of the sub-communicator of rank r for mode i, keeping every  *)
(* grid dimension except i (dim_filter[i] = 0, all others 1): the ranks    *)
(* with r's coordinate in mode i.                                         *)
SubComm(r, i) == {q \in Ranks : GridCoord(q, i) = GridCoord(r, i)}

(* sub_comm_sizes_[i], the same for every rank.                           *)
SubCommSize(i) == Cardinality(SubComm(0, i))

Counts == [nzg : Int, zg : Int, nzv : Int, zv : Int]
NoCounts == [nzg |-> 0, zg |-> 0, nzv |-> 0, zv |-> 0]

(* localNNZ() and localNumel(): the nonzeros rank r received and the      *)
(* cells of its block.                                                    *)
LocalNNZ(r) == winSize[r]
LocalNumel(r) ==
    GridProduct([i \in Modes |-> Blocking[i][GridCoord(r, i) + 2]
                                - Blocking[i][GridCoord(r, i) + 1]])

(* Lines 272-282: each rank samples its share of the global sizes, never  *)
(* more than it holds.  lz is negative when a rank received a nonzero    *)
(* twice (see DistributionLossless); the counts are kept signed.         *)
PlanFor(r) ==
    LET lnz == LocalNNZ(r)
        lz  == LocalNumel(r) - lnz
    IN  [nzg |-> Min({lnz, BatchNz \div NProcs}),
         zg  |-> Min({lz, BatchZ \div NProcs}),
         nzv |-> Min({lnz, ValueNz \div NProcs}),
         zv  |-> Min({lz, ValueZ \div NProcs})]

(* DistGCP(DistSpTensor&&, tree) (part_002 lines 138-163) takes over the *)
(* redistributed tensor, reads the gcp options (the dump text is left    *)
(* out) and calls init_factors: every rank waits to build its factors.   *)
SetupInit ==
    /\ Init
    /\ ipc = [r \in Ranks |-> "wait"]
    /\ arIdx = [r \in Ranks |-> 1]
    /\ fac = [r \in Ranks |-> [i \in Modes |-> [from |-> {}, inf |-> FALSE]]]
    /\ plan = [r \in Ranks |-> NoCounts]
    /\ epochIters = 0
    /\ samp = [r \in Ranks |-> NoCounts]

(* A KtensorT is abstracted to whether its weights lambda are finite and *)
(* its factor blocks.  The constructor KtensorT(nc, nd, sz) allocates     *)
(* zeroed factor matrices and sets the weights to 1.0.                    *)
NewKtensor ==
    [lambda |-> FALSE, data |-> [i \in Modes |-> [from |-> {}, inf |-> FALSE]]]

(* setMatricesScatter: every factor matrix filled with finite random      *)
(* numbers, here those of rank r.                                         *)
SetMatricesScatter(k, r) ==
    [k EXCEPT !.data = [i \in Modes |-> [from |-> {r}, inf |-> FALSE]]]

(* distribute(): lambda^(1/nd) scales the columns of every factor matrix  *)
(* (an infinite weight makes them non-finite), then lambda is reset to 1. *)
Distribute(k) ==
    [lambda |-> FALSE,
     data |-> [i \in Modes |-> [k.data[i] EXCEPT !.inf = @ \/ k.lambda]]]

(* Lines 165-181 up to the all-reduce: random factors of rank r's own,    *)
(* weights times 1/norm_x of its local tensor (winSize[r] nonzeros, so    *)
(* the scale is infinite when it has none), then Kfac_.distribute().      *)
(* allReduceKT is called only when gridSize() > 1.                        *)
InitFactors(r) ==
    LET k == SetMatricesScatter(NewKtensor, r)
        scaled == [k EXCEPT !.lambda = @ \/ winSize[r] = 0]
    IN  /\ pc[r] = "done"
        /\ ipc[r] = "wait"
        /\ fac' = [fac EXCEPT ![r] = Distribute(scaled).data]
        /\ ipc' = [ipc EXCEPT ![r] = IF NProcs > 1 THEN "ar" ELSE "built"]
        /\ UNCHANGED << vars, arIdx, sampVars >>

(* Lines 196-199: a mode whose sub-communicator has one rank is skipped.  *)
SkipMode(r) ==
    /\ ipc[r] = "ar"
    /\ arIdx[r] \in Modes
    /\ SubCommSize(arIdx[r]) = 1
    /\ arIdx' = [arIdx EXCEPT ![r] = @ + 1]
    /\ UNCHANGED << vars, ipc, fac, sampVars >>

(* Lines 201-208: MPI_Allreduce(MPI_IN_PLACE, MPI_SUM) of factor matrix i *)
(* over the sub-communicator grp, once all of its ranks have reached it.  *)
AllReduce(grp, i) ==
    LET sum == [from |-> UNION {fac[q][i].from : q \in grp},
                inf  |-> \E q \in grp : fac[q][i].inf]
    IN  /\ SubCommSize(i) > 1
        /\ \A q \in grp : ipc[q] = "ar" /\ arIdx[q] = i
        /\ fac' = [q \in Ranks |-> IF q \in grp THEN [fac[q] EXCEPT ![i] = sum]
                                   ELSE fac[q]]
        /\ arIdx' = [q \in Ranks |-> IF q \in grp THEN arIdx[q] + 1 ELSE arIdx[q]]
        /\ UNCHANGED << vars, ipc, sampVars >>

(* Lines 211-216: every factor matrix times 1/gridSizes[d], which changes *)
(* neither which ranks it sums nor whether it is infinite.               *)
DivideByGridSize(r) ==
    /\ ipc[r] = "ar"
    /\ arIdx[r] = Len(Grid) + 1
    /\ ipc' = [ipc EXCEPT ![r] = "built"]
    /\ UNCHANGED << vars, arIdx, fac, sampVars >>

(* setAlgParams, a collective of all ranks (its gridAllReduce, MPI_Gather *)
(* and gridBarrier calls): the local counts (lines 272-282), the global   *)
(* batch actually used (lines 297-298) and epoch_iters (lines 300-305).   *)
(* gnz / 0 is an integer division by zero, which ends every process.     *)
SetAlgParams ==
    LET p  == [r \in Ranks |-> PlanFor(r)]
        gb == FoldFunction(+, 0, [r \in Ranks |-> p[r].nzg])
        crash == EpochSize = "none" /\ gb = 0
    IN  /\ \A r \in Ranks : ipc[r] = "built"
        /\ plan' = p
        /\ epochIters' = IF EpochSize # "none" THEN EpochSize
                         ELSE IF crash THEN 0 ELSE NNZ \div gb
        /\ ipc' = [r \in Ranks |-> IF crash THEN "crashed" ELSE "params"]
        /\ UNCHANGED << vars, arIdx, fac, samp >>

(* The constructor of SemiStratifiedSampler on the local tensor (lines    *)
(* 62-101): a count of 0 means "not given" and is replaced by a default.  *)
SamplerCounts(r, pl) ==
    LET nnz  == LocalNNZ(r)
        nz   == LocalNumel(r) - nnz
        ftmp == Max({(nnz + 99) \div 100, 100000})
        gtmp == Max({(3 * nnz + MaxEpochs - 1) \div MaxEpochs, 1000})
        nzv  == IF pl.nzv = 0 THEN Min({ftmp, nnz}) ELSE pl.nzv
        nzg  == IF pl.nzg = 0 THEN Min({gtmp, nnz}) ELSE pl.nzg
    IN  [nzg |-> nzg,
         zg  |-> IF pl.zg = 0 THEN Min({nzg, nz}) ELSE pl.zg,
         nzv |-> nzv,
         zv  |-> IF pl.zv = 0 THEN Min({nzv, nz}) ELSE pl.zv]

(* allReduceTrad and fedOpt build the SemiStratifiedSampler on the local *)
(* tensor and call initialize (part_002 lines 633-640): the counts of      *)
(* SamplerCounts; the weights the constructor derives from them and the   *)
(* sort or hash of the local tensor in initialize (lines 102-135) are     *)
(* data the model leaves out.                                             *)
SamplerInit(r) ==
    /\ ipc[r] = "params"
    /\ samp' = [samp EXCEPT ![r] = SamplerCounts(r, plan[r])]
    /\ ipc' = [ipc EXCEPT ![r] = "ready"]
    /\ UNCHANGED << vars, arIdx, fac, plan, epochIters >>

(* Every rank has built its sampler, or setAlgParams has crashed them.    *)
SetupDone ==
    /\ \A r \in Ranks : ipc[r] \in {"ready", "crashed"}
    /\ UNCHANGED allVars

SetupNext ==
    \/ Next /\ UNCHANGED setupVars
    \/ \E r \in Ranks : InitFactors(r) \/ SkipMode(r) \/ DivideByGridSize(r)
    \/ SetAlgParams
    \/ \E r \in Ranks : SamplerInit(r)
    \/ \E r \in Ranks : \E i \in Modes : AllReduce(SubComm(r, i), i)
    \/ SetupDone

SetupSpec == SetupInit /\ [][SetupNext]_allVars

-----------------------------------------------------------------------------
(* The redistribution's variables have their types, and every factor     *)
(* block is a set of ranks with a flag.                                   *)
SetupTypeOK ==
    /\ TypeOK
    /\ ipc \in [Ranks -> {"wait", "ar", "built", "params", "ready", "crashed"}]
    /\ arIdx \in [Ranks -> 1..(Len(Grid) + 1)]
    /\ fac \in [Ranks -> [Modes -> Block]]
    /\ plan \in [Ranks -> Counts] /\ samp \in [Ranks -> Counts]
    /\ epochIters \in Nat

(* The constructor of DistGCP has returned on rank r.                     *)
Built(r) == ipc[r] \in {"built", "params", "ready"}

(* Once a rank has constructed its DistGCP, its factor matrix of every    *)
(* mode sums the random initial factors of exactly the ranks that share   *)
(* those factor rows (the ranks with its coordinate in that mode), so    *)
(* every replica of a block is the same and no rank's rows are counted    *)
(* twice or left out.                                                     *)
FactorsReplicated ==
    \A r \in Ranks : Built(r) =>
        \A i \in Modes : fac[r][i].from = {q \in Ranks : GridCoord(q, i) = GridCoord(r, i)}

(* The initial factors are finite on every rank that has constructed its *)
(* DistGCP: the Ktensor the solvers start from holds numbers.             *)
InitFactorsFinite ==
    \A r \in Ranks : Built(r) => \A i \in Modes : ~fac[r][i].inf

=============================================================================
