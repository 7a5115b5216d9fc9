--------------------------- MODULE AlgParamsFixup ---------------------------
(***************************************************************************)
(* AlgParams::fixup<ExecSpace> (src/src/Genten_AlgParams.hpp, lines       *)
(* 207-306) and the dispatch of the fused semi-stratified gradient kernel *)
(* on its result (src/src/Genten_GCP_SS_Grad_Streaming_Def.hpp, lines     *)
(* 572-597 for host spaces, 653-661 for Cuda).                             *)
(*                                                                         *)
(* A parameter set p is a record of what fixup reads:                      *)
(*   conc      SpaceProperties<ExecSpace>::concurrency()                   *)
(*   cuda      SpaceProperties<ExecSpace>::is_cuda                         *)
(*   fast      cuda_arch() >= 600 || sizeof(ttb_real) == 4 (the two tests *)
(*             always appear together, so they are one flag here)          *)
(*   solver    "GCP_SGD" or "Other" (Solver_Method)                        *)
(*   sampling  "SemiStratified" or "Other" (GCP_Sampling)                  *)
(*   fuse      algParams.fuse                                              *)
(*   mm, am    the user's mttkrp_method and mttkrp_all_method              *)
(* The log lines fixup writes to `out` are left out.                       *)
(***************************************************************************)

MTTKRPMethods == {"Default", "Single", "Atomic", "Duplicated", "Perm"}
MTTKRPAllMethods == {"Default", "Single", "Atomic", "Duplicated", "Iterated"}

(* The fused GCP-SGD semi-stratified configuration, which needs Atomic on *)
(* Cuda (lines 244-246 and 297-298).                                      *)
FusedSS(p) ==
    /\ p.solver = "GCP_SGD"
    /\ p.sampling = "SemiStratified"
    /\ p.fuse

(* Default MTTKRP method (lines 212-234).                                 *)
DefaultMethod(p) ==
    IF p.mm # "Default" THEN p.mm
    ELSE IF p.conc = 1 THEN "Single"
    ELSE IF p.cuda /\ p.fast THEN "Atomic"
    ELSE IF p.cuda THEN "Perm"
    ELSE IF p.solver = "GCP_SGD" THEN "Duplicated"
    ELSE "Perm"

(* Default MTTKRP-All method (lines 237-266).  The assignment of Single  *)
(* for a single thread (lines 241-242) is a statement of its own, and the *)
(* if / else-if chain that follows it (lines 245-265) assigns in every     *)
(* branch, so its value is always overwritten: the result does not depend *)
(* on conc.                                                                *)
DefaultAllMethod(p) ==
    IF p.am # "Default" THEN p.am
    ELSE IF p.cuda /\ FusedSS(p) THEN "Atomic"
    ELSE IF p.cuda /\ p.fast THEN "Atomic"
    ELSE IF p.cuda THEN "Iterated"
    ELSE IF p.solver = "GCP_SGD" THEN "Duplicated"
    ELSE "Iterated"

(* Cuda correction of the MTTKRP method (lines 274-283).                 *)
CudaMethod(p, mm) ==
    IF p.cuda /\ mm \in {"Single", "Duplicated"}
    THEN IF p.fast THEN "Atomic" ELSE "Perm"
    ELSE mm

(* The last block without its guard on Cuda (mutant).                    *)
CudaAllMethodNoFusedFix(p, am) ==
    IF p.cuda /\ am \in {"Single", "Duplicated"}
    THEN IF p.fast \/ FusedSS(p) THEN "Atomic" ELSE "Iterated"
    ELSE am

(* Cuda correction of the MTTKRP-All method (lines 284-303): Single and  *)
(* Duplicated are replaced, and the fused semi-stratified kernel is      *)
(* forced to Atomic.                                                     *)
CudaAllMethod(p, am) ==
    LET am1 == IF p.cuda /\ am \in {"Single", "Duplicated"}
               THEN IF p.fast \/ FusedSS(p) THEN "Atomic" ELSE "Iterated"
               ELSE am
    IN  IF p.cuda /\ FusedSS(p) THEN "Atomic" ELSE am1

(* The whole of fixup: the defaults, then the Cuda corrections.           *)
Fixup(p) ==
    [mm |-> CudaMethod(p, DefaultMethod(p)),
     am |-> CudaAllMethod(p, DefaultAllMethod(p))]

(* Duplicated instantiated as a plain non-atomic ScatterView (mutant).   *)
KernelForNoDup(p, am) ==
    IF p.cuda THEN IF am = "Atomic" THEN "Atomic" ELSE "Error"
    ELSE CASE am = "Single"     -> "NonAtomic"
           [] am = "Atomic"     -> "Atomic"
           [] am = "Duplicated" -> "NonAtomic"
           [] OTHER             -> "Error"

(* The accumulation the fused kernel is instantiated with for a          *)
(* MTTKRP-All method, or "Error" where it calls Genten::error:            *)
(*   host (lines 574-597): Single -> ScatterNonDuplicated/NonAtomic,      *)
(*     Atomic -> ScatterNonDuplicated/Atomic, Duplicated ->               *)
(*     ScatterDuplicated/NonAtomic, Iterated -> error;                    *)
(*   Cuda (lines 654-660): Atomic -> the atomic kernel, else error.       *)
KernelFor(p, am) ==
    IF p.cuda THEN IF am = "Atomic" THEN "Atomic" ELSE "Error"
    ELSE CASE am = "Single"     -> "NonAtomic"
           [] am = "Atomic"     -> "Atomic"
           [] am = "Duplicated" -> "Duplicated"
           [] OTHER             -> "Error"

=============================================================================
