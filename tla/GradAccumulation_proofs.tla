----------------------- MODULE GradAccumulation_proofs -----------------------
(***************************************************************************)
(* Proofs about GradAccumulation: whatever the number of threads, modes,   *)
(* rows and samples, the fused gradient kernel is dispatched without      *)
(* Genten::error unless the user asked for Iterated on a host space.       *)
(*                                                                         *)
(* The argument has two parts.  FixupDispatch is a fact about the pure    *)
(* operators of AlgParamsFixup: for every parameter set of the fused path, *)
(* the method fixup returns is one the dispatch accepts, except a user's  *)
(* Iterated on the host.  DispatchInv records that, once fixup and        *)
(* gradient() have run, method and kernel are what those operators       *)
(* computed from params, which never changes; it is inductive.            *)
(*                                                                         *)
(* NonDuplicatedExact adds that no gradient add is lost by the kernels    *)
(* that add into G itself (Atomic under any interleaving, the non-atomic  *)
(* ScatterView with one thread), through the inductive invariant ExactInv.*)
(***************************************************************************)
EXTENDS GradAccumulation, TLAPS

Phases == {"fixup", "grad", "nz", "z", "contribute", "done", "error",
           "async", "stepped", "unsupported"}
KernelPhases == {"nz", "z", "contribute", "done", "error"}

(* The strengthening of DispatchAccepts that a step preserves.            *)
DispatchInv ==
    /\ params \in Params
    /\ phase \in Phases
    /\ phase # "fixup" => method = Fixup(params)
    /\ phase \in KernelPhases => kernel = KernelFor(params, method.am)
    /\ phase = "error" => kernel = "Error"

(* When the non-atomic ScatterView may be used by several threads: never  *)
(* if no user asks for Single, since fixup itself never picks it.          *)
SingleThreadedNonAtomic == "Single" \notin UserAllMethods \/ MaxConc = 1

RunPhases == {"nz", "z", "contribute", "done"}

(* The strengthening of GradientExact for the kernels that add into G     *)
(* itself.  issued is zero until a kernel runs and no thread is inside an *)
(* add outside the kernels; a pending store belongs to a kernel with a    *)
(* load; with Atomic or NonAtomic, G and issued agree from the dispatch   *)
(* on; and the one thread of a NonAtomic run stores what it loaded, since *)
(* no other thread wrote G in between.                                    *)
ExactInv ==
    /\ DispatchInv
    /\ pc \in [Threads -> {"idle", "add", "store", "eval"}]
    /\ DOMAIN reg = Threads /\ DOMAIN n = Threads /\ DOMAIN ind = Threads
    /\ phase \in {"fixup", "grad"} => issued = ZeroGrad
    /\ \A t \in Threads : pc[t] \in {"add", "store"} => phase \in {"nz", "z"}
    /\ \A t \in Threads : pc[t] = "store" => kernel \in {"NonAtomic", "Duplicated"}
    /\ phase \in RunPhases => kernel \in {"NonAtomic", "Atomic", "Duplicated"}
    /\ phase \in RunPhases /\ kernel \in {"NonAtomic", "Atomic"} => G = issued
    /\ kernel = "NonAtomic" =>
          /\ MaxConc = 1
          /\ \A t \in Threads : pc[t] = "store" => reg[t] = G[Cell(t)]

(* fixup followed by the dispatch of gcp_sgd_ss_grad (Genten_AlgParams.hpp *)
(* lines 237-303, Genten_GCP_SS_Grad_Streaming_Def.hpp lines 572-660):    *)
(* the only parameter sets of the fused path that end in Genten::error    *)
(* are host runs where the user chose Iterated.                           *)
LEMMA FixupDispatch ==
    ASSUME NEW p \in Params,
           KernelFor(p, Fixup(p).am) = "Error"
    PROVE  ~p.cuda /\ p.am = "Iterated"
<1>1. FusedSS(p)
      BY DEF Params, FusedSS
<1>2. p.am \in MTTKRPAllMethods
      BY UserAssumption DEF Params
<1>3. CASE p.cuda
      <2>1. Fixup(p).am = "Atomic"
            BY <1>1, <1>3 DEF Fixup, CudaAllMethod
      <2>2. KernelFor(p, Fixup(p).am) = "Atomic"
            BY <1>3, <2>1 DEF KernelFor
      <2>. QED  BY <2>2
<1>4. CASE ~p.cuda
      <2>1. Fixup(p).am = DefaultAllMethod(p)
            BY <1>4 DEF Fixup, CudaAllMethod
      <2>2. CASE p.am = "Default"
            <3>1. Fixup(p).am = "Duplicated"
                  BY <1>4, <2>1, <2>2 DEF DefaultAllMethod, Params
            <3>. QED  BY <1>4, <3>1 DEF KernelFor
      <2>3. CASE p.am # "Default"
            <3>1. Fixup(p).am = p.am
                  BY <2>1, <2>3 DEF DefaultAllMethod
            <3>2. KernelFor(p, p.am) = "Error"
                  BY <3>1
            <3>. QED  BY <1>2, <1>4, <2>3, <3>2 DEF KernelFor, MTTKRPAllMethods
      <2>. QED  BY <2>2, <2>3
<1>. QED  BY <1>3, <1>4

(* The initial state satisfies the strengthening.                         *)
LEMMA InitDispatchInv == Init => DispatchInv
BY DEF Init, DispatchInv, Phases, KernelPhases

(* Every step preserves it: only DoFixup and Gradient touch method and    *)
(* kernel, and they set them to the operators' values; EndKernel and      *)
(* Contribute move between phases that make the same claims.              *)
LEMMA NextDispatchInv == DispatchInv /\ [Next]_vars => DispatchInv'
<1> SUFFICES ASSUME DispatchInv, [Next]_vars PROVE DispatchInv'
    OBVIOUS
<1>1. CASE DoFixup
      BY <1>1 DEF DoFixup, DispatchInv, Phases, KernelPhases
<1>2. CASE Gradient
      BY <1>2 DEF Gradient, DispatchInv, Phases, KernelPhases
<1>3. CASE \E t \in Threads : t \in Active /\ (StartSample(t) \/ StartZeroSample(t) \/ StartAtomicSample(t) \/ StartAtomicZeroSample(t) \/ Load(t) \/ Store(t) \/ AtomicAdd(t))
      <2>1. PICK t \in Threads : StartSample(t) \/ StartZeroSample(t) \/ StartAtomicSample(t)
                             \/ StartAtomicZeroSample(t) \/ Load(t) \/ Store(t) \/ AtomicAdd(t)
            BY <1>3
      <2>2. UNCHANGED << params, method, kernel, phase >>
            BY <2>1 DEF StartSample, StartZeroSample, StartAtomicSample,
                       StartAtomicZeroSample, Load, Store, AtomicAdd
      <2>. QED  BY <2>2 DEF DispatchInv
<1>4. CASE EndKernel
      BY <1>4 DEF EndKernel, DispatchInv, Phases, KernelPhases
<1>5. CASE Contribute
      BY <1>5 DEF Contribute, DispatchInv, Phases, KernelPhases
<1>6. CASE AsyncRun
      BY <1>6 DEF AsyncRun, DispatchInv, Phases, KernelPhases
<1>7. CASE \E t \in Threads : t \in Active /\ (AsyncSample(t) \/ AsyncEval(t))
      <2>1. PICK t \in Threads : AsyncSample(t) \/ AsyncEval(t)
            BY <1>7
      <2>2. UNCHANGED << params, method, kernel, phase >>
            BY <2>1 DEF AsyncSample, AsyncEval
      <2>. QED  BY <2>2 DEF DispatchInv
<1>8. CASE AsyncEnd
      BY <1>8 DEF AsyncEnd, DispatchInv, Phases, KernelPhases
<1>9. CASE UNCHANGED vars
      BY <1>9 DEF vars, DispatchInv
<1>. QED  BY <1>1, <1>2, <1>3, <1>4, <1>5, <1>6, <1>7, <1>8, <1>9 DEF Next

(* The strengthening implies the property.                                *)
LEMMA DispatchInvAccepts == DispatchInv => DispatchAccepts
<1> SUFFICES ASSUME DispatchInv, phase = "error"
             PROVE  ~params.cuda /\ params.am = "Iterated"
    BY DEF DispatchAccepts
<1>1. KernelFor(params, Fixup(params).am) = "Error"
      BY DEF DispatchInv, KernelPhases
<1>. QED  BY <1>1, FixupDispatch DEF DispatchInv

(* DispatchAccepts holds in every state of every behaviour: fixup never   *)
(* leaves the fused semi-stratified kernel with a method run() rejects,  *)
(* except a user's explicit Iterated on a host space.                    *)
THEOREM DispatchAcceptsCorrect == Spec => []DispatchAccepts
<1>1. Init => DispatchInv
      BY InitDispatchInv
<1>2. DispatchInv /\ [Next]_vars => DispatchInv'
      BY NextDispatchInv
<1>3. DispatchInv => DispatchAccepts
      BY DispatchInvAccepts
<1>. QED  BY <1>1, <1>2, <1>3, PTL DEF Spec

-----------------------------------------------------------------------------
(* No add lost by the kernels that write G directly.                      *)

(* The dispatch instantiates the non-atomic ScatterView only for a user's  *)
(* Single: fixup never chooses it (the Single of lines 241-242 is always  *)
(* overwritten), and on Cuda only Atomic is dispatched.                    *)
LEMMA NonAtomicMeansSingle ==
    ASSUME NEW p \in Params,
           KernelFor(p, Fixup(p).am) = "NonAtomic"
    PROVE  p.am = "Single"
<1>1. ~p.cuda
      BY DEF KernelFor
<1>2. Fixup(p).am = DefaultAllMethod(p)
      BY <1>1 DEF Fixup, CudaAllMethod
<1>3. Fixup(p).am = "Single"
      BY <1>1 DEF KernelFor
<1>. QED  BY <1>2, <1>3 DEF DefaultAllMethod

LEMMA InitExactInv == Init => ExactInv
<1> SUFFICES ASSUME Init PROVE ExactInv
    OBVIOUS
<1>1. DispatchInv
      BY InitDispatchInv
<1>. QED  BY <1>1 DEF Init, ExactInv, RunPhases

(* A step preserves ExactInv when no user Single meets several threads.   *)
LEMMA NextExactInv ==
    ASSUME SingleThreadedNonAtomic
    PROVE  ExactInv /\ [Next]_vars => ExactInv'
<1> SUFFICES ASSUME ExactInv, [Next]_vars PROVE ExactInv'
    OBVIOUS
<1>0. DispatchInv'
      BY NextDispatchInv DEF ExactInv
<1>a. \A t \in Threads : pc[t] \in {"add", "store"} => phase \in {"nz", "z"}
      BY DEF ExactInv
<1>1. CASE DoFixup
      BY <1>0, <1>1, <1>a DEF DoFixup, ExactInv, ThreadVars, RunPhases
<1>2. CASE Gradient
      <2>1. phase = "grad" /\ issued = ZeroGrad /\ method = Fixup(params)
            /\ params \in Params
            BY <1>2 DEF Gradient, ExactInv, DispatchInv
      <2>2. kernel' = KernelFor(params, Fixup(params).am)
            BY <1>2, <2>1 DEF Gradient
      <2>3. phase' \in RunPhases => kernel' \in {"NonAtomic", "Atomic", "Duplicated"}
            BY <1>2, <2>2 DEF Gradient, KernelFor, RunPhases
      <2>4. kernel' = "NonAtomic" => MaxConc = 1
            BY <2>1, <2>2, NonAtomicMeansSingle, UserAssumption
            DEF SingleThreadedNonAtomic, Params
      <2>5. \A t \in Threads : pc[t] \notin {"add", "store"}
            BY <1>a, <2>1
      <2>. QED  BY <1>0, <1>2, <2>1, <2>3, <2>4, <2>5
                DEF Gradient, ExactInv, ThreadVars, RunPhases
<1>3. CASE \E t \in Threads : t \in Active /\ (StartSample(t) \/ StartZeroSample(t) \/ StartAtomicSample(t) \/ StartAtomicZeroSample(t) \/ Load(t) \/ Store(t) \/ AtomicAdd(t))
      <2>1. PICK t \in Threads : StartSample(t) \/ StartZeroSample(t) \/ StartAtomicSample(t)
                             \/ StartAtomicZeroSample(t) \/ Load(t) \/ Store(t) \/ AtomicAdd(t)
            BY <1>3
      <2>2. CASE StartSample(t) \/ StartZeroSample(t) \/ StartAtomicSample(t)
                 \/ StartAtomicZeroSample(t)
            <3>1. /\ pc' = [pc EXCEPT ![t] = "add"]
                  /\ \A s \in Threads \ {t} : n'[s] = n[s] /\ ind'[s] = ind[s]
                  /\ DOMAIN n' = Threads /\ DOMAIN ind' = Threads
                  /\ phase \in {"nz", "z"}
                  /\ UNCHANGED << params, method, kernel, phase, G, reg, issued >>
                  BY <2>2 DEF StartSample, StartZeroSample, StartAtomicSample,
                             StartAtomicZeroSample, ExactInv
            <3>. QED  BY <1>0, <3>1 DEF ExactInv, Cell
      <2>3. CASE Load(t)
            BY <1>0, <2>3 DEF Load, ExactInv, Cell
      <2>4. CASE Store(t)
            <3>1. phase \in {"nz", "z"} /\ kernel \in {"NonAtomic", "Duplicated"}
                  BY <2>4 DEF Store, ExactInv
            <3>2. pc' \in [Threads -> {"idle", "add", "store", "eval"}]
                  /\ pc'[t] \in {"idle", "add"}
                  /\ \A s \in Threads \ {t} : pc'[s] = pc[s]
                  BY <2>4 DEF Store, Advance, ExactInv
            <3>3. kernel = "NonAtomic" => G' = issued'
                  BY <2>4, <3>1 DEF Store, ExactInv, RunPhases
            <3>4. kernel = "NonAtomic" => Threads = {t}
                  BY DEF ExactInv, Threads
            <3>5. /\ DOMAIN n' = Threads /\ DOMAIN ind' = Threads /\ DOMAIN reg' = Threads
                  /\ UNCHANGED << params, method, kernel, phase, reg >>
                  BY <2>4 DEF Store, Advance, ExactInv
            <3>6. kernel' = "NonAtomic" =>
                    \A s \in Threads : pc'[s] = "store" => reg'[s] = G'[Cell(s)']
                  BY <3>2, <3>4, <3>5
            <3>7. \A s \in Threads : pc'[s] = "store" => kernel' \in {"NonAtomic", "Duplicated"}
                  BY <3>1, <3>2, <3>5
            <3>. QED  BY <1>0, <3>1, <3>2, <3>3, <3>5, <3>6, <3>7
                      DEF ExactInv, RunPhases
      <2>5. CASE AtomicAdd(t)
            <3>1. pc' \in [Threads -> {"idle", "add", "store", "eval"}]
                  /\ pc'[t] \in {"idle", "add"}
                  /\ \A s \in Threads \ {t} : pc'[s] = pc[s]
                  BY <2>5 DEF AtomicAdd, Advance, ExactInv
            <3>2. phase \in {"nz", "z"} /\ G' = issued'
                  BY <2>5 DEF AtomicAdd, ExactInv, RunPhases
            <3>3. /\ DOMAIN n' = Threads /\ DOMAIN ind' = Threads /\ DOMAIN reg' = Threads
                  /\ UNCHANGED << params, method, phase, reg >>
                  /\ kernel = "Atomic" /\ kernel' = "Atomic"
                  BY <2>5 DEF AtomicAdd, Advance, ExactInv
            <3>. QED  BY <1>0, <3>1, <3>2, <3>3 DEF ExactInv, RunPhases
      <2>. QED  BY <2>1, <2>2, <2>3, <2>4, <2>5
<1>4. CASE EndKernel
      BY <1>0, <1>4 DEF EndKernel, ExactInv, ThreadVars, RunPhases
<1>5. CASE Contribute
      BY <1>0, <1>5, <1>a DEF Contribute, ExactInv, ThreadVars, RunPhases
<1>6. CASE AsyncRun
      BY <1>0, <1>6, <1>a DEF AsyncRun, ExactInv, ThreadVars, RunPhases
<1>7. CASE \E t \in Threads : t \in Active /\ (AsyncSample(t) \/ AsyncEval(t))
      <2>1. PICK t \in Threads : AsyncSample(t) \/ AsyncEval(t)
            BY <1>7
      <2>2. CASE AsyncSample(t)
            BY <1>0, <2>2 DEF AsyncSample, ExactInv, Cell, RunPhases
      <2>3. CASE AsyncEval(t)
            <3>1. /\ pc[t] = "eval"
                  /\ pc' \in {pc, [pc EXCEPT ![t] = "idle"]}
                  /\ \A s \in Threads \ {t} : n'[s] = n[s]
                  /\ DOMAIN n' = Threads
                  /\ UNCHANGED << params, method, kernel, phase, G, ind, reg, issued >>
                  BY <2>3 DEF AsyncEval, ExactInv
            <3>. QED  BY <1>0, <3>1 DEF ExactInv, Cell, RunPhases
      <2>. QED  BY <2>1, <2>2, <2>3
<1>8. CASE AsyncEnd
      BY <1>0, <1>8 DEF AsyncEnd, ExactInv, ThreadVars, RunPhases
<1>9. CASE UNCHANGED vars
      BY <1>0, <1>9 DEF vars, ExactInv, ThreadVars, RunPhases, Cell
<1>. QED  BY <1>1, <1>2, <1>3, <1>4, <1>5, <1>6, <1>7, <1>8, <1>9 DEF Next

(* GradientExact for the Atomic kernel (every Cuda run, a host Atomic)    *)
(* and for the non-atomic ScatterView of a user's Single on one thread:   *)
(* however the threads interleave, G holds every add once the call has   *)
(* returned.  The Duplicated sums are left to TLC (README).               *)
THEOREM NonDuplicatedExact ==
    ASSUME SingleThreadedNonAtomic
    PROVE  Spec => [](kernel # "Duplicated" => GradientExact)
<1>1. Init => ExactInv
      BY InitExactInv
<1>2. ExactInv /\ [Next]_vars => ExactInv'
      BY NextExactInv
<1>3. ExactInv => (kernel # "Duplicated" => GradientExact)
      BY DEF ExactInv, GradientExact, RunPhases
<1>. QED  BY <1>1, <1>2, <1>3, PTL DEF Spec

=============================================================================
