---------------------------- MODULE DistGCPDriver ----------------------------
(***************************************************************************)
(* The epoch loop of DistGCP (src/unnamed/part_002): allReduceTrad and     *)
(* fedOpt.  Every rank takes the same control decisions, because the only  *)
(* value a decision reads, the fit estimate fest, is gridAllReduce'd; this *)
(* module therefore describes the loop once, for the whole grid.  The      *)
(* replicas of the factor matrices and the collectives that keep them      *)
(* equal are the subject of another module.                               *)
(*                                                                         *)
(* Data abstraction.  A parameter vector (u, u_best, meta_u, Kfac_) is a   *)
(* record: the set of epochs whose gradient steps it carries (hist) and    *)
(* its fit estimate once evaluated (fit).  gcp_value over the fixed value  *)
(* sample X_val is a function of the parameters, so a vector that has been *)
(* evaluated keeps its fit, and a new one may have any fit in Fits.  The   *)
(* learning-rate schedule (annealer, setStep) only changes numbers, so it  *)
(* is abstracted into that nondeterministic choice.                        *)
(***************************************************************************)
EXTENDS Integers

CONSTANTS
  Methods,     \* the "method" options pickMethod may be given, as the
               \* loop they select: "trad" (allReduceTrad) or "fedopt"
  FedAvg,      \* the "fedavg" option of fedOpt
  MaxEpochs,   \* algParams.maxiters ("max_epochs")
  EpochIters,  \* algParams.epoch_iters
  DpIters,     \* "downpour_iters" of fedOpt
  LossVals,    \* the finite values an all-reduced fit estimate can take
  NaN,         \* a NaN fit estimate
  None         \* no value: not evaluated, not rejected, not returned

ASSUME MethodAssumption == Methods \subseteq {"trad", "fedopt"} /\ Methods # {}
ASSUME FedAvgAssumption == FedAvg \in BOOLEAN
ASSUME MaxEpochsAssumption == MaxEpochs \in Nat
ASSUME EpochItersAssumption == EpochIters \in Nat
ASSUME DpItersAssumption == DpIters \in Nat \ {0}
ASSUME LossValsAssumption == LossVals \subseteq Int
ASSUME SentinelAssumption == NaN \notin Int /\ None \notin Int /\ NaN # None

(* The literal 0.001 of `fest_diff > -0.001 * fest_best`, as 1/Tol.        *)
Tol == 1000

Epochs == 0 .. (MaxEpochs - 1)
Fits == LossVals \cup {NaN}
Params == [hist : SUBSET Epochs, fit : Fits \cup {None}]

VARIABLES
  method,     \* the loop pickMethod chose: "trad" or "fedopt"
  pc,         \* "run" inside compute(), "done" once it has returned
  e,          \* epoch counter of the outer loop
  i,          \* iteration counter of the inner loop
  u,          \* the working parameters (u / ut)
  uBest,      \* u_best
  metaU,      \* meta_u of fedOpt
  festPrev,   \* fest_prev
  festBest,   \* fest_best
  kfac,       \* the member Kfac_, read by exportKTensor
  ret,        \* the value compute() returned
  rejected,   \* history: the fit each rejected epoch was rejected with
  accepted    \* history: the fits of the initial and every accepted guess

vars == <<method, pc, e, i, u, uBest, metaU, festPrev, festBest, kfac, ret,
          rejected, accepted>>

-----------------------------------------------------------------------------
(* Floating-point comparison: every comparison with a NaN is false.       *)
Lt(a, b) == a # NaN /\ b # NaN /\ a < b

(* Mutant: the acceptance test with the sign of the tolerance flipped.   *)
EpochPassesSignFlipped(prev, f, best) ==
  /\ prev # NaN /\ f # NaN /\ best # NaN
  /\ Tol * (prev - f) > best

(* The acceptance test `fest_diff > -0.001 * fest_best` with             *)
(* fest_diff = fest_prev - fest, scaled by Tol.                           *)
EpochPasses(prev, f, best) ==
  /\ prev # NaN /\ f # NaN /\ best # NaN
  /\ Tol * (prev - f) > -best

(* gcp_value(X_val, ut, w_val, loss): the fit of an evaluated vector is   *)
(* its fit; a vector never evaluated may have any.                        *)
FitsOf(p) == IF p.fit = None THEN Fits ELSE {p.fit}

(* The inner loop's sync test of fedOpt.                                  *)
SyncDue == (i + 1) % DpIters = 0 \/ i = EpochIters - 1

(* One gradient step of epoch e: sampler.fusedGradient then stepper.eval. *)
Stepped(p) == [hist |-> p.hist \cup {e}, fit |-> None]

(* End of an epoch: ++e, and the inner counter restarts.                  *)
NextEpoch == e' = e + 1 /\ i' = 0

-----------------------------------------------------------------------------
(* compute() and pickMethod (lines 220-256) read the method option and   *)
(* enter allReduceTrad or fedOpt, which start from Kfac_.                 *)
Init ==
  /\ method \in Methods
  /\ pc = "run"
  /\ e = 0
  /\ i = 0
  /\ \E f0 \in Fits :
       /\ u = [hist |-> {}, fit |-> f0]
       /\ festPrev = f0
       /\ festBest = f0
       /\ accepted = {f0}
  /\ uBest = u
  /\ metaU = u
  /\ kfac = u
  /\ ret = None
  /\ rejected = [x \in Epochs |-> None]

(* Mutant: the inner loop of allReduceTrad runs to i <= epochIters.      *)
TradIterLoopBound ==
  /\ pc = "run" /\ method = "trad"
  /\ e < MaxEpochs /\ i <= EpochIters
  /\ u' = Stepped(u)
  /\ i' = i + 1
  /\ UNCHANGED <<method, pc, e, uBest, metaU, festPrev, festBest, kfac, ret,
                 rejected, accepted>>

(* allReduceTrad, one pass of the inner loop: stepper.update, g.zero,     *)
(* fusedGradient, allReduceKT(GFac, false), stepper.eval(g, u).           *)
TradIter ==
  /\ pc = "run" /\ method = "trad"
  /\ e < MaxEpochs /\ i < EpochIters
  /\ u' = Stepped(u)
  /\ i' = i + 1
  /\ UNCHANGED <<method, pc, e, uBest, metaU, festPrev, festBest, kfac, ret,
                 rejected, accepted>>

(* fedOpt, one pass of the inner loop that ends without a meta step:      *)
(* do_epoch_iter (g.zero, fusedGradient, stepper.eval; no stepper.update) *)
(* and, at a sync with fedavg, allReduceKT(ut, true).  That average of    *)
(* the rank-local replicas is the grid's one u, which carries the steps   *)
(* of this epoch as each replica does.                                    *)
FedIter ==
  /\ pc = "run" /\ method = "fedopt"
  /\ e < MaxEpochs /\ i < EpochIters
  /\ ~SyncDue \/ FedAvg
  /\ u' = Stepped(u)
  /\ i' = i + 1
  /\ UNCHANGED <<method, pc, e, uBest, metaU, festPrev, festBest, kfac, ret,
                 rejected, accepted>>

(* fedOpt, a pass of the inner loop that ends in the meta step:           *)
(* diff = meta_u - u, allReduceKT(Dfac, true), meta_stepper.eval(diff,    *)
(* meta_u), u.set(meta_u).  The new meta_u carries what meta_u and the    *)
(* locally trained u carried.                                             *)
FedMetaIter ==
  /\ pc = "run" /\ method = "fedopt"
  /\ e < MaxEpochs /\ i < EpochIters
  /\ SyncDue /\ ~FedAvg
  /\ LET local == Stepped(u)
     IN  metaU' = [hist |-> metaU.hist \cup local.hist, fit |-> None]
  /\ u' = metaU'
  /\ i' = i + 1
  /\ UNCHANGED <<method, pc, e, uBest, festPrev, festBest, kfac, ret,
                 rejected, accepted>>

(* Mutant: a passed epoch always becomes the best one (the test          *)
(* `fest < fest_best` dropped).                                           *)
AcceptAlwaysBest ==
  /\ pc = "run" /\ e < MaxEpochs /\ i = EpochIters
  /\ \E f \in FitsOf(u) :
       /\ method = "fedopt" => f # NaN
       /\ EpochPasses(festPrev, f, festBest)
       /\ u' = [u EXCEPT !.fit = f]
       /\ festPrev' = f
       /\ accepted' = accepted \cup {f}
       /\ uBest' = u'
       /\ festBest' = f
  /\ NextEpoch
  /\ UNCHANGED <<method, pc, metaU, kfac, ret, rejected>>

(* End of epoch, fest passes the test: setPassed, fest_prev = fest,       *)
(* annealer.success(), and a new best when fest < fest_best.  fedOpt has  *)
(* returned before this point when fest is NaN.                           *)
Accept ==
  /\ pc = "run" /\ e < MaxEpochs /\ i = EpochIters
  /\ \E f \in FitsOf(u) :
       /\ method = "fedopt" => f # NaN
       /\ EpochPasses(festPrev, f, festBest)
       /\ u' = [u EXCEPT !.fit = f]
       /\ festPrev' = f
       /\ accepted' = accepted \cup {f}
       /\ \/ /\ Lt(f, festBest)
             /\ uBest' = u'
             /\ festBest' = f
          \/ /\ ~Lt(f, festBest)
             /\ UNCHANGED <<uBest, festBest>>
  /\ NextEpoch
  /\ UNCHANGED <<method, pc, metaU, kfac, ret, rejected>>

(* Mutant: a failed epoch is not rolled back (u.set(u_best) dropped).    *)
RejectNoRollback ==
  /\ pc = "run" /\ e < MaxEpochs /\ i = EpochIters
  /\ \E f \in FitsOf(u) :
       /\ method = "fedopt" => f # NaN
       /\ ~EpochPasses(festPrev, f, festBest)
       /\ rejected' = [rejected EXCEPT ![e] = f]
  /\ NextEpoch
  /\ UNCHANGED <<method, pc, u, uBest, metaU, festPrev, festBest, kfac, ret,
                 accepted>>

(* End of epoch, fest fails the test: u.set(u_best), setFailed,           *)
(* annealer.failed().  fest_prev and fest_best stay; the reset of the     *)
(* local fest is dead, fest being recomputed before it is read.           *)
Reject ==
  /\ pc = "run" /\ e < MaxEpochs /\ i = EpochIters
  /\ \E f \in FitsOf(u) :
       /\ method = "fedopt" => f # NaN
       /\ ~EpochPasses(festPrev, f, festBest)
       /\ rejected' = [rejected EXCEPT ![e] = f]
  /\ u' = uBest
  /\ NextEpoch
  /\ UNCHANGED <<method, pc, uBest, metaU, festPrev, festBest, kfac, ret, accepted>>

(* fedOpt only: std::isnan(fest) returns fest_best at once, on every rank *)
(* alike since fest is all-reduced.  Kfac_ is left as it was.             *)
NaNAbort ==
  /\ pc = "run" /\ method = "fedopt"
  /\ e < MaxEpochs /\ i = EpochIters
  /\ NaN \in FitsOf(u)
  /\ u' = [u EXCEPT !.fit = NaN]
  /\ ret' = festBest
  /\ pc' = "done"
  /\ UNCHANGED <<method, e, i, uBest, metaU, festPrev, festBest, kfac,
                 rejected, accepted>>

(* Mutant: allReduceTrad copies ut to Kfac_ without u.set(u_best).       *)
FinishNoRestore ==
  /\ pc = "run" /\ e = MaxEpochs
  /\ ret' = festPrev
  /\ pc' = "done"
  /\ \/ /\ method = "trad"
        /\ kfac' = u
        /\ UNCHANGED u
     \/ /\ method = "fedopt"
        /\ UNCHANGED <<u, kfac>>
  /\ UNCHANGED <<method, e, i, uBest, metaU, festPrev, festBest, rejected, accepted>>

(* After the epoch loop.  allReduceTrad: u.set(u_best),                   *)
(* deep_copy(Kfac_, ut), return fest_prev.  fedOpt: return fest_prev.     *)
Finish ==
  /\ pc = "run" /\ e = MaxEpochs
  /\ ret' = festPrev
  /\ pc' = "done"
  /\ \/ /\ method = "trad"
        /\ u' = uBest
        /\ kfac' = uBest
     \/ /\ method = "fedopt"
        /\ UNCHANGED <<u, kfac>>
  /\ UNCHANGED <<method, e, i, uBest, metaU, festPrev, festBest, rejected, accepted>>

(* compute() has returned; the process goes on to exportKTensor.          *)
Terminated == pc = "done" /\ UNCHANGED vars

Next ==
  \/ TradIter \/ FedIter \/ FedMetaIter
  \/ Accept \/ Reject \/ NaNAbort
  \/ Finish \/ Terminated

Spec == Init /\ [][Next]_vars

Abstract == INSTANCE BestSnapshotLoop
  WITH work <- u, best <- uBest, bestFit <- festBest, out <- kfac,
       running <- (pc = "run")

-----------------------------------------------------------------------------
TypeOK ==
  /\ method \in {"trad", "fedopt"}
  /\ pc \in {"run", "done"}
  /\ e \in 0 .. MaxEpochs
  /\ i \in 0 .. EpochIters
  /\ u \in Params /\ uBest \in Params /\ metaU \in Params /\ kfac \in Params
  /\ festPrev \in Fits /\ festBest \in Fits
  /\ ret \in Fits \cup {None}
  /\ rejected \in [Epochs -> Fits \cup {None}]
  /\ accepted \subseteq Fits

(* Rollback: the working parameters never carry the gradient steps of an  *)
(* epoch that was rejected (u.set(u_best) undoes them, and nothing brings  *)
(* them back later).                                                      *)
NoRejectedProgress == \A x \in u.hist : rejected[x] = None

(* NoRejectedProgress where the code is meant to keep it: in             *)
(* allReduceTrad, and in fedOpt with fedavg, whose syncs only average.    *)
RollbackKept == method = "trad" \/ FedAvg => NoRejectedProgress

(* The best snapshot: u_best is the vector fest_best was measured on, and  *)
(* no accepted epoch (nor the initial guess) had a lower fit than fest_best.*)
BestIsMinimum ==
  /\ uBest.fit = festBest
  /\ festBest \in accepted
  /\ \A a \in accepted : ~Lt(a, festBest)

(* The tolerance `-0.001 * fest_best` only lets small regressions through: *)
(* an epoch is never rolled back although its fit beat the best one.      *)
ImprovementNeverRejected ==
  \A x \in Epochs : rejected[x] # None => ~Lt(rejected[x], festBest)

(* Seen without its counters, meta_u and histories, either loop trains,  *)
(* keeps or rolls back, aborts on NaN and returns as BestSnapshotLoop      *)
(* says: the best snapshot only improves, a rollback restores it, and the  *)
(* exported factors are the best snapshot or untouched.                    *)
BestSnapshotRefined == Abstract!ASpec

(* When compute() has returned, Kfac_ (what exportKTensor writes) is the   *)
(* best snapshot.                                                         *)
FinalIsBest == pc = "done" => kfac = uBest

(* The value compute() returns is the fit of the factors it leaves in      *)
(* Kfac_.                                                                 *)
ReturnedFitMatchesFactors == pc = "done" => ret = kfac.fit

=============================================================================
