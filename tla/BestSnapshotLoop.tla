--------------------------- MODULE BestSnapshotLoop ---------------------------
(***************************************************************************)
(* What the epoch loop of DistGCP promises, with the epoch and iteration  *)
(* counters, meta_u, fest_prev, the returned value and the acceptance     *)
(* test hidden.  The working vector is trained (epochs are only added to  *)
(* it) and evaluated; an evaluation is either kept, and then becomes the  *)
(* best snapshot exactly when its fit is strictly lower, or rejected,     *)
(* and then the working vector rolls back to the best snapshot.  A NaN    *)
(* fit ends the loop at once.  On return the factors are either restored *)
(* from the best snapshot and exported, or both left as they are.        *)
(* DistGCPDriver implements this specification (BestSnapshotRefined).    *)
(***************************************************************************)
EXTENDS Integers

CONSTANTS
  Params,   \* the parameter vectors: [hist : SUBSET epochs, fit : ...]
  Fits,     \* the fits an evaluation can give, NaN among them
  NaN,      \* a NaN fit
  None      \* the fit of a vector not evaluated yet

VARIABLES
  work,     \* the working parameters
  best,     \* the best snapshot
  bestFit,  \* its fit
  out,      \* the factors exported after the loop
  running   \* the loop has not returned

avars == << work, best, bestFit, out, running >>

(* Floating-point <: false whenever a NaN is compared.                     *)
Lower(a, b) == a # NaN /\ b # NaN /\ a < b

(* An evaluated vector keeps its fit; a trained one may have any.          *)
Measure(v) == IF v.fit = None THEN Fits ELSE {v.fit}

AInit ==
  /\ work \in Params
  /\ work.hist = {} /\ work.fit \in Fits
  /\ best = work /\ out = work /\ bestFit = work.fit
  /\ running = TRUE

(* Gradient steps, local or through a meta step: epochs are only added.    *)
ATrain ==
  /\ running
  /\ work' \in Params
  /\ work.hist \subseteq work'.hist /\ work'.fit = None
  /\ UNCHANGED << best, bestFit, out, running >>

(* An evaluation kept: a new best snapshot exactly when strictly lower.    *)
AKeep ==
  /\ running
  /\ \E f \in Measure(work) :
       /\ work' = [work EXCEPT !.fit = f]
       /\ \/ Lower(f, bestFit) /\ best' = work' /\ bestFit' = f
          \/ ~Lower(f, bestFit) /\ UNCHANGED << best, bestFit >>
  /\ UNCHANGED << out, running >>

(* An evaluation rejected: the working vector rolls back to the best     *)
(* snapshot.                                                               *)
ARollback ==
  /\ running
  /\ work' = best
  /\ UNCHANGED << best, bestFit, out, running >>

(* A NaN fit: the loop returns at once.                                    *)
AAbort ==
  /\ running
  /\ NaN \in Measure(work)
  /\ work' = [work EXCEPT !.fit = NaN]
  /\ running' = FALSE
  /\ UNCHANGED << best, bestFit, out >>

(* The loop returns, having restored and exported the best snapshot, or   *)
(* leaving the working and the exported factors alone.                    *)
AReturn ==
  /\ running
  /\ running' = FALSE
  /\ \/ work' = best /\ out' = best
     \/ UNCHANGED << work, out >>
  /\ UNCHANGED << best, bestFit >>

ANext == ATrain \/ AKeep \/ ARollback \/ AAbort \/ AReturn

ASpec == AInit /\ [][ANext]_avars

=============================================================================
