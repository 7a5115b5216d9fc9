------------------------- MODULE DistGCPDriver_proofs -------------------------
(***************************************************************************)
(* Proofs about the epoch loop of allReduceTrad and fedOpt, for every      *)
(* value of the constants that DistGCPDriver's assumptions allow.          *)
(***************************************************************************)
EXTENDS DistGCPDriver, TLAPS

(* The facts on the constants that every proof below uses.                 *)
LEMMA ConstantFacts ==
  /\ Methods \subseteq {"trad", "fedopt"} /\ Methods # {}
  /\ FedAvg \in BOOLEAN
  /\ MaxEpochs \in Nat /\ EpochIters \in Nat /\ DpIters \in Nat \ {0}
  /\ LossVals \subseteq Int
  /\ NaN \notin Int /\ None \notin Int /\ NaN # None
BY MethodAssumption, FedAvgAssumption, MaxEpochsAssumption,
   EpochItersAssumption, DpItersAssumption, LossValsAssumption,
   SentinelAssumption

(* gcp_value returns a fit estimate: the fits an evaluation may yield are  *)
(* fits.                                                                   *)
LEMMA FitsOfType ==
  ASSUME NEW p \in Params
  PROVE  FitsOf(p) \subseteq Fits
BY DEF FitsOf, Params

(* A gradient step of an epoch of the loop yields a parameter vector.     *)
LEMMA SteppedType ==
  ASSUME NEW p \in Params, e \in Epochs
  PROVE  Stepped(p) \in Params
BY DEF Stepped, Params

-----------------------------------------------------------------------------
(* One step of the loop keeps every variable in its type.               *)
LEMMA TypeOKStep == TypeOK /\ [Next]_vars => TypeOK'
<1> USE ConstantFacts
<1> SUFFICES ASSUME TypeOK, [Next]_vars PROVE TypeOK'
  OBVIOUS
<1>1. CASE TradIter
  <2>1. e \in Epochs
    BY <1>1 DEF TradIter, TypeOK, Epochs
  <2>2. QED
    BY <1>1, <2>1, SteppedType DEF TradIter, TypeOK
<1>2. CASE FedIter
  <2>1. e \in Epochs
    BY <1>2 DEF FedIter, TypeOK, Epochs
  <2>2. QED
    BY <1>2, <2>1, SteppedType DEF FedIter, TypeOK
<1>3. CASE FedMetaIter
  <2>1. e \in Epochs
    BY <1>3 DEF FedMetaIter, TypeOK, Epochs
  <2>2. metaU' \in Params
    BY <1>3, <2>1, SteppedType DEF FedMetaIter, TypeOK, Params
  <2>3. QED
    BY <1>3, <2>2 DEF FedMetaIter, TypeOK
<1>4. CASE Accept
  <2>1. PICK f \in FitsOf(u) :
          /\ u' = [u EXCEPT !.fit = f]
          /\ festPrev' = f
          /\ accepted' = accepted \cup {f}
          /\ \/ uBest' = u' /\ festBest' = f
             \/ UNCHANGED <<uBest, festBest>>
    BY <1>4 DEF Accept
  <2>2. f \in Fits
    BY FitsOfType DEF TypeOK
  <2>3. u' \in Params
    BY <2>1, <2>2 DEF TypeOK, Params
  <2>4. QED
    BY <1>4, <2>1, <2>2, <2>3 DEF Accept, NextEpoch, TypeOK, Epochs
<1>5. CASE Reject
  <2>1. PICK f \in FitsOf(u) : rejected' = [rejected EXCEPT ![e] = f]
    BY <1>5 DEF Reject
  <2>2. f \in Fits
    BY FitsOfType DEF TypeOK
  <2>3. e \in Epochs
    BY <1>5 DEF Reject, TypeOK, Epochs
  <2>4. QED
    BY <1>5, <2>1, <2>2, <2>3 DEF Reject, NextEpoch, TypeOK
<1>6. CASE NaNAbort
  BY <1>6 DEF NaNAbort, TypeOK, Params, Fits
<1>7. CASE Finish
  BY <1>7 DEF Finish, TypeOK
<1>8. CASE Terminated
  BY <1>8 DEF Terminated, vars, TypeOK
<1>9. CASE UNCHANGED vars
  BY <1>9 DEF vars, TypeOK
<1>10. QED
  BY <1>1, <1>2, <1>3, <1>4, <1>5, <1>6, <1>7, <1>8, <1>9 DEF Next

(* The initial states are well typed, whichever method compute() picks. *)
LEMMA InitType == Init => TypeOK
<1> SUFFICES ASSUME Init PROVE TypeOK
  OBVIOUS
<1>1. method \in {"trad", "fedopt"}
  BY MethodAssumption DEF Init
<1>2. QED
  BY <1>1, ConstantFacts DEF Init, TypeOK, Params, Fits, Epochs

(* A fit is never strictly below itself, and a number fit is <= itself:  *)
(* the comparisons of the loop are irreflexive and reflexive as the code  *)
(* expects, NaN aside.                                                     *)
LEMMA FitSelf == \A x \in Fits : ~Lt(x, x) /\ (x # NaN => x <= x)
BY ConstantFacts DEF Fits, Lt

(* What an initial state is, with the initial fit named u.fit: the      *)
(* initial guess is u, u_best, meta_u and Kfac_ at once, no epoch has run  *)
(* and none is rejected.                                                   *)
InitState ==
         /\ TypeOK
         /\ pc = "run" /\ e = 0 /\ i = 0 /\ ret = None
         /\ u.hist = {} /\ u.fit \in Fits
         /\ uBest = u /\ metaU = u /\ kfac = u
         /\ festPrev = u.fit /\ festBest = u.fit /\ accepted = {u.fit}
         /\ rejected = [x \in Epochs |-> None]

(* Every initial state is one.                                           *)
LEMMA InitFacts == Init => InitState
<1> SUFFICES ASSUME Init PROVE InitState
  OBVIOUS
<1>1. TypeOK
  BY InitType
<1>2. PICK f0 \in Fits :
        /\ u = [hist |-> {}, fit |-> f0]
        /\ festPrev = f0 /\ festBest = f0 /\ accepted = {f0}
  BY DEF Init
<1>3. QED
  BY <1>1, <1>2 DEF Init, InitState

(* Type correctness: every variable of the loop keeps its type, whatever   *)
(* method, bounds and losses compute() is run with.                        *)
THEOREM TypeCorrect == Spec => []TypeOK
<1> USE ConstantFacts
<1>1. Init => TypeOK
  BY InitType
<1>2. TypeOK /\ [Next]_vars => TypeOK'
  BY TypeOKStep
<1>3. QED
  BY <1>1, <1>2, PTL DEF Spec

-----------------------------------------------------------------------------
(* The strengthening of NoRejectedProgress.  u_best only ever holds steps  *)
(* of epochs already closed (accepted), u holds steps of closed epochs and *)
(* of the current one, and no epoch from the current one on is marked      *)
(* rejected; so the rollback u.set(u_best) drops the steps of the epoch    *)
(* being rejected.                                                         *)
RollbackInv ==
  /\ TypeOK
  /\ NoRejectedProgress
  /\ \A x \in uBest.hist : x < e /\ rejected[x] = None
  /\ \A x \in u.hist : x <= e
  /\ \A x \in Epochs : x >= e => rejected[x] = None

(* The strengthening of ImprovementNeverRejected: fest_prev and fest_best  *)
(* are NaN together, and otherwise fest_prev >= fest_best.                *)
ImprovementInv ==
  /\ TypeOK
  /\ ImprovementNeverRejected
  /\ (festBest = NaN) <=> (festPrev = NaN)
  /\ festBest # NaN => festBest <= festPrev

-----------------------------------------------------------------------------
(* The best snapshot is sound in both allReduceTrad and fedOpt: u_best is  *)
(* the vector fest_best was measured on (`u_best.set(u); fest_best =       *)
(* fest` happen together) and fest_best is the least fit accepted, for any *)
(* losses, bounds and method.  TypeOK /\ BestIsMinimum is inductive.       *)
THEOREM BestSnapshot == Spec => []BestIsMinimum
<1> USE ConstantFacts
<1> DEFINE BInv == TypeOK /\ BestIsMinimum
<1>1. Init => BInv
  <2> SUFFICES ASSUME Init PROVE BInv
    OBVIOUS
  <2>1. InitState
    BY InitFacts
  <2>2. u.fit \in Fits
    BY <2>1 DEF InitState
  <2>3. ~Lt(u.fit, u.fit)
    BY <2>2, FitSelf
  <2>. QED
    BY <2>1, <2>3 DEF InitState, BestIsMinimum
<1>2. BInv /\ [Next]_vars => BInv'
  <2> SUFFICES ASSUME TypeOK, BestIsMinimum, [Next]_vars
               PROVE  TypeOK' /\ BestIsMinimum'
    OBVIOUS
  <2>1. TypeOK'
    BY TypeOKStep
  <2>2. CASE TradIter \/ FedIter \/ FedMetaIter
    BY <2>1, <2>2 DEF TradIter, FedIter, FedMetaIter, BestIsMinimum
  <2>3. CASE Accept
    <3>1. PICK f \in FitsOf(u) :
            /\ u' = [u EXCEPT !.fit = f]
            /\ accepted' = accepted \cup {f}
            /\ \/ Lt(f, festBest) /\ uBest' = u' /\ festBest' = f
               \/ ~Lt(f, festBest) /\ UNCHANGED <<uBest, festBest>>
      BY <2>3 DEF Accept
    <3>2. f \in Fits
      BY FitsOfType DEF TypeOK
    <3>3. CASE Lt(f, festBest) /\ uBest' = u' /\ festBest' = f
      <4>1. uBest'.fit = festBest'
        BY <3>1, <3>3 DEF TypeOK, Params
      <4>2. \A a \in accepted' : ~Lt(a, festBest')
        BY <3>1, <3>2, <3>3 DEF BestIsMinimum, TypeOK, Fits, Lt
      <4>3. QED
        BY <2>1, <3>1, <3>3, <4>1, <4>2 DEF BestIsMinimum
    <3>4. CASE ~Lt(f, festBest) /\ UNCHANGED <<uBest, festBest>>
      BY <2>1, <3>1, <3>4 DEF BestIsMinimum
    <3>5. QED
      BY <3>1, <3>3, <3>4
  <2>4. CASE Reject
    BY <2>1, <2>4 DEF Reject, BestIsMinimum
  <2>5. CASE NaNAbort
    BY <2>1, <2>5 DEF NaNAbort, BestIsMinimum
  <2>6. CASE Finish
    BY <2>1, <2>6 DEF Finish, BestIsMinimum
  <2>7. CASE Terminated \/ UNCHANGED vars
    BY <2>1, <2>7 DEF Terminated, vars, BestIsMinimum
  <2>8. QED
    BY <2>2, <2>3, <2>4, <2>5, <2>6, <2>7 DEF Next
<1>3. QED
  BY <1>1, <1>2, PTL DEF Spec

-----------------------------------------------------------------------------
(* The rollback of a rejected epoch is never undone in allReduceTrad, nor  *)
(* in fedOpt with fedavg: u never again carries the steps of an epoch that *)
(* u.set(u_best) rolled back.  (fedOpt without fedavg is excluded: its     *)
(* meta step u.set(meta_u) brings them back, see run fedopt_rollback.)     *)
LEMMA RollbackStep ==
  ASSUME method = "trad" \/ FedAvg
  PROVE  RollbackInv /\ [Next]_vars => RollbackInv'
<1> USE ConstantFacts
<1>2. RollbackInv /\ [Next]_vars => RollbackInv'
  <2> SUFFICES ASSUME RollbackInv, [Next]_vars PROVE RollbackInv'
    OBVIOUS
  <2>1. TypeOK'
    BY TypeOKStep DEF RollbackInv
  <2>2. CASE TradIter \/ FedIter
    <3>1. u'.hist = u.hist \cup {e} /\ e < MaxEpochs
      BY <2>2 DEF TradIter, FedIter, Stepped
    <3>2. rejected[e] = None
      BY <3>1 DEF RollbackInv, TypeOK, Epochs
    <3>3. UNCHANGED <<e, uBest, rejected>>
      BY <2>2 DEF TradIter, FedIter
    <3>4. QED
      BY <2>1, <3>1, <3>2, <3>3
         DEF RollbackInv, NoRejectedProgress, TypeOK, Params, Epochs
  <2>3. CASE FedMetaIter
    BY <2>3 DEF FedMetaIter
  <2>4. CASE Accept
    <3>1. PICK f \in FitsOf(u) :
            /\ u' = [u EXCEPT !.fit = f]
            /\ \/ uBest' = u'
               \/ UNCHANGED uBest
      BY <2>4 DEF Accept
    <3>2. u'.hist = u.hist
      BY <3>1 DEF RollbackInv, TypeOK, Params
    <3>3. /\ e' = e + 1 /\ e \in Nat
          /\ UNCHANGED rejected
      BY <2>4 DEF Accept, NextEpoch, RollbackInv, TypeOK
    <3>4. \A x \in uBest'.hist : x < e' /\ rejected'[x] = None
      <4>1. CASE uBest' = u'
        BY <3>2, <3>3, <4>1 DEF RollbackInv, NoRejectedProgress, TypeOK,
                                Params, Epochs
      <4>2. CASE UNCHANGED uBest
        BY <3>3, <4>2 DEF RollbackInv, TypeOK, Params, Epochs
      <4>3. QED
        BY <3>1, <4>1, <4>2
    <3>5. QED
      BY <2>1, <3>2, <3>3, <3>4
         DEF RollbackInv, NoRejectedProgress, TypeOK, Params, Epochs
  <2>5. CASE Reject
    <3>1. PICK f \in FitsOf(u) : rejected' = [rejected EXCEPT ![e] = f]
      BY <2>5 DEF Reject
    <3>2. /\ e \in Epochs /\ e' = e + 1
          /\ u' = uBest /\ UNCHANGED uBest
      BY <2>5 DEF Reject, NextEpoch, RollbackInv, TypeOK, Epochs
    <3>3. \A x \in Epochs : x # e => rejected'[x] = rejected[x]
      BY <3>1, <3>2 DEF RollbackInv, TypeOK
    <3>4. QED
      BY <2>1, <3>2, <3>3
         DEF RollbackInv, NoRejectedProgress, TypeOK, Params, Epochs
  <2>6. CASE NaNAbort
    BY <2>1, <2>6 DEF NaNAbort, RollbackInv, NoRejectedProgress, TypeOK,
                      Params
  <2>7. CASE Finish
    BY <2>1, <2>7 DEF Finish, RollbackInv, NoRejectedProgress, TypeOK,
                      Params, Epochs
  <2>8. CASE Terminated \/ UNCHANGED vars
    BY <2>1, <2>8 DEF Terminated, vars, RollbackInv, NoRejectedProgress
  <2>9. QED
    BY <2>2, <2>3, <2>4, <2>5, <2>6, <2>7, <2>8 DEF Next
<1>. QED  BY <1>2

(* No step changes the method compute() picked.                           *)
LEMMA MethodFixed == [Next]_vars => method' = method
BY DEF Next, TradIter, FedIter, FedMetaIter, Accept, Reject, NaNAbort,
       Finish, Terminated, vars

(* RollbackKept: when the method is allReduceTrad, or fedOpt with fedavg, *)
(* no state has u carrying a step of an epoch u.set(u_best) rolled back.  *)
THEOREM RollbackSound == Spec => []RollbackKept
<1> USE ConstantFacts
<1> DEFINE Kept == method = "trad" \/ FedAvg
           KInv == TypeOK /\ (Kept => RollbackInv)
<1>1. Init => KInv
  BY InitFacts DEF InitState, RollbackInv, NoRejectedProgress, Params, Fits, Epochs
<1>2. KInv /\ [Next]_vars => KInv'
  <2> SUFFICES ASSUME KInv, [Next]_vars PROVE KInv'
    OBVIOUS
  <2>1. TypeOK'
    BY TypeOKStep
  <2>2. Kept' = Kept
    BY MethodFixed
  <2>3. CASE Kept
    BY <2>3, RollbackStep, <2>1, <2>2
  <2>4. CASE ~Kept
    BY <2>4, <2>1, <2>2
  <2>5. QED  BY <2>3, <2>4
<1>3. KInv => RollbackKept
  BY DEF RollbackInv, RollbackKept
<1>4. QED
  BY <1>1, <1>2, <1>3, PTL DEF Spec

-----------------------------------------------------------------------------
(* With nonnegative losses (gaussian, bernoulli) the tolerance test        *)
(* `fest_diff > -0.001 * fest_best` never rolls back an epoch whose fit    *)
(* beats fest_best, in both methods.  The argument: fest_prev >= fest_best  *)
(* always, and a rejected fit is >= fest_prev + fest_best/1000.  With a    *)
(* negative fest_best (poisson) this fails: run trad_negative_loss.        *)
THEOREM ImprovementKept ==
  ASSUME LossVals \subseteq Nat
  PROVE  Spec => []ImprovementNeverRejected
<1> USE ConstantFacts
<1>1. Init => ImprovementInv
  <2> SUFFICES ASSUME Init PROVE ImprovementInv
    OBVIOUS
  <2>1. InitState
    BY InitFacts
  <2>2. ImprovementNeverRejected
    BY <2>1 DEF InitState, ImprovementNeverRejected
  <2>3. u.fit \in Fits
    BY <2>1 DEF InitState
  <2>4. u.fit # NaN => u.fit <= u.fit
    BY <2>3, FitSelf
  <2>. QED
    BY <2>1, <2>2, <2>4 DEF InitState, ImprovementInv
<1>2. ImprovementInv /\ [Next]_vars => ImprovementInv'
  <2> SUFFICES ASSUME ImprovementInv, [Next]_vars PROVE ImprovementInv'
    OBVIOUS
  <2>1. TypeOK'
    BY TypeOKStep DEF ImprovementInv
  <2>2. CASE Accept
    <3>1. PICK f \in FitsOf(u) :
            /\ EpochPasses(festPrev, f, festBest)
            /\ festPrev' = f
            /\ \/ Lt(f, festBest) /\ festBest' = f
               \/ ~Lt(f, festBest) /\ festBest' = festBest
      BY <2>2 DEF Accept
    <3>2. /\ f \in Nat /\ festPrev \in Nat /\ festBest \in Nat
          /\ festBest <= festPrev
      BY <3>1, FitsOfType DEF EpochPasses, ImprovementInv, TypeOK, Fits
    <3>3. UNCHANGED rejected
      BY <2>2 DEF Accept
    <3>4. /\ festBest' \in Nat /\ festBest' <= festBest
          /\ festBest' <= f
      BY <3>1, <3>2 DEF Lt
    <3>5. ImprovementNeverRejected'
      <4>1. SUFFICES ASSUME NEW x \in Epochs, rejected[x] # None
                     PROVE  ~Lt(rejected[x], festBest')
        BY <3>3 DEF ImprovementNeverRejected
      <4>2. rejected[x] \in Fits /\ ~Lt(rejected[x], festBest)
        BY <4>1 DEF ImprovementInv, ImprovementNeverRejected, TypeOK
      <4>3. CASE rejected[x] = NaN
        BY <4>3 DEF Lt
      <4>4. CASE rejected[x] \in Nat
        <5>1. rejected[x] >= festBest
          BY <3>2, <4>2, <4>4 DEF Lt
        <5>2. QED
          BY <3>2, <3>4, <4>4, <5>1 DEF Lt
      <4>5. QED
        BY <4>2, <4>3, <4>4 DEF Fits
    <3>6. festPrev' \in Nat /\ festBest' \in Nat /\ festBest' <= festPrev'
      BY <3>1, <3>2, <3>4
    <3>7. QED
      BY <2>1, <3>5, <3>6 DEF ImprovementInv
  <2>3. CASE Reject
    <3>1. PICK f \in FitsOf(u) :
            /\ ~EpochPasses(festPrev, f, festBest)
            /\ rejected' = [rejected EXCEPT ![e] = f]
      BY <2>3 DEF Reject
    <3>2. f \in Fits
      BY FitsOfType DEF ImprovementInv, TypeOK
    <3>3. UNCHANGED <<festPrev, festBest>> /\ e \in Epochs
      BY <2>3 DEF Reject, ImprovementInv, TypeOK, Epochs
    <3>4. ~Lt(f, festBest)
      BY <3>1, <3>2 DEF EpochPasses, ImprovementInv, TypeOK, Fits, Lt, Tol
    <3>5. QED
      BY <2>1, <3>1, <3>3, <3>4
         DEF ImprovementInv, ImprovementNeverRejected, TypeOK
  <2>4. CASE TradIter \/ FedIter \/ FedMetaIter \/ NaNAbort \/ Finish
             \/ Terminated \/ UNCHANGED vars
    BY <2>1, <2>4 DEF TradIter, FedIter, FedMetaIter, NaNAbort, Finish,
                      Terminated, vars, ImprovementInv,
                      ImprovementNeverRejected
  <2>5. QED
    BY <2>2, <2>3, <2>4 DEF Next
<1>3. ImprovementInv => ImprovementNeverRejected
  BY DEF ImprovementInv
<1>4. QED
  BY <1>1, <1>2, <1>3, PTL DEF Spec

-----------------------------------------------------------------------------
(* The initial guess of compute() is an initial state of BestSnapshotLoop: *)
(* u, u_best and Kfac_ are the same unevaluated-history vector, fest_best  *)
(* is its fit and the loop is running.                                     *)
LEMMA InitRefines == Init => Abstract!AInit
<1> SUFFICES ASSUME Init PROVE Abstract!AInit
  OBVIOUS
<1>1. InitState
  BY InitFacts
<1>2. u \in Params
  BY <1>1 DEF InitState, TypeOK
<1>. QED
  BY <1>1, <1>2 DEF InitState, Abstract!AInit

(* Every step of either loop is a step of BestSnapshotLoop or leaves its   *)
(* variables alone: the inner iterations train, Accept keeps, Reject rolls *)
(* back, the NaN return of fedOpt aborts and the end of the epoch loop     *)
(* returns.                                                                 *)
LEMMA NextRefines == TypeOK /\ [Next]_vars => [Abstract!ANext]_Abstract!avars
<1> USE ConstantFacts
<1> SUFFICES ASSUME TypeOK, [Next]_vars PROVE [Abstract!ANext]_Abstract!avars
  OBVIOUS
<1>1. CASE TradIter \/ FedIter
  <2>1. e \in Epochs
    BY <1>1 DEF TradIter, FedIter, TypeOK, Epochs
  <2>2. u' = Stepped(u) /\ u' \in Params
    BY <1>1, <2>1, SteppedType DEF TradIter, FedIter, TypeOK
  <2>3. Abstract!ATrain
    BY <1>1, <2>2 DEF TradIter, FedIter, Stepped, Abstract!ATrain
  <2>. QED  BY <2>3 DEF Abstract!ANext
<1>2. CASE FedMetaIter
  <2>1. e \in Epochs
    BY <1>2 DEF FedMetaIter, TypeOK, Epochs
  <2>2. u' \in Params /\ u.hist \subseteq u'.hist /\ u'.fit = None
    BY <1>2, <2>1 DEF FedMetaIter, Stepped, TypeOK, Params
  <2>3. Abstract!ATrain
    BY <1>2, <2>2 DEF FedMetaIter, Abstract!ATrain
  <2>. QED  BY <2>3 DEF Abstract!ANext
<1>3. CASE Accept
  <2>1. PICK f \in FitsOf(u) :
          /\ u' = [u EXCEPT !.fit = f]
          /\ \/ Lt(f, festBest) /\ uBest' = u' /\ festBest' = f
             \/ ~Lt(f, festBest) /\ UNCHANGED <<uBest, festBest>>
    BY <1>3 DEF Accept
  <2>2. UNCHANGED <<kfac, pc>> /\ pc = "run"
    BY <1>3 DEF Accept
  <2>3. Abstract!AKeep
    BY <2>1, <2>2 DEF FitsOf, Lt, Abstract!AKeep, Abstract!Measure,
                      Abstract!Lower
  <2>. QED  BY <2>3 DEF Abstract!ANext
<1>4. CASE Reject
  <2>1. Abstract!ARollback
    BY <1>4 DEF Reject, Abstract!ARollback
  <2>. QED  BY <2>1 DEF Abstract!ANext
<1>5. CASE NaNAbort
  <2>1. Abstract!AAbort
    BY <1>5 DEF NaNAbort, FitsOf, Abstract!AAbort, Abstract!Measure
  <2>. QED  BY <2>1 DEF Abstract!ANext
<1>6. CASE Finish
  <2>1. Abstract!AReturn
    BY <1>6 DEF Finish, Abstract!AReturn
  <2>. QED  BY <2>1 DEF Abstract!ANext
<1>7. CASE Terminated \/ UNCHANGED vars
  BY <1>7 DEF Terminated, vars, Abstract!avars
<1>. QED
  BY <1>1, <1>2, <1>3, <1>4, <1>5, <1>6, <1>7 DEF Next

(* BestSnapshotRefined: allReduceTrad and fedOpt, for every method, bound  *)
(* and loss, implement BestSnapshotLoop under the mapping that hides the   *)
(* counters, meta_u, fest_prev and the histories.  Only TypeOK is needed:  *)
(* every action of the code is one action of the abstract loop.           *)
THEOREM BestSnapshotRefinement == Spec => BestSnapshotRefined
<1>1. Init => Abstract!AInit
  BY InitRefines
<1>2. TypeOK /\ [Next]_vars => [Abstract!ANext]_Abstract!avars
  BY NextRefines
<1>3. Spec => []TypeOK
  BY TypeCorrect
<1>. QED
  BY <1>1, <1>2, <1>3, PTL DEF Spec, BestSnapshotRefined, Abstract!ASpec
=============================================================================
