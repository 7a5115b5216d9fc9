----------------------------- MODULE KtensorOps -----------------------------
(***************************************************************************)
(* The member functions of Genten::KtensorT that change or read a whole    *)
(* Ktensor (src/unnamed/part_002, lines 1088-1477): distribute(i),        *)
(* normalize(type, i), normalize(type), arrange(), arrange(p), entry,      *)
(* hasNonFinite and normFsq, and compute_Ktensor_value, the blocked        *)
(* evaluation the gradient kernels use (Genten_Ktensor.hpp).               *)
(* TensorT(Ktensor) with copyFromKtensor (Genten_Tensor.cpp) and          *)
(* isEqualToTol (Genten_Util.cpp) are operators on the same Ktensor.       *)
(* exportKTensor runs normalize followed by arrange on the Ktensor it      *)
(* writes.                                                                 *)
(*                                                                         *)
(* A real is an exact rational <<num, den>> in lowest terms with den >= 0; *)
(* den = 0 stands for the non-finite values: <<1,0>> and <<-1,0>> are the  *)
(* infinities and <<0,0>> is NaN.  With this encoding x/0, 0/0, inf-inf    *)
(* and 0*inf come out as IEEE arithmetic gives them.  The Euclidean norm   *)
(* is irrational, so NormTwo is not among the norm types here.             *)
(*                                                                         *)
(* A factor matrix is stored by rows, as FacMatrixT is: A[row][c].  The   *)
(* FacMatrixT helpers the Ktensor calls (colNorms, colScale, rowTimes,     *)
(* permute, gramian, times) are not in the sources and are modelled from   *)
(* their documented meaning.                                               *)
(***************************************************************************)
EXTENDS Integers, Functions, TLC

CONSTANTS
  NModes,     \* ndims()
  Dims,       \* Dims[i] is the number of rows of factor i
  NComps,     \* ncomponents(), the length of lambda
  Vals,       \* the integer entries of the initial factors
  BlockLens   \* the Len template arguments of compute_Ktensor_value

ASSUME KtensorAssumption ==
  /\ NModes \in Nat \ {0} /\ NComps \in Nat \ {0}
  /\ Dims \in [1..NModes -> Nat \ {0}]
  /\ Vals \subseteq Int
  /\ BlockLens \subseteq Nat \ {0}

Modes == 1..NModes
Comps == 1..NComps
Rows(i) == 1..Dims[i]
Subs == {s \in [Modes -> UNION {Rows(i) : i \in Modes}] :
           \A i \in Modes : s[i] \in Rows(i)}
NormTypes == {"NormOne", "NormInf"}

(* The factor matrices with entries in V, one per mode.                    *)
Factors(V) ==
  {d \in [Modes -> UNION {[Rows(i) -> [Comps -> V]] : i \in Modes}] :
     \A i \in Modes : d[i] \in [Rows(i) -> [Comps -> V]]}

-----------------------------------------------------------------------------
(* Exact reals.                                                            *)
AbsI(n) == IF n < 0 THEN -n ELSE n
Gcd(a, b) ==
  CHOOSE g \in 1..b : /\ a % g = 0 /\ b % g = 0
                      /\ \A h \in g + 1..b : ~(a % h = 0 /\ b % h = 0)
QMk(n, d) ==
  IF d = 0 THEN <<IF n > 0 THEN 1 ELSE IF n < 0 THEN -1 ELSE 0, 0>>
  ELSE LET s == IF d < 0 THEN -1 ELSE 1
           g == Gcd(AbsI(n), AbsI(d))
       IN  <<(s * n) \div g, (s * d) \div g>>
Q(n) == <<n, 1>>
Finite(x) == x[2] # 0
IsNaN(x) == x = <<0, 0>>
QAdd(x, y) == QMk(x[1] * y[2] + y[1] * x[2], x[2] * y[2])
QMul(x, y) == QMk(x[1] * y[1], x[2] * y[2])
QDiv(x, y) == QMk(x[1] * y[2], x[2] * y[1])
QAbs(x) == <<AbsI(x[1]), x[2]>>
QLt(x, y) == x[1] * y[2] < y[1] * x[2]
QSum(f) == FoldFunction(QAdd, Q(0), f)
QNeg(x) == <<-x[1], x[2]>>
NonFinite == {<<1, 0>>, <<-1, 0>>, <<0, 0>>}

(* Mutant: the larger magnitude test reversed, dD the smaller one.         *)
IsEqualToTolMin(d1, d2, dTol) ==
  LET dAbs1 == QAbs(d1)
      dAbs2 == QAbs(d2)
      dD == IF QLt(Q(1), dAbs1) \/ QLt(Q(1), dAbs2)
            THEN IF QLt(dAbs1, dAbs2) THEN dAbs1 ELSE dAbs2
            ELSE Q(1)
  IN  QLt(QDiv(QAbs(QAdd(d1, QNeg(d2))), dD), dTol)

(* isEqualToTol (Genten_Util.cpp lines 55-79): |d1 - d2| over dD, which   *)
(* is 1 unless a magnitude exceeds 1 and then the larger one, compared     *)
(* with < to the tolerance; a NaN compares false.                          *)
IsEqualToTol(d1, d2, dTol) ==
  LET dAbs1 == QAbs(d1)
      dAbs2 == QAbs(d2)
      dD == IF QLt(Q(1), dAbs1) \/ QLt(Q(1), dAbs2)
            THEN IF QLt(dAbs2, dAbs1) THEN dAbs1 ELSE dAbs2
            ELSE Q(1)
  IN  QLt(QDiv(QAbs(QAdd(d1, QNeg(d2))), dD), dTol)

-----------------------------------------------------------------------------
(* FacMatrixT helpers (not in the sources).                                *)

(* colNorms(type, norms, 0.0): the 1-norm or the max-norm of each column. *)
ColNorms(t, A) ==
  [c \in Comps |->
     IF t = "NormOne"
     THEN QSum([row \in DOMAIN A |-> QAbs(A[row][c])])
     ELSE FoldFunction(LAMBDA x, m : IF QLt(m, x) THEN x ELSE m, Q(0),
                       [row \in DOMAIN A |-> QAbs(A[row][c])])]

(* colScale(v, inverse): every column c times v[c], or divided by it.     *)
ColScale(A, v, inverse) ==
  [row \in DOMAIN A |-> [c \in Comps |->
     IF inverse THEN QDiv(A[row][c], v[c]) ELSE QMul(A[row][c], v[c])]]

(* rowTimes(x, row): x[c] times entry (row, c), for every c.               *)
RowTimes(x, A, row) == [c \in Comps |-> QMul(x[c], A[row][c])]

(* permute(p): column j of the result is column p[j].                     *)
Permute(A, p) == [row \in DOMAIN A |-> [j \in Comps |-> A[row][p[j]]]]

(* gramian(A): the NComps x NComps matrix of column dot products.          *)
Gramian(A) ==
  [rq \in Comps \X Comps |->
     QSum([row \in DOMAIN A |-> QMul(A[row][rq[1]], A[row][rq[2]])])]

-----------------------------------------------------------------------------
(* KtensorT member functions.                                              *)

(* entry(subs, altLambda): the weights copied into a temporary, times the  *)
(* row subs[i] of every factor in turn, summed (lines 1202-1231).          *)
EntryW(kt, s, l) ==
  LET x[j \in 0..NModes] ==
        IF j = 0 THEN l ELSE RowTimes(x[j - 1], kt.data[j], s[j])
  IN  QSum(x[NModes])

(* entry(subs): the same with the Ktensor's own weights (lines 1174-1200). *)
Entry(kt, s) == EntryW(kt, s, kt.lambda)

(* One component's term: weights(j) times M[m].entry(ind[m], j) over the  *)
(* modes, as the flat compute_Ktensor_value does for each j                *)
(* (Genten_Ktensor.hpp lines 407-425).                                     *)
Term(kt, s, c) ==
  LET x[j \in 0..NModes] ==
        IF j = 0 THEN kt.lambda[c] ELSE QMul(x[j - 1], kt.data[j][s[j]][c])
  IN  x[NModes]
ComputeKtensorValueFlat(kt, s) == QSum([c \in Comps |-> Term(kt, s, c)])

(* Mutant: tmp starts at 1 instead of loading the weights.                 *)
ComputeKtensorValueNoWeights(kt, s, len) ==
  LET Starts == {j \in 0..NComps - 1 : j % len = 0}
      nj(j) == IF j + len < NComps THEN len ELSE NComps - j
      lane(l) == QSum([j \in {b \in Starts : l < nj(b)} |->
                         Term([kt EXCEPT !.lambda = [c \in Comps |-> Q(1)]],
                              s, j + l + 1)])
  IN  QSum([l \in 0..len - 1 |-> lane(l)])

(* compute_Ktensor_value<ExecSpace, Len, WarpSize>(M, ind) (lines        *)
(* 371-405): the components are taken Len at a time from j = 0; a block   *)
(* with j + Len < nc fills all Len lanes of a TinyVec, the last one its   *)
(* first nc - j lanes.  Lane l of m_val sums component j + l of every     *)
(* block, and the result is the sum of the lanes.                         *)
ComputeKtensorValue(kt, s, len) ==
  LET Starts == {j \in 0..NComps - 1 : j % len = 0}
      nj(j) == IF j + len < NComps THEN len ELSE NComps - j
      lane(l) == QSum([j \in {b \in Starts : l < nj(b)} |->
                         Term(kt, s, j + l + 1)])
  IN  QSum([l \in 0..len - 1 |-> lane(l)])

(* The whole tensor a Ktensor stands for.                                  *)
FullOf(kt) == [s \in Subs |-> Entry(kt, s)]

(* numel() of the dense tensor: the product of the sizes.                  *)
Numel == FoldFunction(LAMBDA a, b : a * b, 1, Dims)

(* TensorT::ind2sub (not in the sources), the first mode fastest.          *)
Ind2Sub(i) ==
  [m \in Modes |->
     ((i \div FoldFunction(LAMBDA a, b : a * b, 1,
                           [j \in 1..m - 1 |-> Dims[j]])) % Dims[m]) + 1]

(* Mutant: the league size rounded down.                                   *)
CopyLeaguesFloor(ne, ts) == ne \div ts

(* N = (ne + TeamSize - 1) / TeamSize teams (line 50).                     *)
CopyLeagues(ne, ts) == (ne + ts - 1) \div ts

(* copyFromKtensor (Genten_Tensor.cpp lines 35-89): TeamSize is          *)
(* (256 + nc - 1) / nc on Cuda and 1 on a host; thread team_rank of team   *)
(* league_rank takes entry i = league_rank * team_size + team_rank,        *)
(* returns when i >= ne, else ind2sub(i) and writes the sum over the      *)
(* components of weights(j) times the factors' entries.  The result is    *)
(* the entries written, keyed by i.                                        *)
CopyFromKtensor(kt, cuda) ==
  LET ts == IF cuda THEN (256 + NComps - 1) \div NComps ELSE 1
      Is == {lr * ts + r : lr \in 0..CopyLeagues(Numel, ts) - 1,
                           r \in 0..ts - 1} \cap 0..Numel - 1
  IN  [i \in Is |-> QSum([j \in Comps |-> Term(kt, Ind2Sub(i), j)])]

(* hasNonFinite (lines 1088-1105): a weight, then a factor entry.          *)
HasNonFinite(kt) ==
  \/ \E c \in Comps : ~Finite(kt.lambda[c])
  \/ \E i \in Modes : \E row \in Rows(i) : \E c \in Comps :
       ~Finite(kt.data[i][row][c])

(* distribute(i) (lines 1249-1255): the weights go into factor i.          *)
DistributeMode(kt, i) ==
  [lambda |-> [c \in Comps |-> Q(1)],
   data |-> [kt.data EXCEPT ![i] = ColScale(@, kt.lambda, FALSE)]]

(* Mutant: lambda.times(norms) dropped.                                    *)
NormalizeModeNoWeights(kt, t, i) ==
  LET norms0 == ColNorms(t, kt.data[i])
      norms == [c \in Comps |-> IF norms0[c] = Q(0) THEN Q(1) ELSE norms0[c]]
  IN  [kt EXCEPT !.data = [kt.data EXCEPT ![i] = ColScale(@, norms, TRUE)]]

(* Mutant: the kernel that replaces a zero norm by 1 dropped.              *)
NormalizeModeNoZeroFix(kt, t, i) ==
  LET norms == ColNorms(t, kt.data[i])
  IN  [lambda |-> [c \in Comps |-> QMul(kt.lambda[c], norms[c])],
       data |-> [kt.data EXCEPT ![i] = ColScale(@, norms, TRUE)]]

(* normalize(type, i) (lines 1257-1326): the column norms of factor i,    *)
(* with a zero norm replaced by 1, divide its columns and multiply the    *)
(* weights.  The CKFINITE checks only print.                               *)
NormalizeMode(kt, t, i) ==
  LET norms0 == ColNorms(t, kt.data[i])
      norms == [c \in Comps |-> IF norms0[c] = Q(0) THEN Q(1) ELSE norms0[c]]
  IN  [lambda |-> [c \in Comps |-> QMul(kt.lambda[c], norms[c])],
       data |-> [kt.data EXCEPT ![i] = ColScale(@, norms, TRUE)]]

(* normalize(type) (lines 1328-1336): every mode in turn.                  *)
Normalize(kt, t) ==
  LET f[j \in 0..NModes] ==
        IF j = 0 THEN kt ELSE NormalizeMode(f[j - 1], t, j)
  IN  f[NModes]

(* arrange(p) (lines 1367-1383): the factors' columns and the weights     *)
(* permuted alike.                                                         *)
ArrangeBy(kt, p) ==
  [lambda |-> [j \in Comps |-> kt.lambda[p[j]]],
   data |-> [i \in Modes |-> Permute(kt.data[i], p)]]

(* The permutations arrange() may build (lines 1345-1365): std::sort with  *)
(* greater_than puts the weights in non-increasing order, ties in any      *)
(* order since the sort is not stable.  A NaN weight breaks the strict    *)
(* weak ordering std::sort requires; any permutation may come out.         *)
SortPerms(l) ==
  IF \E c \in Comps : IsNaN(l[c]) THEN Permutations(Comps)
  ELSE {p \in Permutations(Comps) :
          \A a, b \in Comps : a < b => ~QLt(l[p[a]], l[p[b]])}

(* Mutant: the inner loop starts at q = r, counting the diagonal thrice.  *)
NormFsqWDiag(kt, l) ==
  LET H == [rq \in Comps \X Comps |->
              LET h[j \in 0..NModes] ==
                    IF j = 0 THEN Q(1)
                    ELSE QMul(h[j - 1], Gramian(kt.data[j])[rq])
              IN  h[NModes]]
      term(r) == QAdd(QMul(QMul(l[r], l[r]), H[<<r, r>>]),
                      QSum([q \in {x \in Comps : x >= r} |->
                              QMul(QMul(Q(2), QMul(l[r], l[q])),
                                   H[<<r, q>>])]))
  IN  QSum([r \in Comps |-> term(r)])

(* normFsq(l) (lines 1432-1477): the Hadamard product of the Gramians,     *)
(* then l' H l summed over the diagonal and twice the upper triangle.      *)
NormFsqW(kt, l) ==
  LET H == [rq \in Comps \X Comps |->
              LET h[j \in 0..NModes] ==
                    IF j = 0 THEN Q(1)
                    ELSE QMul(h[j - 1], Gramian(kt.data[j])[rq])
              IN  h[NModes]]
      term(r) == QAdd(QMul(QMul(l[r], l[r]), H[<<r, r>>]),
                      QSum([q \in {x \in Comps : x > r} |->
                              QMul(QMul(Q(2), QMul(l[r], l[q])),
                                   H[<<r, q>>])]))
  IN  QSum([r \in Comps |-> term(r)])

(* normFsq() (lines 1385-1430): the same with the Ktensor's weights.       *)
NormFsq(kt) == NormFsqW(kt, kt.lambda)

-----------------------------------------------------------------------------
(* A Ktensor and the member functions called on it, in any order.  full   *)
(* is the tensor k stood for when it was built;                            *)
(* normed records the (norm type, mode) pairs normalized since the mode's *)
(* factor last changed otherwise.                                          *)
VARIABLES k, full, normed

vars == << k, full, normed >>

(* The constructor KtensorT(nc, nd, sz) sets every weight to 1 (lines     *)
(* 920-926); the caller then fills the factors (random, scattered or read *)
(* from a file), here with any entries from Vals.                          *)
Init ==
  /\ \E d \in Factors(Vals) :
       k = [lambda |-> [c \in Comps |-> Q(1)],
            data |-> [i \in Modes |-> [row \in Rows(i) |-> [c \in Comps |->
                        Q(d[i][row][c])]]]]
  /\ full = FullOf(k)
  /\ normed = {}

(* distribute(i) on one mode.                                             *)
Distribute1 ==
  \E i \in Modes :
    /\ k' = DistributeMode(k, i)
    /\ normed' = {tm \in normed : tm[2] # i}
    /\ UNCHANGED full

(* normalize(type, i) on one mode.                                         *)
Normalize1 ==
  \E t \in NormTypes, i \in Modes :
    /\ k' = NormalizeMode(k, t, i)
    /\ normed' = {tm \in normed : tm[2] # i} \cup {<<t, i>>}
    /\ UNCHANGED full

(* normalize(type), as exportKTensor calls it (line 849).                  *)
NormalizeAll ==
  \E t \in NormTypes :
    /\ k' = Normalize(k, t)
    /\ normed' = {t} \X Modes
    /\ UNCHANGED full

(* arrange(), as exportKTensor calls it (line 850).                         *)
Arrange ==
  \E p \in SortPerms(k.lambda) :
    /\ k' = ArrangeBy(k, p)
    /\ UNCHANGED << full, normed >>

(* arrange(permutation) with a caller's permutation.                       *)
ArrangeWith ==
  \E p \in Permutations(Comps) :
    /\ k' = ArrangeBy(k, p)
    /\ UNCHANGED << full, normed >>

Next ==
  \/ Distribute1 \/ Normalize1 \/ NormalizeAll \/ Arrange \/ ArrangeWith

Spec == Init /\ [][Next]_vars

-----------------------------------------------------------------------------
TypeOK ==
  /\ k.lambda \in [Comps -> Int \X Int]
  /\ \A i \in Modes : k.data[i] \in [Rows(i) -> [Comps -> Int \X Int]]
  /\ normed \subseteq NormTypes \X Modes

(* normalize, distribute(i) and arrange rescale and permute the columns   *)
(* of the factors and the weights so that every entry of the tensor the   *)
(* Ktensor stands for is exactly what it was, and nothing non-finite      *)
(* appears (the zero-norm guard of normalize); the dense TensorT(k) that  *)
(* copyFromKtensor then builds, on a host or on Cuda, writes each of the  *)
(* numel() entries with the value the tensor had when k was built.        *)
TensorPreserved ==
  /\ \A s \in Subs : Entry(k, s) = full[s]
  /\ \A cuda \in BOOLEAN :
       LET x == CopyFromKtensor(k, cuda)
       IN  /\ DOMAIN x = 0..Numel - 1
           /\ \A i \in DOMAIN x : x[i] = full[Ind2Sub(i)]

(* normFsq's Gramian formula, with the off-diagonal terms counted twice   *)
(* over the upper triangle, is the sum of the squared entries.             *)
NormFsqExact ==
  ~HasNonFinite(k) =>
    NormFsq(k) = QSum([s \in Subs |-> QMul(Entry(k, s), Entry(k, s))])

(* The blocked evaluation the gradient kernels call on every sample, for  *)
(* every block length, and the flat one give entry(subs): no component is *)
(* skipped or counted twice by the split into full and partial blocks.    *)
BlockedValueExact ==
  \A s \in Subs :
    /\ ComputeKtensorValueFlat(k, s) = Entry(k, s)
    /\ \A len \in BlockLens : ComputeKtensorValue(k, s, len) = Entry(k, s)

(* The tolerance test isEqual applies to every weight and factor entry    *)
(* (part_002 lines 1149-1172) is the one the header of KtensorT::isEqual   *)
(* documents, |a - b| / max(1, |a|, |b|) < TOL, on the values the         *)
(* Ktensor holds, the infinities and NaN among them.                       *)
IsEqualDocumented ==
  LET Args == {k.lambda[c] : c \in Comps} \cup NonFinite \cup
              UNION {{k.data[i][row][c] : row \in Rows(i), c \in Comps} :
                       i \in Modes}
      Denom(a, b) == CHOOSE m \in {Q(1), QAbs(a), QAbs(b)} :
                       \A y \in {Q(1), QAbs(a), QAbs(b)} : ~QLt(m, y)
  IN  \A a, b \in Args : \A tol \in {QMk(1, 4), QMk(1, 2), Q(1)} :
        IsEqualToTol(a, b, tol) <=>
          QLt(QDiv(QAbs(QAdd(a, QNeg(b))), Denom(a, b)), tol)

(* After normalize(type, i) every column of factor i has norm 1 under     *)
(* that type, or is zero, and stays so while only other modes change.     *)
ColumnsNormalized ==
  \A tm \in normed :
    \A c \in Comps : ColNorms(tm[1], k.data[tm[2]])[c] \in {Q(0), Q(1)}

=============================================================================
