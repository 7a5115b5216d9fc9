---------------------------- MODULE Redistribute ----------------------------
(***************************************************************************)
(* Reading and redistributing a sparse tensor over the processor grid     *)
(* (src/src/Genten_TensorBlockSystem.cpp):                                *)
(*                                                                         *)
(*  - distributeTensorToVectors (lines 91-145): rank 0 reads every        *)
(*    nonzero, MPI_Isends one contiguous slice of them to every other     *)
(*    rank, waits, and keeps its own slice; the others MPI_Recv theirs.   *)
(*  - redistributeTensor (lines 181-240): every rank buckets its nonzeros *)
(*    by the grid rank owning them, MPI_Exscan gives the offset of its    *)
(*    bucket in each target's window, MPI_Reduce_scatter_block the size   *)
(*    of its own window, then between two MPI_Win_fence calls every rank  *)
(*    MPI_Puts each bucket into its target's window, and finally copies   *)
(*    its window out.                                                     *)
(*                                                                         *)
(* A collective (MPI_Exscan, MPI_Reduce_scatter_block with                *)
(* MPI_Win_allocate, MPI_Win_fence) is one step taken once every rank has *)
(* reached it.  The puts of the ranks interleave freely between the       *)
(* fences.  A nonzero is its coordinate tuple.                            *)
(***************************************************************************)
EXTENDS GridOps, FiniteSets

CONSTANTS
    Grid,      \* dimension_sizes_ of the ProcessorMap, one extent per mode
    TDims,     \* the mode lengths of the tensor
    Tensor,    \* the nonzeros, as coordinate tuples
    Garbage    \* what a window slot no put wrote holds

Modes == DOMAIN TDims
NProcs == GridProduct(Grid)
Ranks == 0..(NProcs - 1)
NNZ == Cardinality(Tensor)

ASSUME ShapeAssumption ==
    /\ DOMAIN Grid = Modes
    /\ \A i \in Modes : Grid[i] \in Nat \ {0} /\ TDims[i] \in Nat \ {0}
    /\ Tensor \subseteq [Modes -> Nat]
    /\ \A c \in Tensor : \A i \in Modes : c[i] < TDims[i]
    /\ Garbage \notin Tensor
    /\ \A i \in Modes : Grid[i] <= TDims[i]

(* who_gets_what has one entry per rank and one more only when there are *)
(* at least as many nonzeros as ranks (lines 97-98 and 121-138 use it so). *)
ASSUME EnoughNonzeros == NNZ >= NProcs

(* The blocking of every mode over the grid.                              *)
Blocking == GenerateMediumGrainBlocking(TDims, Grid)

(* who_gets_what[k] of line 97, for the 0-based k of the code.           *)
WhoGetsWhat(k) == SingleDimMediumGrainBlocking(NNZ, NProcs)[k + 1]

(* The elements at 0-based positions first .. last-1 of a sequence.      *)
Slice(s, first, last) == SubSeq(s, first + 1, last)

(* How many times c occurs in the sequence s.                            *)
Count(s, c) == Cardinality({k \in DOMAIN s : s[k] = c})

VARIABLES
    file,     \* the nonzeros in the order import_sptensor reads them
    pc,       \* where every rank is in the two functions
    tvec,     \* Tvec of every rank
    msgs,     \* the MPI_Isend messages not yet received
    toWrite,  \* elems_to_write[i] of every rank
    offset,   \* offset_to_write_at[i] of every rank
    winSize,  \* amount_to_allocate_for_window of every rank
    window,   \* the puts landed in every rank's window: <<slot, elem, origin>>
    putIdx,   \* the next target i of every rank's MPI_Put loop
    out       \* redistributedData of every rank, slot by slot

vars == << file, pc, tvec, msgs, toWrite, offset, winSize, window, putIdx, out >>

Init ==
    /\ file \in {s \in [1..NNZ -> Tensor] : \A c \in Tensor : Count(s, c) = 1}
    /\ pc = [r \in Ranks |-> IF r = 0 THEN "read" ELSE "recv"]
    /\ tvec = [r \in Ranks |-> << >>]
    /\ msgs = {}
    /\ toWrite = [r \in Ranks |-> [t \in Ranks |-> << >>]]
    /\ offset = [r \in Ranks |-> [t \in Ranks |-> 0]]
    /\ winSize = [r \in Ranks |-> 0]
    /\ window = [r \in Ranks |-> {}]
    /\ putIdx = [r \in Ranks |-> 0]
    /\ out = [r \in Ranks |-> << >>]

-----------------------------------------------------------------------------
(* Lines 100-131: rank 0 reads the tensor into Tvec and posts an          *)
(* MPI_Isend to every rank i >= 1 of the elements from who_gets_what[i-1] *)
(* up to who_gets_what[i].                                                *)
ReadAndSend ==
    /\ pc[0] = "read"
    /\ tvec' = [tvec EXCEPT ![0] = file]
    /\ msgs' = {[to |-> i, data |-> Slice(file, WhoGetsWhat(i - 1), WhoGetsWhat(i))] :
                   i \in Ranks \ {0}}
    /\ pc' = [pc EXCEPT ![0] = "wait"]
    /\ UNCHANGED << file, toWrite, offset, winSize, window, putIdx, out >>

(* Lines 132-136: MPI_Waitall, then rank 0 erases all but its first       *)
(* who_gets_what[1] elements.                                             *)
KeepOwnSlice ==
    /\ pc[0] = "wait"
    /\ tvec' = [tvec EXCEPT ![0] = Slice(tvec[0], 0, WhoGetsWhat(1))]
    /\ pc' = [pc EXCEPT ![0] = "bucket"]
    /\ UNCHANGED << file, msgs, toWrite, offset, winSize, window, putIdx, out >>

(* Lines 137-142: rank r >= 1 receives its slice from rank 0.             *)
Recv(r) ==
    /\ pc[r] = "recv"
    /\ \E m \in msgs :
          /\ m.to = r
          /\ Len(m.data) = WhoGetsWhat(r) - WhoGetsWhat(r - 1)
          /\ tvec' = [tvec EXCEPT ![r] = m.data]
          /\ msgs' = msgs \ {m}
    /\ pc' = [pc EXCEPT ![r] = "bucket"]
    /\ UNCHANGED << file, toWrite, offset, winSize, window, putIdx, out >>

(* Lines 189-198: every element goes to the bucket of the grid rank that *)
(* owns it, in Tvec order.                                                *)
Bucket(r) ==
    /\ pc[r] = "bucket"
    /\ toWrite' = [toWrite EXCEPT ![r] =
          [t \in Ranks |-> SelectSeq(tvec[r],
              LAMBDA c : RankInGridThatOwns(c, Grid, Blocking) = t)]]
    /\ pc' = [pc EXCEPT ![r] = "exscan"]
    /\ UNCHANGED << file, tvec, msgs, offset, winSize, window, putIdx, out >>

(* MPI_Scan in place of MPI_Exscan: the sum includes the rank's own bucket. *)
ExscanInclusive ==
    /\ \A r \in Ranks : pc[r] = "exscan"
    /\ offset' = [r \in Ranks |-> [t \in Ranks |->
                      FoldFunction(LAMBDA x, y : x + y, 0,
                                   [q \in 0..r |-> Len(toWrite[q][t])])]]
    /\ pc' = [r \in Ranks |-> "window"]
    /\ UNCHANGED << file, tvec, msgs, toWrite, winSize, window, putIdx, out >>

(* Lines 200-202: MPI_Exscan(MPI_SUM) of amount_to_write: rank r writes  *)
(* at target i after the buckets of ranks 0..r-1.  Rank 0's receive      *)
(* buffer is left as it was allocated (zeros).                            *)
Exscan ==
    /\ \A r \in Ranks : pc[r] = "exscan"
    /\ offset' = [r \in Ranks |-> IF r = 0 THEN offset[0] ELSE
                   [t \in Ranks |->
                      FoldFunction(LAMBDA x, y : x + y, 0,
                                   [q \in 0..(r - 1) |-> Len(toWrite[q][t])])]]
    /\ pc' = [r \in Ranks |-> "window"]
    /\ UNCHANGED << file, tvec, msgs, toWrite, winSize, window, putIdx, out >>

(* Lines 204-218: MPI_Reduce_scatter_block sums, for every rank, what all *)
(* ranks will write to it; MPI_Win_allocate makes windows of that size;   *)
(* the first MPI_Win_fence opens the access epoch.                        *)
OpenWindow ==
    /\ \A r \in Ranks : pc[r] = "window"
    /\ winSize' = [t \in Ranks |->
                     FoldFunction(LAMBDA x, y : x + y, 0,
                                  [q \in Ranks |-> Len(toWrite[q][t])])]
    /\ window' = [t \in Ranks |-> {}]
    /\ pc' = [r \in Ranks |-> "put"]
    /\ UNCHANGED << file, tvec, msgs, toWrite, offset, putIdx, out >>

(* Lines 219-229: rank r puts its bucket for target i = putIdx[r] at      *)
(* offset_to_write_at[i] of i's window.                                   *)
Put(r) ==
    /\ pc[r] = "put"
    /\ putIdx[r] < NProcs
    /\ LET t == putIdx[r]
           data == toWrite[r][t]
       IN window' = [window EXCEPT ![t] = @ \cup
                       {<< offset[r][t] + k - 1, data[k], r >> : k \in DOMAIN data}]
    /\ putIdx' = [putIdx EXCEPT ![r] = @ + 1]
    /\ UNCHANGED << file, pc, tvec, msgs, toWrite, offset, winSize, out >>

(* Line 230: the second MPI_Win_fence, once every rank has issued all its *)
(* puts; they are complete in the target windows after it.               *)
CloseEpoch ==
    /\ \A r \in Ranks : pc[r] = "put" /\ putIdx[r] = NProcs
    /\ pc' = [r \in Ranks |-> "copy"]
    /\ UNCHANGED << file, tvec, msgs, toWrite, offset, winSize, window, putIdx, out >>

(* What one slot of t's window may hold: the element put there (any one *)
(* of them if several were), or Garbage when no put wrote it.             *)
SlotValues(t, slot) ==
    LET w == {p[2] : p \in {p \in window[t] : p[1] = slot}}
    IN IF w = {} THEN {Garbage} ELSE w

(* Lines 232-238: rank r copies its whole window out, then frees it; out *)
(* keeps, for every slot, the values the copy may have read.             *)
Copy(r) ==
    /\ pc[r] = "copy"
    /\ out' = [out EXCEPT ![r] = [k \in 1..winSize[r] |-> SlotValues(r, k - 1)]]
    /\ pc' = [pc EXCEPT ![r] = "done"]
    /\ UNCHANGED << file, tvec, msgs, toWrite, offset, winSize, window, putIdx >>

(* Every rank has returned redistributedData.                             *)
Finished ==
    /\ \A r \in Ranks : pc[r] = "done"
    /\ UNCHANGED vars

Next ==
    \/ ReadAndSend \/ KeepOwnSlice \/ Exscan \/ OpenWindow \/ CloseEpoch
    \/ \E r \in Ranks : Recv(r) \/ Bucket(r) \/ Put(r) \/ Copy(r)
    \/ Finished

Spec == Init /\ [][Next]_vars

-----------------------------------------------------------------------------
(* Every rank's buffers hold nonzeros, and every put lands inside the     *)
(* NNZ slots that the windows can need at most.                          *)
TypeOK ==
    /\ file \in [1..NNZ -> Tensor]
    /\ pc \in [Ranks -> {"read", "wait", "recv", "bucket", "exscan", "window",
                          "put", "copy", "done"}]
    /\ tvec \in [Ranks -> Seq(Tensor)]
    /\ msgs \subseteq [to : Ranks, data : Seq(Tensor)]
    /\ toWrite \in [Ranks -> [Ranks -> Seq(Tensor)]]
    /\ offset \in [Ranks -> [Ranks -> 0..NNZ]]
    /\ winSize \in [Ranks -> 0..NNZ]
    /\ window \in [Ranks -> SUBSET ((0..(NNZ - 1)) \X Tensor \X Ranks)]
    /\ putIdx \in [Ranks -> 0..NProcs]
    /\ out \in [Ranks -> Seq(SUBSET (Tensor \cup {Garbage}))]

(* How many copies of the nonzero c the ranks hold in their Tvec.        *)
HeldCount(c) == FoldFunction(LAMBDA x, y : x + y, 0, [r \in Ranks |-> Count(tvec[r], c)])

(* Once distributeTensorToVectors has returned on every rank, every       *)
(* nonzero rank 0 read is held by exactly one rank: the slices sent with  *)
(* MPI_Isend and the one rank 0 keeps (lines 121-138) cover the tensor   *)
(* once.                                                                 *)
DistributionLossless ==
    (\A r \in Ranks : pc[r] \notin {"read", "wait", "recv"}) =>
        \A c \in Tensor : HeldCount(c) = 1

(* The MPI_Put calls of all ranks in the fence epoch (lines 219-229) land *)
(* inside the target's window and never on a slot another put wrote: the *)
(* MPI_Exscan offsets and the MPI_Reduce_scatter_block sizes agree.      *)
PutsDisjoint ==
    \A t \in Ranks : \A p, q \in window[t] :
        /\ p[1] < winSize[t]
        /\ p[1] = q[1] => p = q

(* The grid coordinate of rank r in mode i (MPI_Cart_coords, row-major). *)
GridCoord(r, i) ==
    (r \div GridProduct([j \in (i + 1)..Len(Grid) |-> Grid[j]])) % Grid[i]

(* The rank whose blocks contain every index of c.                       *)
OwnerRef(c) ==
    CHOOSE r \in Ranks : \A i \in Modes :
        Blocking[i][GridCoord(r, i) + 1] <= c[i] /\ c[i] < Blocking[i][GridCoord(r, i) + 2]

(* When rank r has returned from redistributeTensor, every slot of its    *)
(* redistributedData holds a nonzero it owns, and it holds every nonzero  *)
(* it owns as many times as the ranks held it before the call: nothing is *)
(* misplaced, lost, duplicated or left as uninitialised window memory.   *)
RedistributionComplete ==
    \A r \in Ranks : pc[r] = "done" =>
        /\ \A k \in DOMAIN out[r] :
              \E c \in Tensor : out[r][k] = {c} /\ OwnerRef(c) = r
        /\ \A c \in Tensor : OwnerRef(c) = r =>
              Cardinality({k \in DOMAIN out[r] : out[r][k] = {c}}) = HeldCount(c)

=============================================================================
