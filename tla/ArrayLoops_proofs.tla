--------------------------- MODULE ArrayLoops_proofs ---------------------------
(***************************************************************************)
(* The loops over arrays of hash values, two of set9.c and one of          *)
(* hash_set.c.  For ascending arrays of any length over any values: the    *)
(* walk of sorted_subset stays inside the arrays, its search stops at the  *)
(* lower bound, and its answer is set inclusion.  For normalised arrays of *)
(* any length and every precision below 32: downsample_set reads inside    *)
(* both halves, writes no more than it read, and what it writes is the     *)
(* normalised array of the truncated values.  What downsample_to of        *)
(* hash_set.c leaves is that, too, whether it has merged or sorted.        *)
(***************************************************************************)
EXTENDS SortedSubset, Downsample, DirectReduce, CommonFacts

(* The walk of sorted_subset.                                              *)

Looking == pc \in {"scan", "search", "refine", "check"}

(* The value looked for is the last element taken from the small array.    *)
ValueInv == Looking => small >= 1 /\ value = smallArr[small]

(* Every element already dealt with lies in the part walked over.          *)
MatchedInv ==
    pc # "done" =>
        \A i \in 1 .. small : (pc = "next" \/ i # small) =>
            \E k \in 1 .. large : largeArr[k] = smallArr[i]

(* Nothing in the part walked over is still needed.                        *)
PassedInv ==
    /\ Looking => \A k \in 1 .. large : largeArr[k] < value
    /\ pc = "next" => \A k \in 1 .. large : small >= 1 /\ largeArr[k] <= smallArr[small]

(* The search stands on an element below the value, and once its step has  *)
(* vanished the next element is not.                                       *)
SteppingInv ==
    pc = "refine" =>
        /\ position <= count - 1
        /\ first(position) < value
        /\ step = 0 => position = count - 1 \/ first(position + 1) >= value

(* The test is made at the lower bound.                                    *)
BoundInv == pc = "check" /\ large < large_count => largeArr[large + 1] >= value

SubsetInv == /\ SubsetTypeOK
        /\ ValueInv
        /\ MatchedInv
        /\ PassedInv
        /\ SteppingInv
        /\ BoundInv
        /\ AnswersInclusion

-----------------------------------------------------------------------------
(* The arrays are ascending sequences of naturals.                         *)
LEMMA ArrayFacts ==
    ASSUME SubsetTypeOK
    PROVE  /\ smallArr \in Seq(Nat) /\ largeArr \in Seq(Nat)
           /\ small_count \in Nat /\ large_count \in Nat
           /\ small_count >= 1
           /\ \A i \in 1 .. small_count : smallArr[i] \in Nat
           /\ \A i \in 1 .. large_count : largeArr[i] \in Nat
           /\ \A i, j \in 1 .. small_count : i < j => smallArr[i] < smallArr[j]
           /\ \A i, j \in 1 .. large_count : i < j => largeArr[i] < largeArr[j]
<1>1. /\ smallArr \in Seq(Nat) /\ Len(smallArr) >= 1 /\ Ascending(smallArr)
      /\ largeArr \in Seq(Nat) /\ Ascending(largeArr)
  BY ComparedAssumption DEF SubsetTypeOK
<1>2. /\ \A i \in 1 .. Len(smallArr) : smallArr[i] \in Nat
      /\ \A i \in 1 .. Len(largeArr) : largeArr[i] \in Nat
  BY <1>1
<1>3. Len(smallArr) \in Nat /\ Len(largeArr) \in Nat
  BY <1>1
<1> QED
  BY <1>1, <1>2, <1>3 DEF Ascending, small_count, large_count

(* The function starts with the invariant.                                 *)
LEMMA SubsetStart == SubsetInit => SubsetInv
<1> SUFFICES ASSUME SubsetInit PROVE SubsetInv
  OBVIOUS
<1>1. SubsetTypeOK
  <2>1. Len(smallArr) \in Nat /\ Len(largeArr) \in Nat /\ Len(smallArr) >= 1
    BY ComparedAssumption DEF SubsetInit
  <2>2. Len(largeArr) \div Len(smallArr) \in Nat
    BY <2>1
  <2>3. jump \in Nat
    BY <2>2 DEF SubsetInit
  <2>4. /\ smallArr \in Compared /\ largeArr \in Compared /\ Len(smallArr) < Len(largeArr)
        /\ small = 0 /\ large = 0 /\ value = 0 /\ position = 0 /\ step = 0
        /\ pc = "next" /\ found = FALSE
    BY DEF SubsetInit
  <2>5. small \in 0 .. small_count /\ large \in 0 .. large_count
    BY <2>1, <2>4 DEF small_count, large_count
  <2> QED
    BY <2>3, <2>4, <2>5 DEF SubsetTypeOK
<1>2. ValueInv /\ MatchedInv /\ PassedInv /\ SteppingInv /\ BoundInv /\ AnswersInclusion
  BY DEF SubsetInit, ValueInv, MatchedInv, PassedInv, SteppingInv, BoundInv,
         AnswersInclusion, Looking
<1> QED
  BY <1>1, <1>2 DEF SubsetInv

(* Every iteration of either loop keeps it.                                *)
LEMMA SubsetKept == SubsetInv /\ [SubsetNext]_subset_vars => SubsetInv'
<1> SUFFICES ASSUME SubsetInv, [SubsetNext]_subset_vars PROVE SubsetInv'
  OBVIOUS
<1> USE DEF small_count, large_count
<1>0. /\ SubsetTypeOK /\ ValueInv /\ MatchedInv /\ PassedInv
      /\ SteppingInv /\ BoundInv /\ AnswersInclusion
  BY DEF SubsetInv
<1>a. /\ Len(smallArr) \in Nat /\ Len(largeArr) \in Nat
      /\ \A i \in 1 .. Len(smallArr) : smallArr[i] \in Nat
      /\ \A i \in 1 .. Len(largeArr) : largeArr[i] \in Nat
      /\ \A i, j \in 1 .. Len(smallArr) : i < j => smallArr[i] < smallArr[j]
      /\ \A i, j \in 1 .. Len(largeArr) : i < j => largeArr[i] < largeArr[j]
  BY <1>0, ArrayFacts
<1>d. DOMAIN smallArr = 1 .. Len(smallArr) /\ DOMAIN largeArr = 1 .. Len(largeArr)
  BY <1>0, ArrayFacts
<1>b. /\ small \in Nat /\ small <= Len(smallArr)
      /\ large \in Nat /\ large <= Len(largeArr)
      /\ value \in Nat /\ jump \in Nat /\ position \in Nat /\ step \in Nat
  BY <1>0, <1>a DEF SubsetTypeOK
<1>1. CASE NextValue
  <2>1. SubsetTypeOK'
    BY <1>0, <1>1, <1>a DEF SubsetTypeOK, NextValue, subset_args
  <2>2. ValueInv'
    BY <1>0, <1>1, <1>a DEF ValueInv, NextValue, subset_args, Looking, SubsetTypeOK
  <2>3. MatchedInv'
    BY <1>0, <1>1, <1>a DEF MatchedInv, NextValue, subset_args, SubsetTypeOK
  <2>4. PassedInv'
    <3>1. Looking' /\ value' = smallArr[small + 1] /\ large' = large /\ largeArr' = largeArr
      BY <1>1 DEF NextValue, subset_args, Looking
    <3>2. ASSUME NEW k \in 1 .. large PROVE largeArr[k] < smallArr[small + 1]
      <4>1. small >= 1 /\ largeArr[k] <= smallArr[small] /\ small < Len(smallArr)
        BY <1>0, <1>1 DEF PassedInv, NextValue
      <4>2. smallArr[small] < smallArr[small + 1]
        BY <4>1, <1>a, <1>b
      <4>3. /\ largeArr[k] \in Nat /\ smallArr[small] \in Nat
            /\ smallArr[small + 1] \in Nat
        BY <4>1, <1>a, <1>b
      <4> QED
        BY <4>1, <4>2, <4>3
    <3> QED
      BY <3>1, <3>2, <1>1 DEF PassedInv, NextValue
  <2>5. SteppingInv' /\ BoundInv' /\ AnswersInclusion'
    BY <1>1 DEF SteppingInv, BoundInv, AnswersInclusion, NextValue
  <2> QED
    BY <2>1, <2>2, <2>3, <2>4, <2>5 DEF SubsetInv
<1>2. CASE AllFound
  <2>1. SubsetTypeOK'
    BY <1>0, <1>2 DEF SubsetTypeOK, AllFound, Return, subset_args
  <2>2. AnswersInclusion'
    <3>1. \A i \in 1 .. Len(smallArr) : \E k \in 1 .. large : largeArr[k] = smallArr[i]
      BY <1>0, <1>2 DEF MatchedInv, AllFound
    <3>2. ASSUME NEW i \in 1 .. Len(smallArr) PROVE smallArr[i] \in Range(largeArr)
      <4>1. PICK k \in 1 .. large : largeArr[k] = smallArr[i]
        BY <3>1
      <4>2. k \in DOMAIN largeArr
        BY <1>a, <1>b, <1>d
      <4> QED
        BY <4>1, <4>2 DEF Range
    <3>3. Range(smallArr) \subseteq Range(largeArr)
      BY <3>2, <1>d DEF Range
    <3> QED
      BY <3>3, <1>2 DEF AnswersInclusion, AllFound, Return, subset_args, Range
  <2>3. ValueInv' /\ MatchedInv' /\ PassedInv' /\ SteppingInv' /\ BoundInv'
    BY <1>2 DEF ValueInv, MatchedInv, PassedInv, SteppingInv, BoundInv, AllFound, Return, Looking
  <2> QED
    BY <2>1, <2>2, <2>3 DEF SubsetInv
<1>3. CASE Scan
  <2>1. SubsetTypeOK'
    BY <1>0, <1>3, <1>a DEF SubsetTypeOK, Scan, subset_args
  <2>2. ValueInv'
    BY <1>0, <1>3 DEF ValueInv, Scan, subset_args, Looking
  <2>3. MatchedInv'
    BY <1>0, <1>3, <1>b DEF MatchedInv, Scan, subset_args
  <2>4. PassedInv'
    BY <1>0, <1>3, <1>a DEF PassedInv, Scan, subset_args, Looking, SubsetTypeOK
  <2>5. SteppingInv' /\ AnswersInclusion'
    BY <1>3 DEF SteppingInv, AnswersInclusion, Scan
  <2>6. BoundInv'
    BY <1>0, <1>3, <1>a DEF BoundInv, Scan, subset_args, SubsetTypeOK
  <2> QED
    BY <2>1, <2>2, <2>3, <2>4, <2>5, <2>6 DEF SubsetInv
<1>4. CASE EnterSearch
  <2>1. SubsetTypeOK'
    BY <1>0, <1>4 DEF SubsetTypeOK, EnterSearch, AlreadyThere, subset_args
  <2>2. ValueInv' /\ MatchedInv' /\ PassedInv' /\ AnswersInclusion'
    BY <1>0, <1>4 DEF ValueInv, MatchedInv, PassedInv, AnswersInclusion, EnterSearch,
                      AlreadyThere, subset_args, Looking
  <2>3. SteppingInv'
    <3>1. CASE count = 0 \/ first(0) >= value
      BY <3>1, <1>4 DEF SteppingInv, EnterSearch, AlreadyThere
    <3>2. CASE ~(count = 0 \/ first(0) >= value)
      <4>1. position' = 0 /\ step' # 0 /\ count' = count /\ value' = value
            /\ first(0)' = first(0)
        BY <3>2, <1>4, <1>0 DEF EnterSearch, AlreadyThere, subset_args, count, first, SubsetTypeOK
      <4>2. count \in Nat /\ count >= 1 /\ first(0) \in Nat /\ value \in Nat
        BY <3>2, <1>a, <1>b DEF count, first
      <4> QED
        BY <4>1, <4>2, <3>2 DEF SteppingInv, first, count
    <3> QED
      BY <3>1, <3>2
  <2>4. BoundInv'
    BY <1>4, <1>a, <1>b DEF BoundInv, EnterSearch, AlreadyThere, subset_args, count, first
  <2> QED
    BY <2>1, <2>2, <2>3, <2>4 DEF SubsetInv
<1>5. CASE Refine
  <2>0. /\ pc = "refine" /\ pc' = "refine" /\ UNCHANGED <<subset_args, small, large, value, found>>
        /\ step # 0 /\ step \in Nat /\ position \in Nat /\ count \in Int
        /\ position <= count - 1 /\ first(position) < value
    <3>1. count \in Int
      BY <1>a, <1>b DEF count
    <3> QED
      BY <3>1, <1>0, <1>b, <1>5 DEF Refine, Halved, SteppingInv
  <2>1. SubsetTypeOK'
    BY <2>0, <1>0, <1>5 DEF SubsetTypeOK, Refine, Halved, subset_args
  <2>2. ValueInv' /\ MatchedInv' /\ PassedInv' /\ BoundInv' /\ AnswersInclusion'
    BY <2>0, <1>0 DEF ValueInv, MatchedInv, PassedInv, BoundInv, AnswersInclusion,
                      subset_args, Looking
  <2>3. SteppingInv'
    <3>1. \A i : first(i)' = largeArr[large + i + 1] /\ first(i) = largeArr[large + i + 1]
      BY <2>0 DEF first, subset_args
    <3>2. count' = count /\ value' = value
      BY <2>0 DEF count, subset_args
    <3>3. CASE step > count - position - 1
      BY <3>1, <3>2, <3>3, <2>0, <1>5 DEF Refine, Halved, SteppingInv, first, subset_args
    <3>4. CASE step <= count - position - 1 /\ first(position + step) < value
      BY <3>1, <3>2, <3>4, <2>0, <1>5 DEF Refine, Halved, SteppingInv, first, subset_args
    <3>5. CASE step <= count - position - 1 /\ ~(first(position + step) < value)
      <4>1. position' = position /\ step' = step \div 2
        BY <3>5, <2>0, <1>5 DEF Refine, Halved
      <4>2. step' = 0 => step = 1
        BY <4>1, <2>0
      <4>3. first(position + step) >= value
        BY <3>5, <2>0, <1>0, <1>a DEF first, count, SubsetTypeOK
      <4> QED
        BY <4>1, <4>2, <4>3, <3>2, <2>0 DEF SteppingInv, first, subset_args
    <3> QED
      BY <3>3, <3>4, <3>5, <2>0
  <2> QED
    BY <2>1, <2>2, <2>3 DEF SubsetInv
<1>6. CASE LeaveSearch
  <2>0. /\ pc = "refine" /\ pc' = "check" /\ UNCHANGED <<subset_args, small, value, step, found>>
        /\ large' = large + position + 1 /\ position \in Nat /\ large \in Nat
        /\ large + position + 1 <= Len(largeArr)
        /\ largeArr[large + position + 1] < value
        /\ large + position + 1 < Len(largeArr) =>
              largeArr[large + position + 2] >= value
    <3>1. pc = "refine" /\ step = 0
      BY <1>6 DEF LeaveSearch, NotBelow
    <3>2. /\ position <= count - 1
          /\ first(position) < value
          /\ position = count - 1 \/ first(position + 1) >= value
      BY <3>1, <1>0 DEF SteppingInv
    <3>3. first(position + 1) = largeArr[large + position + 2]
      BY <1>b DEF first
    <3>4. first(position) = largeArr[large + position + 1]
      BY <1>b DEF first
    <3>5. position <= Len(largeArr) - large - 1
      BY <3>2 DEF count
    <3>6. position = Len(largeArr) - large - 1 \/ largeArr[large + position + 2] >= value
      BY <3>2, <3>3 DEF count
    <3>7. /\ large' = large + position + 1 /\ pc' = "check"
          /\ UNCHANGED <<subset_args, small, value, step, found>>
      BY <1>6 DEF LeaveSearch, NotBelow
    <3> QED
      BY <3>1, <3>2, <3>4, <3>5, <3>6, <3>7, <1>a, <1>b
  <2>1. SubsetTypeOK'
    BY <2>0, <1>0, <1>6 DEF SubsetTypeOK, LeaveSearch, NotBelow, subset_args
  <2>2. ValueInv'
    BY <2>0, <1>0 DEF ValueInv, Looking, subset_args
  <2>3. MatchedInv'
    BY <2>0, <1>0 DEF MatchedInv, subset_args, SubsetTypeOK
  <2>4. PassedInv'
    <3>1. ASSUME NEW k \in 1 .. large + position + 1 PROVE largeArr[k] < value
      <4>1. k = large + position + 1 \/ largeArr[k] < largeArr[large + position + 1]
        BY <2>0, <1>a
      <4> QED
        BY <4>1, <2>0, <1>a, <1>b
    <3> QED
      BY <3>1, <2>0 DEF PassedInv, Looking, subset_args
  <2>5. SteppingInv' /\ AnswersInclusion'
    BY <2>0 DEF SteppingInv, AnswersInclusion
  <2>6. BoundInv'
    BY <2>0 DEF BoundInv, subset_args
  <2> QED
    BY <2>1, <2>2, <2>3, <2>4, <2>5, <2>6 DEF SubsetInv
<1>7. CASE NotFound
  <2>1. SubsetTypeOK'
    BY <1>0, <1>7 DEF SubsetTypeOK, NotFound, Return, subset_args
  <2>2. AnswersInclusion'
    <3>1. ASSUME NEW k \in 1 .. Len(largeArr) PROVE largeArr[k] # value
      <4>1. CASE k <= large
        BY <4>1, <1>0, <1>7, <1>a DEF PassedInv, Looking, NotFound, SubsetTypeOK
      <4>2. CASE k = large + 1
        BY <4>2, <1>0, <1>7 DEF NotFound, Present, SubsetTypeOK
      <4>3. CASE k > large + 1
        <5>1. largeArr[large + 1] >= value /\ largeArr[large + 1] < largeArr[k]
          BY <4>3, <1>0, <1>7, <1>a, <1>b DEF BoundInv, NotFound
        <5>2. largeArr[large + 1] \in Nat /\ largeArr[k] \in Nat
          BY <4>3, <1>a, <1>b
        <5> QED
          BY <5>1, <5>2, <1>b
      <4> QED
        BY <4>1, <4>2, <4>3, <1>0 DEF SubsetTypeOK
    <3>2. value \notin Range(largeArr)
      BY <3>1, <1>d DEF Range
    <3>3. value \in Range(smallArr)
      BY <1>0, <1>7, <1>a, <1>b, <1>d DEF ValueInv, Looking, NotFound, Range
    <3> QED
      BY <3>2, <3>3, <1>7 DEF AnswersInclusion, NotFound, Return, subset_args, Range
  <2>3. ValueInv' /\ MatchedInv' /\ PassedInv' /\ SteppingInv' /\ BoundInv'
    BY <1>7 DEF ValueInv, MatchedInv, PassedInv, SteppingInv, BoundInv, NotFound, Return, Looking
  <2> QED
    BY <2>1, <2>2, <2>3 DEF SubsetInv
<1>8. CASE FoundOne
  <2>0. /\ pc = "check" /\ pc' = "next"
        /\ UNCHANGED <<subset_args, small, value, position, step, found>>
        /\ large' = large + 1 /\ large \in Nat /\ large < Len(largeArr)
        /\ largeArr[large + 1] = value /\ value = smallArr[small] /\ small >= 1
    BY <1>0, <1>8 DEF FoundOne, Present, ValueInv, Looking, SubsetTypeOK
  <2>1. SubsetTypeOK'
    BY <2>0, <1>0 DEF SubsetTypeOK, subset_args
  <2>2. MatchedInv'
    BY <2>0, <1>0 DEF MatchedInv, subset_args, SubsetTypeOK
  <2>3. PassedInv'
    <3>1. ASSUME NEW k \in 1 .. large + 1 PROVE largeArr[k] <= smallArr[small]
      <4>1. k <= large => largeArr[k] < value
        BY <1>0, <2>0 DEF PassedInv, Looking
      <4> QED
        BY <4>1, <2>0, <1>a, <1>b
    <3> QED
      BY <3>1, <2>0 DEF PassedInv, Looking, subset_args
  <2>4. ValueInv' /\ SteppingInv' /\ BoundInv' /\ AnswersInclusion'
    BY <2>0 DEF ValueInv, SteppingInv, BoundInv, AnswersInclusion, Looking
  <2> QED
    BY <2>1, <2>2, <2>3, <2>4 DEF SubsetInv
<1>9. CASE UNCHANGED subset_vars
  <2>0. UNCHANGED <<smallArr, largeArr, jump, small, large, value, position, step, pc, found>>
    BY <1>9 DEF subset_vars, subset_args
  <2>1. SubsetTypeOK'
    BY <1>0, <2>0 DEF SubsetTypeOK
  <2>2. ValueInv' /\ MatchedInv'
    BY <1>0, <2>0 DEF ValueInv, MatchedInv, Looking
  <2>3. PassedInv'
    BY <1>0, <2>0 DEF PassedInv, Looking
  <2>4. SteppingInv' /\ BoundInv'
    BY <1>0, <2>0 DEF SteppingInv, BoundInv, count, first
  <2>5. AnswersInclusion'
    BY <1>0, <2>0 DEF AnswersInclusion, Range
  <2> QED
    BY <2>1, <2>2, <2>3, <2>4, <2>5 DEF SubsetInv
<1> QED
  BY <1>1, <1>2, <1>3, <1>4, <1>5, <1>6, <1>7, <1>8, <1>9 DEF SubsetNext, SubsetStep, SubsetReturned

-----------------------------------------------------------------------------
(* The state of the walk is always one the declarations allow.             *)
THEOREM SubsetTypeCorrect == SubsetSpec => []SubsetTypeOK
<1>1. SubsetInv => SubsetTypeOK
  BY DEF SubsetInv
<1> QED
  BY SubsetStart, SubsetKept, <1>1, PTL DEF SubsetSpec

(* The unsigned subtraction of the search never wraps round.               *)
THEOREM SubtractionSafe == SubsetSpec => []NoWrap
<1>1. SubsetInv => NoWrap
  BY DEF SubsetInv, SteppingInv, NoWrap
<1> QED
  BY SubsetStart, SubsetKept, <1>1, PTL DEF SubsetSpec

(* Merge and stepping search agree: both stop at the lower bound.          *)
THEOREM SearchCorrect == SubsetSpec => []StopsAtLowerBound
<1>1. SubsetInv => StopsAtLowerBound
  BY DEF SubsetInv, PassedInv, BoundInv, StopsAtLowerBound, Looking
<1> QED
  BY SubsetStart, SubsetKept, <1>1, PTL DEF SubsetSpec

(* Whatever is returned is the truth about inclusion.                      *)
THEOREM InclusionCorrect == SubsetSpec => []AnswersInclusion
<1>1. SubsetInv => AnswersInclusion
  BY DEF SubsetInv
<1> QED
  BY SubsetStart, SubsetKept, <1>1, PTL DEF SubsetSpec

-----------------------------------------------------------------------------
(* The reduction to fewer bits.                                            *)

D == 2^target_bpp

(* What the caller guarantees of the array.                                *)
SourceInv ==
    /\ Ascending(hash_pt)
    /\ \A i \in 1 .. hash_cnt : hash_pt[i] < 2^(target_bpp + 1)

(* The search keeps the boundary between its bounds.                       *)
SearchInv ==
    phase = "search" =>
        /\ l <= u
        /\ \A i \in 1 .. l : hash_pt[i] < D
        /\ \A i \in u + 1 .. hash_cnt : hash_pt[i] >= D
        /\ dest = <<>>

(* Where the two halves are read.                                          *)
HalvesInv ==
    phase # "search" =>
        /\ v1 <= u
        /\ u <= v2
        /\ phase = "merge" => v1 < u /\ v2 < hash_cnt
        /\ phase \in {"append", "done"} => v1 = u \/ v2 = hash_cnt
        /\ phase = "done" => v1 = u /\ v2 = hash_cnt

(* The truncated values of what is read.                                   *)
Covered(i, j) == {Masked(hash_pt[k]) : k \in (1 .. i) \cup (u + 1 .. j)}

(* What is written is exactly that, in order, and below what comes next.   *)
OutputInv ==
    phase # "search" =>
        /\ Len(dest) <= v1 + v2 - u
        /\ Ascending(dest)
        /\ Range(dest) = Covered(v1, v2)
        /\ v1 < u => \A k \in 1 .. Len(dest) : dest[k] < Masked(hash_pt[v1 + 1])
        /\ v2 < hash_cnt => \A k \in 1 .. Len(dest) : dest[k] < Masked(hash_pt[v2 + 1])

IInv == /\ TypeOK
        /\ SourceInv
        /\ SearchInv
        /\ SplitsAtHighBit
        /\ HalvesInv
        /\ OutputInv

-----------------------------------------------------------------------------
(* The arguments: their types, and what Powers says of them.               *)
LEMMA ArgFacts ==
    ASSUME TypeOK, SourceInv
    PROVE  /\ hash_pt \in Seq(Nat) /\ hash_cnt \in Nat
           /\ \A i \in 1 .. hash_cnt : hash_pt[i] \in Nat /\ hash_pt[i] < 2 * D
           /\ \A i, j \in 1 .. hash_cnt : i < j => hash_pt[i] < hash_pt[j]
           /\ D \in Nat \ {0}
           /\ \A i \in 1 .. hash_cnt : Masked(hash_pt[i]) \in Nat
<1>1. hash_pt \in Seq(Nat)
  BY ArraysAssumption DEF TypeOK
<1>2. target_bpp \in 1 .. 31
  BY TargetAssumption DEF TypeOK
<1>3. D \in Nat \ {0} /\ 2^(target_bpp + 1) = 2 * D
  <2>1. target_bpp \in 0 .. 38
    BY <1>2
  <2> QED
    BY <2>1, Powers, Zenon DEF D
<1>4. hash_cnt \in Nat /\ \A i \in 1 .. hash_cnt : hash_pt[i] \in Nat
  BY <1>1 DEF hash_cnt
<1>5. \A i \in 1 .. hash_cnt : hash_pt[i] < 2 * D
  BY <1>3 DEF SourceInv
<1>6. ASSUME NEW i \in 1 .. hash_cnt PROVE Masked(hash_pt[i]) \in Nat
  BY <1>3, <1>4 DEF Masked, D
<1> QED
  BY <1>1, <1>3, <1>4, <1>5, <1>6 DEF SourceInv, Ascending, hash_cnt

(* Once the halves are known, masking leaves the lower one as it is and    *)
(* shifts the upper one: both are ascending.                               *)
LEMMA HalfFacts ==
    ASSUME TypeOK, SourceInv, SplitsAtHighBit, phase # "search"
    PROVE  /\ \A i \in 1 .. u : Masked(hash_pt[i]) = hash_pt[i]
           /\ \A i, j \in 1 .. u : i < j => Masked(hash_pt[i]) < Masked(hash_pt[j])
           /\ \A i, j \in u + 1 .. hash_cnt :
                 i < j => Masked(hash_pt[i]) < Masked(hash_pt[j])
<1>1. u \in Nat /\ u <= hash_cnt
  BY ArgFacts DEF TypeOK
<1>2. ASSUME NEW i \in 1 .. u
      PROVE  i \in 1 .. hash_cnt /\ Masked(hash_pt[i]) = hash_pt[i]
  <2>1. i \in 1 .. hash_cnt /\ i <= u
    BY <1>1, ArgFacts
  <2>2. hash_pt[i] < D
    BY <2>1 DEF SplitsAtHighBit, D
  <2> QED
    BY <2>1, <2>2, ArgFacts, Masking DEF Masked, D
<1>3. ASSUME NEW i \in u + 1 .. hash_cnt
      PROVE  i \in 1 .. hash_cnt /\ Masked(hash_pt[i]) = hash_pt[i] - D
  <2>1. i \in 1 .. hash_cnt /\ ~(i <= u)
    BY <1>1, ArgFacts
  <2>2. ~(hash_pt[i] < D) /\ hash_pt[i] \in Nat /\ hash_pt[i] < 2 * D /\ D \in Nat \ {0}
    BY <2>1, ArgFacts DEF SplitsAtHighBit, D
  <2>3. hash_pt[i] >= D
    BY <2>2
  <2>4. hash_pt[i] % D = hash_pt[i] - D
    BY <2>2, <2>3, Masking
  <2> QED
    BY <2>1, <2>4 DEF Masked, D
<1>4. ASSUME NEW i \in 1 .. u, NEW j \in 1 .. u, i < j
      PROVE  Masked(hash_pt[i]) < Masked(hash_pt[j])
  BY <1>2, <1>4, ArgFacts
<1>5. ASSUME NEW i \in u + 1 .. hash_cnt, NEW j \in u + 1 .. hash_cnt, i < j
      PROVE  Masked(hash_pt[i]) < Masked(hash_pt[j])
  <2>1. /\ Masked(hash_pt[i]) = hash_pt[i] - D /\ Masked(hash_pt[j]) = hash_pt[j] - D
        /\ hash_pt[i] \in Nat /\ hash_pt[j] \in Nat /\ hash_pt[i] < hash_pt[j]
        /\ D \in Nat
    BY <1>3, <1>5, ArgFacts
  <2> QED
    BY <2>1
<1> QED
  BY <1>2, <1>4, <1>5

(* The function starts with the invariant.                                 *)
LEMMA InitInv == Init => IInv
<1> SUFFICES ASSUME Init PROVE IInv
  OBVIOUS
<1>1. SourceInv
  BY DEF Init, SourceInv
<1>2. hash_pt \in Seq(Nat) /\ hash_cnt \in Nat
  BY ArraysAssumption DEF Init, hash_cnt
<1>3. TypeOK
  BY <1>2 DEF Init, TypeOK
<1>4. SearchInv
  BY <1>2 DEF Init, SearchInv
<1> QED
  BY <1>1, <1>3, <1>4 DEF IInv, Init, SplitsAtHighBit, HalvesInv, OutputInv

(* A value is written that is below all that remains: the common part of   *)
(* the five writing steps.                                                 *)
LEMMA WriteStep ==
    ASSUME IInv, phase # "search",
           NEW i \in Nat, NEW j \in Nat,
           v1 <= i, i <= u, v2 <= j, j <= hash_cnt, i + j > v1 + v2,
           NEW x \in Nat,
           \A k \in 1 .. Len(dest) : dest[k] < x,
           Covered(i, j) = Covered(v1, v2) \cup {x},
           i < u => x < Masked(hash_pt[i + 1]),
           j < hash_cnt => x < Masked(hash_pt[j + 1])
    PROVE  /\ Append(dest, x) \in Seq(Nat)
           /\ Len(Append(dest, x)) <= i + j - u
           /\ Len(Append(dest, x)) <= hash_cnt
           /\ Ascending(Append(dest, x))
           /\ Range(Append(dest, x)) = Covered(i, j)
           /\ i < u => \A k \in 1 .. Len(Append(dest, x)) :
                          Append(dest, x)[k] < Masked(hash_pt[i + 1])
           /\ j < hash_cnt => \A k \in 1 .. Len(Append(dest, x)) :
                          Append(dest, x)[k] < Masked(hash_pt[j + 1])
<1>1. /\ dest \in Seq(Nat) /\ Ascending(dest) /\ Range(dest) = Covered(v1, v2)
      /\ Len(dest) \in Nat /\ Len(dest) <= v1 + v2 - u
      /\ v1 \in Nat /\ v2 \in Nat /\ u \in Nat /\ u <= hash_cnt /\ hash_cnt \in Nat
  BY ArgFacts DEF IInv, TypeOK, OutputInv
<1>2. /\ Append(dest, x) \in Seq(Nat)
      /\ Len(Append(dest, x)) = Len(dest) + 1
      /\ Ascending(Append(dest, x))
      /\ Range(Append(dest, x)) = Range(dest) \cup {x}
      /\ \A y \in Nat : x < y =>
            \A k \in 1 .. Len(Append(dest, x)) : Append(dest, x)[k] < y
  BY <1>1, AppendGreatest
<1>3. Len(Append(dest, x)) <= i + j - u /\ Len(Append(dest, x)) <= hash_cnt
  BY <1>1, <1>2
<1>4. i < u => Masked(hash_pt[i + 1]) \in Nat
  <2>1. i < u => i + 1 \in 1 .. hash_cnt
    BY <1>1
  <2> QED
    BY <2>1, ArgFacts DEF IInv
<1>5. j < hash_cnt => Masked(hash_pt[j + 1]) \in Nat
  <2>1. j < hash_cnt => j + 1 \in 1 .. hash_cnt
    BY <1>1
  <2> QED
    BY <2>1, ArgFacts DEF IInv
<1> QED
  BY <1>1, <1>2, <1>3, <1>4, <1>5

(* One more element of either half is covered.                             *)
LEMMA CoverMore ==
    ASSUME NEW i \in Nat, NEW j \in Nat, u \in Nat
    PROVE  /\ Covered(i + 1, j) = Covered(i, j) \cup {Masked(hash_pt[i + 1])}
           /\ u <= j => Covered(i, j + 1) = Covered(i, j) \cup {Masked(hash_pt[j + 1])}
<1>1. 1 .. i + 1 = (1 .. i) \cup {i + 1}
  OBVIOUS
<1>2. u <= j => u + 1 .. j + 1 = (u + 1 .. j) \cup {j + 1}
  OBVIOUS
<1> DEFINE M(k) == Masked(hash_pt[k])
<1>3. Covered(i + 1, j) = {M(k) : k \in (1 .. i) \cup {i + 1} \cup (u + 1 .. j)}
  BY <1>1 DEF Covered
<1>4. u <= j => Covered(i, j + 1) = {M(k) : k \in (1 .. i) \cup (u + 1 .. j) \cup {j + 1}}
  <2>1. u <= j => (1 .. i) \cup (u + 1 .. j + 1) = (1 .. i) \cup (u + 1 .. j) \cup {j + 1}
    BY <1>2
  <2> QED
    BY <2>1 DEF Covered
<1>5. Covered(i, j) = {M(k) : k \in (1 .. i) \cup (u + 1 .. j)}
  BY DEF Covered
<1> HIDE DEF M
<1>6. {M(k) : k \in (1 .. i) \cup {i + 1} \cup (u + 1 .. j)}
        = {M(k) : k \in (1 .. i) \cup (u + 1 .. j)} \cup {M(i + 1)}
  OBVIOUS
<1>7. {M(k) : k \in (1 .. i) \cup (u + 1 .. j) \cup {j + 1}}
        = {M(k) : k \in (1 .. i) \cup (u + 1 .. j)} \cup {M(j + 1)}
  OBVIOUS
<1> QED
  BY <1>3, <1>4, <1>5, <1>6, <1>7 DEF M

(* Steps of the search and the split.                                      *)
LEMMA SearchStep == IInv /\ (Search \/ Split) => IInv'
<1> SUFFICES ASSUME IInv, Search \/ Split PROVE IInv'
  OBVIOUS
<1>0. /\ TypeOK /\ SourceInv /\ SearchInv /\ phase = "search"
      /\ UNCHANGED <<hash_pt, target_bpp, dest>>
  BY DEF IInv, Search, Split, args
<1>1. /\ hash_pt \in Seq(Nat) /\ hash_cnt \in Nat /\ hash_cnt' = hash_cnt /\ D' = D
      /\ \A i \in 1 .. hash_cnt : hash_pt[i] \in Nat
      /\ \A i, j \in 1 .. hash_cnt : i < j => hash_pt[i] < hash_pt[j]
      /\ D \in Nat \ {0}
      /\ l \in Nat /\ u \in Nat /\ u <= hash_cnt /\ l <= hash_cnt /\ l <= u
      /\ \A i \in 1 .. l : hash_pt[i] < D
      /\ \A i \in u + 1 .. hash_cnt : hash_pt[i] >= D
      /\ dest = <<>>
  BY <1>0, ArgFacts DEF SearchInv, D, hash_cnt, TypeOK
<1>2. SourceInv'
  BY <1>0 DEF SourceInv, hash_cnt
<1>3. CASE Search
  <2> DEFINE i == (l + u) \div 2
  <2>1. i \in Nat /\ l <= i /\ i < u
    BY <1>1, <1>3 DEF Search
  <2> HIDE DEF i
  <2>2. i + 1 \in 1 .. hash_cnt
    BY <2>1, <1>1
  <2>3. UNCHANGED <<v1, v2, phase>>
    BY <1>3 DEF Search
  <2>4. CASE Low(hash_pt[i + 1])
    <3>1. l' = i + 1 /\ u' = u
      BY <1>3, <2>4 DEF Search, i, PastProbe
    <3>2. hash_pt[i + 1] < D
      BY <2>4, <2>2, <1>1 DEF Low, D
    <3>3. ASSUME NEW k \in 1 .. i + 1 PROVE hash_pt[k] < D
      <4>1. CASE k = i + 1
        BY <3>2, <4>1
      <4>2. CASE k # i + 1
        <5>1. k \in 1 .. hash_cnt /\ k < i + 1
          BY <4>2, <2>1, <2>2, <1>1
        <5>2. hash_pt[k] < hash_pt[i + 1] /\ hash_pt[k] \in Nat /\ hash_pt[i + 1] \in Nat
          BY <5>1, <2>2, <1>1
        <5> QED
          BY <5>2, <3>2, <1>1
      <4> QED
        BY <4>1, <4>2
    <3>4. TypeOK'
      BY <1>0, <1>1, <2>1, <2>3, <3>1 DEF TypeOK
    <3>5. SearchInv'
      BY <1>0, <1>1, <2>1, <3>1, <3>3 DEF SearchInv
    <3> QED
      BY <1>0, <1>2, <2>3, <3>4, <3>5
      DEF IInv, SplitsAtHighBit, HalvesInv, OutputInv
  <2>5. CASE ~Low(hash_pt[i + 1])
    <3>1. u' = i /\ l' = l
      BY <1>3, <2>5 DEF Search, i
    <3>2. hash_pt[i + 1] >= D
      BY <2>5, <2>2, <1>1 DEF Low, D
    <3>3. ASSUME NEW k \in i + 1 .. hash_cnt PROVE hash_pt[k] >= D
      <4>1. CASE k = i + 1
        BY <3>2, <4>1
      <4>2. CASE k # i + 1
        <5>1. k \in 1 .. hash_cnt /\ i + 1 < k
          BY <4>2, <2>1, <2>2, <1>1
        <5>2. hash_pt[i + 1] < hash_pt[k] /\ hash_pt[k] \in Nat /\ hash_pt[i + 1] \in Nat
          BY <5>1, <2>2, <1>1
        <5> QED
          BY <5>2, <3>2, <1>1
      <4> QED
        BY <4>1, <4>2
    <3>4. TypeOK'
      BY <1>0, <1>1, <2>1, <2>3, <3>1 DEF TypeOK
    <3>5. SearchInv'
      BY <1>0, <1>1, <2>1, <3>1, <3>3 DEF SearchInv
    <3> QED
      BY <1>0, <1>2, <2>3, <3>4, <3>5
      DEF IInv, SplitsAtHighBit, HalvesInv, OutputInv
  <2> QED
    BY <2>4, <2>5
<1>4. CASE Split
  <2>1. /\ l = u /\ v1' = 0 /\ v2' = u /\ u' = u /\ l' = l
        /\ phase' = IF 0 < u /\ u < hash_cnt THEN "merge" ELSE "append"
    BY <1>4, <1>1 DEF Split, UpperHalf
  <2>2. TypeOK'
    BY <1>0, <1>1, <2>1 DEF TypeOK
  <2>3. SplitsAtHighBit'
    <3>1. ASSUME NEW k \in 1 .. hash_cnt PROVE k <= u <=> hash_pt[k] < D
      <4>1. CASE k <= u
        BY <4>1, <2>1, <1>1
      <4>2. CASE ~(k <= u)
        <5>1. k \in u + 1 .. hash_cnt /\ hash_pt[k] \in Nat
          BY <4>2, <1>1
        <5> QED
          BY <5>1, <4>2, <1>1
      <4> QED
        BY <4>1, <4>2
    <3> QED
      BY <3>1, <2>1, <1>0, <1>1 DEF SplitsAtHighBit, D
  <2>4. HalvesInv'
    BY <2>1, <1>1 DEF HalvesInv
  <2>5. OutputInv'
    <3>1. /\ dest' = <<>> /\ Len(dest') = 0 /\ Range(dest') = {} /\ Ascending(dest')
      BY <1>0, <1>1 DEF Range, Ascending
    <3>2. Covered(v1, v2)' = {}
      BY <2>1, <1>1 DEF Covered
    <3> QED
      BY <3>1, <3>2, <2>1, <1>1 DEF OutputInv, Ascending
  <2>6. SearchInv'
    BY <2>1 DEF SearchInv
  <2> QED
    BY <1>2, <2>2, <2>3, <2>4, <2>5, <2>6 DEF IInv
<1> QED
  BY <1>3, <1>4

-----------------------------------------------------------------------------
(* The heads of the two halves, and what comes after them.                 *)
LEMMA HeadFacts ==
    ASSUME IInv, phase # "search"
    PROVE  /\ v1 \in Nat /\ v2 \in Nat /\ u \in Nat /\ hash_cnt \in Nat
           /\ v1 <= u /\ u <= v2 /\ u <= hash_cnt /\ v2 <= hash_cnt
           /\ v1 < u =>
                 /\ v1_val \in Nat
                 /\ Masked(hash_pt[v1 + 1]) = v1_val
                 /\ \A k \in 1 .. Len(dest) : dest[k] < v1_val
                 /\ v1 + 1 < u => v1_val < Masked(hash_pt[(v1 + 1) + 1])
           /\ v2 < hash_cnt =>
                 /\ v2_val \in Nat
                 /\ Masked(hash_pt[v2 + 1]) = v2_val
                 /\ \A k \in 1 .. Len(dest) : dest[k] < v2_val
                 /\ v2 + 1 < hash_cnt => v2_val < Masked(hash_pt[(v2 + 1) + 1])
<1>1. /\ v1 \in Nat /\ v2 \in Nat /\ u \in Nat /\ hash_cnt \in Nat
      /\ v1 <= u /\ u <= v2 /\ u <= hash_cnt /\ v2 <= hash_cnt
  BY ArgFacts DEF IInv, TypeOK, HalvesInv
<1>2. ASSUME v1 < u
      PROVE  /\ v1_val \in Nat
             /\ Masked(hash_pt[v1 + 1]) = v1_val
             /\ \A k \in 1 .. Len(dest) : dest[k] < v1_val
             /\ v1 + 1 < u => v1_val < Masked(hash_pt[(v1 + 1) + 1])
  <2>1. v1 + 1 \in 1 .. u /\ v1 + 1 \in 1 .. hash_cnt
    BY <1>1, <1>2
  <2>2. v1_val \in Nat /\ Masked(hash_pt[v1 + 1]) = v1_val
    BY <2>1, ArgFacts, HalfFacts DEF IInv, v1_val
  <2>3. v1 + 1 < u => (v1 + 1) + 1 \in 1 .. u /\ v1 + 1 < (v1 + 1) + 1
    BY <1>1
  <2>4. v1 + 1 < u => Masked(hash_pt[v1 + 1]) < Masked(hash_pt[(v1 + 1) + 1])
    BY <2>1, <2>3, HalfFacts DEF IInv
  <2>5. \A k \in 1 .. Len(dest) : dest[k] < Masked(hash_pt[v1 + 1])
    BY <1>2 DEF IInv, OutputInv
  <2> QED
    BY <2>2, <2>4, <2>5
<1>3. ASSUME v2 < hash_cnt
      PROVE  /\ v2_val \in Nat
             /\ Masked(hash_pt[v2 + 1]) = v2_val
             /\ \A k \in 1 .. Len(dest) : dest[k] < v2_val
             /\ v2 + 1 < hash_cnt => v2_val < Masked(hash_pt[(v2 + 1) + 1])
  <2>1. v2 + 1 \in u + 1 .. hash_cnt /\ v2 + 1 \in 1 .. hash_cnt
    BY <1>1, <1>3
  <2>2. v2_val \in Nat /\ Masked(hash_pt[v2 + 1]) = v2_val
    BY <2>1, ArgFacts DEF IInv, v2_val
  <2>3. v2 + 1 < hash_cnt =>
           (v2 + 1) + 1 \in u + 1 .. hash_cnt /\ v2 + 1 < (v2 + 1) + 1
    BY <1>1
  <2>4. v2 + 1 < hash_cnt => Masked(hash_pt[v2 + 1]) < Masked(hash_pt[(v2 + 1) + 1])
    BY <2>1, <2>3, HalfFacts DEF IInv
  <2>5. \A k \in 1 .. Len(dest) : dest[k] < Masked(hash_pt[v2 + 1])
    BY <1>3 DEF IInv, OutputInv
  <2> QED
    BY <2>2, <2>4, <2>5
<1> QED
  BY <1>1, <1>2, <1>3

(* A step that writes x and reads on to i and j keeps the invariant.       *)
LEMMA Written ==
    ASSUME IInv, phase # "search",
           NEW i \in Nat, NEW j \in Nat,
           v1 <= i, i <= u, v2 <= j, j <= hash_cnt, i + j > v1 + v2,
           NEW x \in Nat,
           \A k \in 1 .. Len(dest) : dest[k] < x,
           Covered(i, j) = Covered(v1, v2) \cup {x},
           i < u => x < Masked(hash_pt[i + 1]),
           j < hash_cnt => x < Masked(hash_pt[j + 1]),
           UNCHANGED <<args, l, u>>,
           v1' = i, v2' = j, dest' = Append(dest, x),
           phase' \in {"merge", "append"},
           phase' = "merge" => i < u /\ j < hash_cnt,
           phase' = "append" => i = u \/ j = hash_cnt
    PROVE  IInv'
<1>0. /\ hash_pt' = hash_pt /\ target_bpp' = target_bpp /\ u' = u /\ l' = l
      /\ hash_cnt' = hash_cnt /\ hash_cnt \in Nat
      /\ v1 \in Nat /\ v2 \in Nat /\ u \in Nat /\ u <= v2 /\ u <= hash_cnt
      /\ phase' # "search" /\ phase' # "done"
  BY HeadFacts DEF args, hash_cnt
<1>1. /\ Append(dest, x) \in Seq(Nat)
      /\ Len(Append(dest, x)) <= i + j - u
      /\ Len(Append(dest, x)) <= hash_cnt
      /\ Ascending(Append(dest, x))
      /\ Range(Append(dest, x)) = Covered(i, j)
      /\ i < u => \A k \in 1 .. Len(Append(dest, x)) :
                     Append(dest, x)[k] < Masked(hash_pt[i + 1])
      /\ j < hash_cnt => \A k \in 1 .. Len(Append(dest, x)) :
                     Append(dest, x)[k] < Masked(hash_pt[j + 1])
  BY WriteStep
<1>2. TypeOK'
  BY <1>0, <1>1 DEF IInv, TypeOK
<1>3. SourceInv' /\ SearchInv'
  BY <1>0 DEF IInv, SourceInv, SearchInv, hash_cnt
<1>4. SplitsAtHighBit'
  BY <1>0 DEF IInv, SplitsAtHighBit, hash_cnt
<1>5. HalvesInv'
  BY <1>0 DEF HalvesInv
<1>6. OutputInv'
  <2>1. Covered(v1, v2)' = Covered(i, j)
    BY <1>0 DEF Covered, Masked
  <2>2. ASSUME NEW k \in Nat PROVE Masked(hash_pt[k + 1])' = Masked(hash_pt[k + 1])
    BY <1>0 DEF Masked
  <2>3. Ascending(dest)' /\ Range(dest)' = Covered(v1, v2)'
    BY <1>1, <2>1 DEF Ascending, Range
  <2>4. Masked(hash_pt[v1 + 1])' = Masked(hash_pt[i + 1])
        /\ Masked(hash_pt[v2 + 1])' = Masked(hash_pt[j + 1])
    BY <1>0 DEF Masked
  <2>5. Len(dest)' = Len(Append(dest, x))
    OBVIOUS
  <2> QED
    BY <1>0, <1>1, <2>3, <2>4, <2>5 DEF OutputInv
<1> QED
  BY <1>2, <1>3, <1>4, <1>5, <1>6 DEF IInv

(* The next step keeps the invariant.                                      *)
LEMMA NextInv == IInv /\ [Next]_vars => IInv'
<1> SUFFICES ASSUME IInv, [Next]_vars PROVE IInv'
  OBVIOUS
<1>1. CASE Search \/ Split
  BY <1>1, SearchStep
<1>2. CASE TakeLow
  <2>1. /\ phase # "search" /\ phase = "merge" /\ v1_val < v2_val
        /\ UNCHANGED <<args, l, u>> /\ v1' = v1 + 1 /\ v2' = v2
        /\ dest' = Append(dest, v1_val)
        /\ phase' = IF v1 + 1 = u THEN "append" ELSE "merge"
    BY <1>2 DEF TakeLow
  <2>2. v1 < u /\ v2 < hash_cnt
    BY <2>1 DEF IInv, HalvesInv
  <2>3. /\ v1 + 1 \in Nat /\ v2 \in Nat /\ v1_val \in Nat /\ u \in Nat
        /\ v1 <= v1 + 1 /\ v1 + 1 <= u /\ v2 <= v2 /\ v2 <= hash_cnt
        /\ (v1 + 1) + v2 > v1 + v2
        /\ \A k \in 1 .. Len(dest) : dest[k] < v1_val
        /\ v1 + 1 < u => v1_val < Masked(hash_pt[(v1 + 1) + 1])
        /\ v2 < hash_cnt => v1_val < Masked(hash_pt[v2 + 1])
        /\ v1 + 1 # u => v1 + 1 < u
    BY <2>1, <2>2, HeadFacts
  <2>4. Covered(v1 + 1, v2) = Covered(v1, v2) \cup {v1_val}
    BY <2>1, <2>2, <2>3, HeadFacts, CoverMore
  <2> QED
    BY <2>1, <2>2, <2>3, <2>4, Written
<1>3. CASE TakeHigh
  <2>1. /\ phase # "search" /\ phase = "merge" /\ v2_val < v1_val
        /\ UNCHANGED <<args, l, u>> /\ v1' = v1 /\ v2' = v2 + 1
        /\ dest' = Append(dest, v2_val)
        /\ phase' = IF v2 + 1 = hash_cnt THEN "append" ELSE "merge"
    BY <1>3 DEF TakeHigh
  <2>2. v1 < u /\ v2 < hash_cnt
    BY <2>1 DEF IInv, HalvesInv
  <2>3. /\ v1 \in Nat /\ v2 + 1 \in Nat /\ v2_val \in Nat /\ u \in Nat /\ u <= v2
        /\ v1 <= v1 /\ v1 <= u /\ v2 <= v2 + 1 /\ v2 + 1 <= hash_cnt
        /\ v1 + (v2 + 1) > v1 + v2
        /\ \A k \in 1 .. Len(dest) : dest[k] < v2_val
        /\ v2 + 1 < hash_cnt => v2_val < Masked(hash_pt[(v2 + 1) + 1])
        /\ v1 < u => v2_val < Masked(hash_pt[v1 + 1])
        /\ v2 + 1 # hash_cnt => v2 + 1 < hash_cnt
        /\ v2 \in Nat /\ Masked(hash_pt[v2 + 1]) = v2_val
    <3>1. /\ v1 \in Nat /\ v2 \in Nat /\ u \in Nat /\ hash_cnt \in Nat
          /\ v1 < u /\ v2 < hash_cnt /\ u <= v2
      BY <2>1, <2>2, HeadFacts
    <3>2. /\ v2_val \in Nat /\ Masked(hash_pt[v2 + 1]) = v2_val
          /\ v2_val < Masked(hash_pt[v1 + 1])
          /\ \A k \in 1 .. Len(dest) : dest[k] < v2_val
          /\ v2 + 1 < hash_cnt => v2_val < Masked(hash_pt[(v2 + 1) + 1])
      BY <2>1, <2>2, HeadFacts
    <3> QED
      BY <3>1, <3>2
  <2>4. Covered(v1, v2 + 1) = Covered(v1, v2) \cup {v2_val}
    BY <2>3, CoverMore
  <2> QED
    BY <2>1, <2>2, <2>3, <2>4, Written
<1>4. CASE TakeBoth
  <2>1. /\ phase # "search" /\ phase = "merge" /\ v1_val = v2_val
        /\ UNCHANGED <<args, l, u>> /\ v1' = v1 + 1 /\ v2' = v2 + 1
        /\ dest' = Append(dest, v1_val)
        /\ phase' = IF v1 + 1 = u \/ v2 + 1 = hash_cnt THEN "append" ELSE "merge"
    BY <1>4 DEF TakeBoth, PastHighHead, HalfExhausted
  <2>2. v1 < u /\ v2 < hash_cnt
    BY <2>1 DEF IInv, HalvesInv
  <2>3. Covered(v1 + 1, v2 + 1) = Covered(v1, v2) \cup {v1_val}
    <3>1. Covered(v1 + 1, v2) = Covered(v1, v2) \cup {v1_val}
      <4>1. v1 \in Nat /\ v2 \in Nat /\ u \in Nat /\ Masked(hash_pt[v1 + 1]) = v1_val
        BY <2>1, <2>2, HeadFacts
      <4> QED
        BY <4>1, CoverMore
    <3>2. Covered(v1 + 1, v2 + 1) = Covered(v1 + 1, v2) \cup {v2_val}
      <4>1. v1 + 1 \in Nat /\ v2 \in Nat /\ u \in Nat /\ u <= v2
        BY <2>1, HeadFacts
      <4>2. Masked(hash_pt[v2 + 1]) = v2_val
        BY <2>1, <2>2, HeadFacts
      <4> QED
        BY <4>1, <4>2, CoverMore
    <3> QED
      BY <3>1, <3>2, <2>1
  <2>4. /\ v1 + 1 \in Nat /\ v2 + 1 \in Nat /\ v1_val \in Nat
        /\ v1 <= v1 + 1 /\ v1 + 1 <= u /\ v2 <= v2 + 1 /\ v2 + 1 <= hash_cnt
        /\ (v1 + 1) + (v2 + 1) > v1 + v2
        /\ \A k \in 1 .. Len(dest) : dest[k] < v1_val
        /\ v1 + 1 < u => v1_val < Masked(hash_pt[(v1 + 1) + 1])
        /\ v2 + 1 < hash_cnt => v1_val < Masked(hash_pt[(v2 + 1) + 1])
        /\ v1 + 1 # u => v1 + 1 < u
        /\ v2 + 1 # hash_cnt => v2 + 1 < hash_cnt
    <3>1. /\ v1 \in Nat /\ v2 \in Nat /\ u \in Nat /\ hash_cnt \in Nat
          /\ v1 < u /\ v2 < hash_cnt
      BY <2>1, <2>2, HeadFacts
    <3>2. /\ v1_val \in Nat
          /\ \A k \in 1 .. Len(dest) : dest[k] < v1_val
          /\ v1 + 1 < u => v1_val < Masked(hash_pt[(v1 + 1) + 1])
          /\ v2 + 1 < hash_cnt => v1_val < Masked(hash_pt[(v2 + 1) + 1])
      BY <2>1, <2>2, HeadFacts
    <3> QED
      BY <3>1, <3>2
  <2> QED
    BY <2>1, <2>3, <2>4, Written
<1>5. CASE AppendLow
  <2>1. /\ phase # "search" /\ phase = "append" /\ v1 < u /\ phase' = "append"
        /\ UNCHANGED <<args, l, u>> /\ v1' = v1 + 1 /\ v2' = v2
        /\ dest' = Append(dest, v1_val)
    BY <1>5 DEF AppendLow
  <2>2. v2 = hash_cnt
    BY <2>1, HeadFacts DEF IInv, HalvesInv
  <2>3. /\ v1 + 1 \in Nat /\ v2 \in Nat /\ v1_val \in Nat /\ u \in Nat
        /\ v1 <= v1 + 1 /\ v1 + 1 <= u /\ v2 <= v2 /\ v2 <= hash_cnt
        /\ (v1 + 1) + v2 > v1 + v2
        /\ \A k \in 1 .. Len(dest) : dest[k] < v1_val
        /\ v1 + 1 < u => v1_val < Masked(hash_pt[(v1 + 1) + 1])
        /\ ~(v2 < hash_cnt)
        /\ Masked(hash_pt[v1 + 1]) = v1_val
    BY <2>1, <2>2, HeadFacts
  <2>4. Covered(v1 + 1, v2) = Covered(v1, v2) \cup {v1_val}
    <3>1. v1 \in Nat
      BY <2>1, HeadFacts
    <3> QED
      BY <2>3, <3>1, CoverMore
  <2> QED
    BY <2>1, <2>2, <2>3, <2>4, Written
<1>6. CASE AppendHigh
  <2>1. /\ phase # "search" /\ phase = "append" /\ v1 >= u /\ v2 < hash_cnt
        /\ phase' = "append"
        /\ UNCHANGED <<args, l, u>> /\ v1' = v1 /\ v2' = v2 + 1
        /\ dest' = Append(dest, v2_val)
    BY <1>6 DEF AppendHigh
  <2>2. v1 = u
    BY <2>1, HeadFacts
  <2>3. /\ v1 \in Nat /\ v2 + 1 \in Nat /\ v2_val \in Nat /\ u \in Nat /\ u <= v2
        /\ v1 <= v1 /\ v1 <= u /\ v2 <= v2 + 1 /\ v2 + 1 <= hash_cnt
        /\ v1 + (v2 + 1) > v1 + v2
        /\ \A k \in 1 .. Len(dest) : dest[k] < v2_val
        /\ v2 + 1 < hash_cnt => v2_val < Masked(hash_pt[(v2 + 1) + 1])
        /\ v2 \in Nat /\ ~(v1 < u)
        /\ Masked(hash_pt[v2 + 1]) = v2_val
    BY <2>1, <2>2, HeadFacts
  <2>4. Covered(v1, v2 + 1) = Covered(v1, v2) \cup {v2_val}
    BY <2>3, CoverMore
  <2> QED
    BY <2>1, <2>2, <2>3, <2>4, Written
<1>7. CASE Finish
  <2>1. /\ UNCHANGED <<hash_pt, target_bpp, l, u, v1, v2, dest>> /\ hash_cnt' = hash_cnt
        /\ phase = "append" /\ phase' = "done" /\ v1 >= u /\ v2 >= hash_cnt
    BY <1>7 DEF Finish, args, hash_cnt
  <2>2. v1 = u /\ v2 = hash_cnt
    BY <2>1, HeadFacts
  <2>3. TypeOK' /\ SourceInv' /\ SearchInv' /\ SplitsAtHighBit'
    BY <2>1 DEF IInv, TypeOK, SourceInv, SearchInv, SplitsAtHighBit, hash_cnt
  <2>4. HalvesInv'
    BY <2>1, <2>2 DEF IInv, HalvesInv
  <2>5. OutputInv'
    BY <2>1, <2>2 DEF IInv, OutputInv, Covered, Masked, Ascending, hash_cnt
  <2> QED
    BY <2>3, <2>4, <2>5 DEF IInv
<1>8. CASE UNCHANGED vars
  BY <1>8 DEF vars, args, hash_cnt, IInv, TypeOK, SourceInv, SearchInv, SplitsAtHighBit,
              HalvesInv, OutputInv, Covered, Masked, Ascending, D
<1> QED
  BY <1>1, <1>2, <1>3, <1>4, <1>5, <1>6, <1>7, <1>8 DEF Next, Step, Returned

-----------------------------------------------------------------------------
(* The invariant holds throughout.                                         *)
THEOREM Invariance == Spec => []IInv
  BY InitInv, NextInv, PTL DEF Spec

(* No more is written than was read, so the buffer of the caller suffices  *)
(* (set9.c:624), and all indices stay within the array.                    *)
THEOREM TypeCorrect == Spec => []TypeOK
<1>1. IInv => TypeOK
  BY DEF IInv
<1> QED
  BY <1>1, Invariance, PTL

(* The merge never reads a head past the end of its half (set9.c:710-729). *)
THEOREM ReadsCorrect == Spec => []HeadsInside
<1>1. IInv => HeadsInside
  BY DEF IInv, HalvesInv, HeadsInside
<1> QED
  BY <1>1, Invariance, PTL

(* The search ends where the high bit sets in (set9.c:685-695).            *)
THEOREM SplitCorrect == Spec => []SplitsAtHighBit
<1>1. IInv => SplitsAtHighBit
  BY DEF IInv
<1> QED
  BY <1>1, Invariance, PTL

(* The result is the normalised array of the truncated values, for arrays  *)
(* of every length and every precision.                                    *)
THEOREM ReductionCorrect == Spec => []ReducesSet
<1>1. IInv => ReducesSet
  <2> SUFFICES ASSUME IInv, phase = "done" PROVE ReducesSet
    BY DEF ReducesSet
  <2>1. v1 = u /\ v2 = hash_cnt /\ u \in Nat /\ hash_cnt \in Nat /\ u <= hash_cnt
    BY HeadFacts DEF IInv, HalvesInv
  <2>2. (1 .. v1) \cup (u + 1 .. v2) = 1 .. hash_cnt
    BY <2>1
  <2>3. Covered(v1, v2) = {hash_pt[i] % 2^target_bpp : i \in 1 .. hash_cnt}
    BY <2>2 DEF Covered, Masked
  <2> QED
    BY <2>3 DEF IInv, OutputInv, ReducesSet
<1> QED
  BY <1>1, Invariance, PTL

-----------------------------------------------------------------------------
(* downsample_to of hash_set.c, by rounds or by sorting anew.              *)

(* downsample_to: the values that are looked for at a precision.           *)
LowBits(b) == {set.hashes[i] % 2^b : i \in DOMAIN set.hashes}

Allocated == IF stage \in {"enter", "done"} THEN {source} ELSE Buffer

ReduceType ==
    /\ set \in DecodedSets
    /\ direct_target \in DirectTarget
    /\ direct_target <= set.bpp
    /\ bpp \in direct_target .. set.bpp
    /\ source \in Buffer
    /\ memory \in [Allocated -> Seq(Nat)]
    /\ pass \in Nat
    /\ stage \in {"enter", "rounds", "radix", "free", "done"}

(* The rounds keep a normalised array at the precision reached; the passes *)
(* keep the values at the last precision, sorted by the digits used.       *)
ReduceInv ==
    /\ ReduceType
    /\ stage = "enter" => source = "original" /\ hashes = set.hashes /\ bpp = set.bpp /\ pass = 0
    /\ stage \in {"rounds", "free", "done"} => Ascending(hashes) /\ Range(hashes) = LowBits(bpp)
    /\ stage = "radix" =>
          /\ pass <= passes
          /\ Range(hashes) = LowBits(direct_target)
          /\ SortedLow(hashes, pass * RadixBits)
    /\ stage \in {"free", "done"} => bpp = direct_target

LEMMA SetFacts ==
    ASSUME ReduceType
    PROVE  /\ direct_target \in 1 .. 32 /\ bpp \in 1 .. 32 /\ set.bpp \in 1 .. 32
           /\ RadixBits \in 1 .. 8
           /\ set.hashes \in Seq(Nat) /\ Ascending(set.hashes)
           /\ DOMAIN set.hashes = 1 .. Len(set.hashes)
           /\ LowBits(set.bpp) = Range(set.hashes)
           /\ hashes \in Seq(Nat) /\ DOMAIN hashes = 1 .. Len(hashes)
           /\ Allocated \in SUBSET Buffer
<1>1. /\ direct_target \in 1 .. 32 /\ bpp \in 1 .. 32 /\ set.bpp \in 1 .. 32
      /\ RadixBits \in 1 .. 8 /\ set.hashes \in Seq(Nat) /\ Ascending(set.hashes)
      /\ \A i \in 1 .. Len(set.hashes) : set.hashes[i] < 2^set.bpp
  <2>1. /\ set.bpp \in 1 .. 32 /\ set.hashes \in Seq(Nat) /\ Ascending(set.hashes)
        /\ \A i \in 1 .. Len(set.hashes) : set.hashes[i] < 2^set.bpp
    BY ReduceAssumption DEF ReduceType
  <2>2. direct_target \in 1 .. 32 /\ RadixBits \in 1 .. 8
    BY ReduceAssumption DEF ReduceType
  <2> DEFINE b == set.bpp
  <2>3. b \in 1 .. 32 /\ direct_target <= b /\ bpp \in direct_target .. b
    BY <2>1 DEF ReduceType
  <2> HIDE DEF b
  <2>4. bpp \in 1 .. 32
    BY <2>2, <2>3
  <2> QED
    BY <2>1, <2>2, <2>4
<1>2. DOMAIN set.hashes = 1 .. Len(set.hashes) /\ \A i \in DOMAIN set.hashes : set.hashes[i] \in Nat
  BY <1>1
<1>3. \A i \in DOMAIN set.hashes : set.hashes[i] % 2^set.bpp = set.hashes[i]
  <2>1. 2^set.bpp \in Nat \ {0}
    <3>1. set.bpp \in 0 .. 38
      BY <1>1
    <3> QED
      BY <3>1, Powers, Zenon
  <2> DEFINE P == 2^set.bpp
  <2>2. P \in Nat \ {0} /\ \A i \in DOMAIN set.hashes : set.hashes[i] < P
    BY <1>1, <1>2, <2>1
  <2> HIDE DEF P
  <2>3. ASSUME NEW i \in DOMAIN set.hashes PROVE set.hashes[i] % P = set.hashes[i]
    <3>1. set.hashes[i] \in 0 .. P - 1 /\ set.hashes[i] = 0 * P + set.hashes[i]
      BY <1>2, <2>2
    <3> QED
      BY <1>2, <2>2, <3>1, UniqueDivision
  <2> QED
    BY <2>3 DEF P
<1>4. LowBits(set.bpp) = Range(set.hashes)
  BY <1>3 DEF LowBits, Range
<1>5. source \in Allocated /\ Allocated \in SUBSET Buffer
  BY DEF Allocated, ReduceType
<1>6. hashes \in Seq(Nat)
  BY <1>5 DEF hashes, ReduceType
<1> QED
  BY <1>1, <1>2, <1>4, <1>5, <1>6

LEMMA LowBitsBelow ==
    ASSUME ReduceType, NEW b \in 1 .. 32
    PROVE  \A y \in LowBits(b) : y \in Nat /\ y < 2^b
<1> DEFINE P == 2^b
<1>1. P \in Nat \ {0}
  <2>1. b \in 0 .. 38
    OBVIOUS
  <2> QED
    BY <2>1, Powers, Zenon
<1>2. \A i \in DOMAIN set.hashes : set.hashes[i] \in Nat
  BY SetFacts
<1>3. \A y \in LowBits(b) : \E i \in DOMAIN set.hashes : y = set.hashes[i] % P
  BY DEF LowBits
<1> HIDE DEF P
<1>4. \A x \in Nat : x % P \in Nat /\ x % P < P
  BY <1>1
<1>5. \A y \in LowBits(b) : y \in Nat /\ y < P
  BY <1>2, <1>3, <1>4
<1> QED
  BY <1>5 DEF P

LEMMA ReduceStart == ReduceInit => ReduceInv
<1> SUFFICES ASSUME ReduceInit PROVE ReduceInv
  OBVIOUS
<1>1. /\ set \in DecodedSets /\ direct_target \in DirectTarget /\ direct_target <= set.bpp
      /\ memory = [b \in {"original"} |-> set.hashes] /\ source = "original" /\ bpp = set.bpp
      /\ pass = 0 /\ stage = "enter"
  BY DEF ReduceInit
<1>2. set.hashes \in Seq(Nat) /\ set.bpp \in 1 .. 32 /\ direct_target \in 1 .. 32
  BY <1>1, ReduceAssumption
<1>3. memory \in [Allocated -> Seq(Nat)] /\ hashes = set.hashes
  BY <1>1, <1>2 DEF Allocated, hashes
<1>4. bpp \in direct_target .. set.bpp /\ source \in Buffer
  <2> DEFINE b == set.bpp
  <2>1. b \in 1 .. 32 /\ direct_target <= b /\ bpp = b
    BY <1>1, <1>2
  <2> HIDE DEF b
  <2>2. bpp \in direct_target .. b
    BY <1>2, <2>1
  <2> QED
    BY <1>1, <2>2 DEF Buffer, b
<1> QED
  BY <1>1, <1>3, <1>4 DEF ReduceInv, ReduceType

(* The buffer that is written becomes the source.                          *)
LEMMA Exchanged ==
    ASSUME ReduceInv, stage \in {"radix", "rounds"}, stage' = stage,
           NEW arr \in Seq(Nat),
           memory' = [memory EXCEPT ![destination] = arr], source' = destination
    PROVE  /\ memory' \in [Allocated' -> Seq(Nat)]
           /\ source' \in Buffer
           /\ hashes' = arr
<1>1. memory \in [Buffer -> Seq(Nat)] /\ destination \in Buffer
  BY DEF ReduceInv, ReduceType, Allocated, destination, Buffer
<1>2. Allocated' = Buffer
  BY DEF Allocated, Buffer
<1> QED
  BY <1>1, <1>2 DEF hashes

LEMMA RoundKept ==
    ASSUME ReduceInv, Round
    PROVE  ReduceInv'
<1>1. /\ stage = "rounds" /\ bpp > direct_target /\ bpp' = bpp - 1 /\ stage' = stage
      /\ memory' = [memory EXCEPT ![destination] = OneBitLess] /\ source' = destination
      /\ set' = set /\ direct_target' = direct_target /\ pass' = pass
  BY DEF Round
<1>2. ReduceType /\ Ascending(hashes) /\ Range(hashes) = LowBits(bpp)
  BY <1>1 DEF ReduceInv
<1>3. /\ direct_target \in 1 .. 32 /\ bpp \in 1 .. 32 /\ hashes \in Seq(Nat)
      /\ DOMAIN hashes = 1 .. Len(hashes) /\ set.bpp \in 1 .. 32
      /\ set.hashes \in Seq(Nat) /\ DOMAIN set.hashes = 1 .. Len(set.hashes)
  BY <1>2, SetFacts
<1> DEFINE t == bpp - 1
<1>4. t \in 0 .. 38 /\ t + 1 = bpp
  BY <1>3
<1> HIDE DEF t
<1>5. \A i \in 1 .. Len(hashes) : hashes[i] < 2^(t + 1)
  <2>3. \A y \in LowBits(bpp) : y < 2^bpp
    BY <1>2, <1>3, LowBitsBelow
  <2>4. \A i \in 1 .. Len(hashes) : hashes[i] \in LowBits(bpp)
    BY <1>2, <1>3 DEF Range
  <2> QED
    BY <1>4, <2>3, <2>4
<1>6. /\ downsample_set(hashes, t) \in Seq(Nat) /\ Ascending(downsample_set(hashes, t))
      /\ Range(downsample_set(hashes, t)) = {hashes[i] % 2^t : i \in 1 .. Len(hashes)}
  BY <1>2, <1>3, <1>4, <1>5, DownsampleCorrect
<1>7. OneBitLess = downsample_set(hashes, t)
  BY DEF OneBitLess, t
<1>8. {hashes[i] % 2^t : i \in 1 .. Len(hashes)} = LowBits(t)
  <2>1. {hashes[i] % 2^t : i \in 1 .. Len(hashes)} = {y % 2^t : y \in LowBits(bpp)}
    BY <1>2, <1>3 DEF Range
  <2>2. \A i \in DOMAIN set.hashes : (set.hashes[i] % 2^bpp) % 2^t = set.hashes[i] % 2^t
    <3>1. \A i \in DOMAIN set.hashes : set.hashes[i] \in Nat
      BY <1>3
    <3> QED
      BY <1>4, <3>1, Retruncation
  <2>3. {y % 2^t : y \in LowBits(bpp)} = {(set.hashes[i] % 2^bpp) % 2^t : i \in DOMAIN set.hashes}
    BY DEF LowBits
  <2> QED
    BY <2>1, <2>2, <2>3 DEF LowBits
<1>9. memory' \in [Allocated' -> Seq(Nat)] /\ source' \in Buffer /\ hashes' = OneBitLess
  BY <1>1, <1>6, <1>7, Exchanged
<1>10. Ascending(hashes') /\ Range(hashes') = LowBits(t)
  BY <1>6, <1>7, <1>8, <1>9
<1>11. LowBits(bpp)' = LowBits(t)
  BY <1>1 DEF LowBits, t
<1>12. ReduceType'
  <2> DEFINE b == set.bpp
  <2>1. b \in 1 .. 32 /\ bpp \in direct_target .. b
    BY <1>2, <1>3 DEF ReduceType
  <2> HIDE DEF b
  <2>2. bpp' \in direct_target .. b
    BY <1>1, <1>3, <2>1
  <2> QED
    BY <1>1, <1>2, <1>9, <2>2 DEF ReduceType, b
<1> QED
  BY <1>1, <1>10, <1>11, <1>12 DEF ReduceInv

LEMMA PassKept ==
    ASSUME ReduceInv, RadixPass
    PROVE  ReduceInv'
<1> DEFINE dig == [i \in DOMAIN hashes |-> (hashes[i] \div 2^(pass * RadixBits)) % 2^RadixBits]
           moved == Distributed(hashes, dig)
<1>1. /\ stage = "radix" /\ pass < passes /\ stage' = stage /\ pass' = pass + 1
      /\ memory' = [memory EXCEPT ![destination] = moved] /\ source' = destination
      /\ set' = set /\ direct_target' = direct_target /\ bpp' = bpp
  BY DEF RadixPass
<1>2. /\ ReduceType /\ Range(hashes) = LowBits(direct_target)
      /\ SortedLow(hashes, pass * RadixBits)
  BY <1>1 DEF ReduceInv
<1>3. /\ direct_target \in 1 .. 32 /\ RadixBits \in 1 .. 8 /\ hashes \in Seq(Nat)
      /\ DOMAIN hashes = 1 .. Len(hashes) /\ pass \in Nat
  BY <1>2, SetFacts DEF ReduceType
<1>4. passes \in Nat /\ pass * RadixBits \in 0 .. 31
  BY <1>1, <1>3, PassesReach DEF passes
<1>5. dig = PassDigits(hashes, pass, RadixBits)
  BY <1>3 DEF PassDigits
<1>6. PassDigits(hashes, pass, RadixBits) \in [1 .. Len(hashes) -> Nat]
  BY <1>3, <1>4, PassDigitsType
<1> HIDE DEF dig, moved
<1>7. /\ moved \in Seq(Nat) /\ Len(moved) = Len(hashes) /\ Range(moved) = Range(hashes)
      /\ \A k \in 1 .. Len(hashes) :
            moved[Rank(PassDigits(hashes, pass, RadixBits), Len(hashes), k)] = hashes[k]
  BY <1>3, <1>5, <1>6, DistributedFacts, DistributedRange DEF moved
<1>8. SortedLow(moved, (pass + 1) * RadixBits)
  BY <1>2, <1>3, <1>4, <1>7, PassSortsKeys
<1>9. memory' \in [Allocated' -> Seq(Nat)] /\ source' \in Buffer /\ hashes' = moved
  BY <1>1, <1>7, Exchanged
<1>10. LowBits(direct_target)' = LowBits(direct_target) /\ passes' = passes
  BY <1>1 DEF LowBits, passes
<1>11. pass' <= passes' /\ pass' \in Nat
  BY <1>1, <1>3, <1>4, <1>10
<1>12. ReduceType'
  BY <1>1, <1>2, <1>9, <1>11 DEF ReduceType
<1> QED
  BY <1>1, <1>2, <1>7, <1>8, <1>9, <1>10, <1>11, <1>12 DEF ReduceInv

LEMMA ChooseKept ==
    ASSUME ReduceInv, Choose
    PROVE  ReduceInv'
<1> DEFINE radix == bpp - direct_target > passes
           masked == [i \in DOMAIN hashes |-> hashes[i] % Truncating]
<1>1. /\ stage = "enter" /\ bpp # direct_target
      /\ stage' = IF radix THEN "radix" ELSE "rounds"
      /\ memory' = [b \in Buffer |-> IF b = "scratch" THEN <<>>
                                     ELSE IF radix THEN masked ELSE hashes]
      /\ set' = set /\ direct_target' = direct_target /\ source' = source
      /\ bpp' = bpp /\ pass' = pass
  BY DEF Choose
<1>2. /\ ReduceType /\ source = "original" /\ hashes = set.hashes /\ bpp = set.bpp /\ pass = 0
  BY <1>1 DEF ReduceInv
<1>3. /\ direct_target \in 1 .. 32 /\ bpp \in 1 .. 32 /\ RadixBits \in 1 .. 8
      /\ hashes \in Seq(Nat) /\ DOMAIN hashes = 1 .. Len(hashes) /\ Ascending(set.hashes)
      /\ LowBits(set.bpp) = Range(set.hashes)
  BY <1>2, SetFacts
<1>4. masked \in Seq(Nat) /\ Range(masked) = LowBits(direct_target)
  <2>1. 2^direct_target \in Nat \ {0}
    <3>1. direct_target \in 0 .. 38
      BY <1>3
    <3> QED
      BY <3>1, Powers, Zenon
  <2>2. \A i \in DOMAIN hashes : hashes[i] % Truncating \in Nat
    <3>1. \A i \in DOMAIN hashes : hashes[i] \in Nat
      BY <1>3
    <3>2. \A x \in Nat : x % 2^direct_target \in Nat
      BY <2>1, Division
    <3> QED
      BY <3>1, <3>2 DEF Truncating
  <2>3. masked \in Seq(Nat)
    BY <1>3, <2>2
  <2>4. Range(masked) = {hashes[i] % Truncating : i \in DOMAIN hashes}
    BY DEF Range
  <2> QED
    BY <1>2, <2>3, <2>4 DEF LowBits, Truncating
<1> HIDE DEF radix, masked
<1>5. <<>> \in Seq(Nat) /\ source' \in Buffer /\ Allocated' = Buffer
  BY <1>1, <1>2 DEF ReduceType, Allocated
<1>6. memory' \in [Allocated' -> Seq(Nat)] /\ hashes' = IF radix THEN masked ELSE hashes
  BY <1>1, <1>2, <1>3, <1>4, <1>5 DEF hashes, Buffer
<1>7. ReduceType'
  BY <1>1, <1>2, <1>5, <1>6 DEF ReduceType
<1>8. \A b : LowBits(b)' = LowBits(b)
  BY <1>1 DEF LowBits
<1>9. CASE radix
  <2>1. stage' = "radix" /\ hashes' = masked
    BY <1>1, <1>6, <1>9
  <2>2. passes \in Nat /\ passes' = passes /\ pass' * RadixBits = 0
    <3>1. passes \in Nat
      BY <1>3, PassesReach DEF passes
    <3>2. passes' = passes /\ pass' = 0
      BY <1>1, <1>2 DEF passes
    <3>3. 0 * RadixBits = 0
      BY <1>3
    <3> QED
      BY <3>1, <3>2, <3>3
  <2>3. SortedLow(masked, 0)
    BY <1>4, NoPassSorts
  <2>4. LowBits(direct_target)' = LowBits(direct_target)
    BY <1>1 DEF LowBits
  <2> QED
    BY <1>1, <1>2, <1>4, <1>7, <2>1, <2>2, <2>3, <2>4 DEF ReduceInv
<1>10. CASE ~radix
  <2>1. stage' = "rounds" /\ hashes' = hashes
    BY <1>1, <1>6, <1>10
  <2>2. LowBits(bpp)' = LowBits(bpp)
    BY <1>1 DEF LowBits
  <2> QED
    BY <1>2, <1>3, <1>7, <2>1, <2>2 DEF ReduceInv
<1> QED
  BY <1>9, <1>10

LEMMA RepetitionsKept ==
    ASSUME ReduceInv, Repetitions
    PROVE  ReduceInv'
<1>1. /\ stage = "radix" /\ pass = passes /\ stage' = "free" /\ bpp' = direct_target
      /\ memory' = [memory EXCEPT ![source] = Unique(memory[source])]
      /\ set' = set /\ direct_target' = direct_target /\ source' = source /\ pass' = pass
  BY DEF Repetitions
<1>2. /\ ReduceType /\ Range(hashes) = LowBits(direct_target)
      /\ SortedLow(hashes, pass * RadixBits)
  BY <1>1 DEF ReduceInv
<1>3. /\ direct_target \in 1 .. 32 /\ RadixBits \in 1 .. 8 /\ hashes \in Seq(Nat)
      /\ DOMAIN hashes = 1 .. Len(hashes) /\ set.bpp \in 1 .. 32
      /\ set.hashes \in Seq(Nat) /\ DOMAIN set.hashes = 1 .. Len(set.hashes)
  BY <1>2, SetFacts
<1>4. \A i \in 1 .. Len(hashes) : hashes[i] < 2^direct_target
  <2>3. \A y \in LowBits(direct_target) : y < 2^direct_target
    BY <1>2, <1>3, LowBitsBelow
  <2>4. \A i \in 1 .. Len(hashes) : hashes[i] \in LowBits(direct_target)
    BY <1>2, <1>3 DEF Range
  <2> QED
    BY <2>3, <2>4
<1>5. SortedKeys(hashes)
  BY <1>1, <1>2, <1>3, <1>4, AllPassesSort DEF passes
<1>6. /\ Unique(hashes) \in Seq(Nat) /\ Ascending(Unique(hashes))
      /\ Range(Unique(hashes)) = LowBits(direct_target)
  BY <1>2, <1>3, <1>5, UniqueCorrect
<1>7. memory \in [Buffer -> Seq(Nat)] /\ source \in Buffer /\ Allocated' = Buffer
  BY <1>1, <1>2 DEF ReduceType, Allocated
<1>8. memory' \in [Allocated' -> Seq(Nat)] /\ hashes' = Unique(hashes)
  BY <1>1, <1>6, <1>7 DEF hashes
<1>9. LowBits(bpp)' = LowBits(direct_target)
  BY <1>1 DEF LowBits
<1>10. ReduceType'
  <2>1. bpp' \in direct_target .. set.bpp
    BY <1>1, <1>2, <1>3 DEF ReduceType
  <2> QED
    BY <1>1, <1>2, <1>7, <1>8, <2>1 DEF ReduceType
<1> QED
  BY <1>1, <1>6, <1>8, <1>9, <1>10 DEF ReduceInv

LEMMA FreeKept ==
    ASSUME ReduceInv, Free
    PROVE  ReduceInv'
<1>1. /\ stage = "free" /\ stage' = "done" /\ memory' = [b \in {source} |-> hashes]
      /\ set' = set /\ direct_target' = direct_target /\ source' = source /\ bpp' = bpp
      /\ pass' = pass
  BY DEF Free
<1>2. ReduceType /\ hashes \in Seq(Nat)
  BY SetFacts DEF ReduceInv
<1>3. memory' \in [Allocated' -> Seq(Nat)] /\ hashes' = hashes
  BY <1>1, <1>2 DEF Allocated, hashes
<1>4. ReduceType'
  BY <1>1, <1>2, <1>3 DEF ReduceType
<1>5. LowBits(bpp)' = LowBits(bpp)
  BY <1>1 DEF LowBits
<1> QED
  BY <1>1, <1>3, <1>4, <1>5 DEF ReduceInv

LEMMA ReduceKept == ReduceInv /\ [ReduceNext]_reduce_vars => ReduceInv'
<1> SUFFICES ASSUME ReduceInv, [ReduceNext]_reduce_vars PROVE ReduceInv'
  OBVIOUS
<1>1. CASE Keep
  <2>1. /\ stage = "enter" /\ bpp = direct_target /\ stage' = "done" /\ set' = set
        /\ direct_target' = direct_target /\ memory' = memory /\ source' = source
        /\ bpp' = bpp /\ pass' = pass
    BY <1>1 DEF Keep
  <2>2. ReduceType /\ hashes = set.hashes /\ bpp = set.bpp
    BY <2>1 DEF ReduceInv
  <2>3. Ascending(set.hashes) /\ LowBits(set.bpp) = Range(set.hashes)
    BY <2>2, SetFacts
  <2>4. hashes' = hashes /\ Allocated' = Allocated /\ LowBits(bpp)' = LowBits(bpp)
    BY <2>1 DEF hashes, Allocated, LowBits
  <2>5. ReduceType'
    BY <2>1, <2>2, <2>4 DEF ReduceType
  <2> QED
    BY <2>1, <2>2, <2>3, <2>4, <2>5 DEF ReduceInv
<1>2. CASE RoundsOver
  <2>1. /\ stage = "rounds" /\ bpp = direct_target /\ stage' = "free" /\ set' = set
        /\ direct_target' = direct_target /\ memory' = memory /\ source' = source
        /\ bpp' = bpp /\ pass' = pass
    BY <1>2 DEF RoundsOver
  <2>2. hashes' = hashes /\ Allocated' = Allocated /\ LowBits(bpp)' = LowBits(bpp)
    BY <2>1 DEF hashes, Allocated, LowBits
  <2>3. ReduceType'
    BY <2>1, <2>2 DEF ReduceType, ReduceInv
  <2> QED
    BY <2>1, <2>2, <2>3 DEF ReduceInv
<1>3. CASE UNCHANGED reduce_vars
  <2>1. /\ stage' = stage /\ set' = set /\ direct_target' = direct_target /\ memory' = memory
        /\ source' = source /\ bpp' = bpp /\ pass' = pass
    BY <1>3 DEF reduce_vars
  <2>2. /\ hashes' = hashes /\ Allocated' = Allocated /\ LowBits(bpp)' = LowBits(bpp)
        /\ passes' = passes /\ LowBits(direct_target)' = LowBits(direct_target)
    BY <2>1 DEF hashes, Allocated, LowBits, passes
  <2>3. ReduceType'
    BY <2>1, <2>2 DEF ReduceType, ReduceInv
  <2> QED
    BY <2>1, <2>2, <2>3 DEF ReduceInv
<1>4. CASE ReduceReturned
  BY <1>3, <1>4 DEF ReduceReturned
<1> QED
  BY <1>1, <1>2, <1>3, <1>4, ChooseKept, PassKept, RepetitionsKept, RoundKept, FreeKept
  DEF ReduceNext

(* Whichever way downsample_to takes, it ends with the ascending array of  *)
(* the low bits in the one buffer that is left (hash_set.c:665-740).       *)
THEOREM DirectReductionCorrect == ReduceSpec => []DirectReducesSet
<1>1. ReduceInv => DirectReducesSet
  BY DEF ReduceInv, ReduceType, Allocated, DirectReducesSet, LowBits, Truncating
<1> QED
  BY <1>1, ReduceStart, ReduceKept, PTL DEF ReduceSpec
=============================================================================
