------------------------------- MODULE Downsample ------------------------------
(***************************************************************************)
(* downsample_set of set9.c, one loop iteration to a step: a sorted array  *)
(* of (target + 1)-bit values is split where the high bit sets in, and its *)
(* two halves, the upper one masked, are merged into another buffer.       *)
(***************************************************************************)
EXTENDS HashArrays, Functions

CONSTANTS Arrays,   \* the arrays that are reduced
          Target    \* the precisions they are reduced to

ASSUME ArraysAssumption == \A arr \in Arrays : arr \in Seq(Nat)
ASSUME TargetAssumption == Target \subseteq 1 .. 31

VARIABLES hash_pt, target_bpp,  \* the arguments
          l, u,                 \* bounds of the binary search
          v1, v2,               \* how far the two halves are read
          dest,                 \* what is written
          phase                 \* "search", "merge", "append" or "done"

args == <<hash_pt, target_bpp>>
vars == <<args, l, u, v1, v2, dest, phase>>

hash_cnt == Len(hash_pt)

-----------------------------------------------------------------------------
(* The caller passes a normalised array of values of one bit more.         *)
Init ==
    /\ hash_pt \in Arrays
    /\ target_bpp \in Target
    /\ Ascending(hash_pt)
    /\ \A i \in 1 .. hash_cnt : hash_pt[i] < 2^(target_bpp + 1)
    /\ l = 0
    /\ u = hash_cnt
    /\ v1 = 0
    /\ v2 = 0
    /\ dest = <<>>
    /\ phase = "search"

Low(value) == value <= 2^target_bpp - 1

Masked(value) == value % 2^target_bpp

PastProbe(i) == i + 1

(* One probe for the first element with the high bit set.                  *)
Search ==
    LET i == (l + u) \div 2
    IN  /\ phase = "search"
        /\ l < u
        /\ IF Low(hash_pt[i + 1])
           THEN l' = PastProbe(i) /\ UNCHANGED u
           ELSE u' = i /\ UNCHANGED l
        /\ UNCHANGED <<args, v1, v2, dest, phase>>

UpperHalf == u

(* The halves; they are merged when neither is empty.                      *)
Split ==
    /\ phase = "search"
    /\ l >= u
    /\ v1' = 0
    /\ v2' = UpperHalf
    /\ phase' = IF 0 < u /\ u < hash_cnt THEN "merge" ELSE "append"
    /\ UNCHANGED <<args, l, u, dest>>

v1_val == hash_pt[v1 + 1]
v2_val == Masked(hash_pt[v2 + 1])

(* The smaller of the two heads is written ...                             *)
TakeLow ==
    /\ phase = "merge"
    /\ v1_val < v2_val
    /\ dest' = Append(dest, v1_val)
    /\ v1' = v1 + 1
    /\ phase' = IF v1' = u THEN "append" ELSE "merge"
    /\ UNCHANGED <<args, l, u, v2>>

TakeHigh ==
    /\ phase = "merge"
    /\ v2_val < v1_val
    /\ dest' = Append(dest, v2_val)
    /\ v2' = v2 + 1
    /\ phase' = IF v2' = hash_cnt THEN "append" ELSE "merge"
    /\ UNCHANGED <<args, l, u, v1>>

(* ... and equal heads once.                                               *)
HighHeadKept == v2               \* mutant: the equal element stays
PastHighHead == v2 + 1

LowExhausted == v1' = u          \* mutant: the other end is not tested
HalfExhausted == v1' = u \/ v2' = hash_cnt

TakeBoth ==
    /\ phase = "merge"
    /\ v1_val = v2_val
    /\ dest' = Append(dest, v1_val)
    /\ v1' = v1 + 1
    /\ v2' = PastHighHead
    /\ phase' = IF HalfExhausted THEN "append" ELSE "merge"
    /\ UNCHANGED <<args, l, u>>

(* What is left of either half is appended.                                *)
AppendLow ==
    /\ phase = "append"
    /\ v1 < u
    /\ dest' = Append(dest, v1_val)
    /\ v1' = v1 + 1
    /\ UNCHANGED <<args, l, u, v2, phase>>

AppendHigh ==
    /\ phase = "append"
    /\ v1 >= u
    /\ v2 < hash_cnt
    /\ dest' = Append(dest, v2_val)
    /\ v2' = v2 + 1
    /\ UNCHANGED <<args, l, u, v1, phase>>

Finish ==
    /\ phase = "append"
    /\ v1 >= u
    /\ v2 >= hash_cnt
    /\ phase' = "done"
    /\ UNCHANGED <<args, l, u, v1, v2, dest>>

Step == \/ Search \/ Split
        \/ TakeLow \/ TakeHigh \/ TakeBoth
        \/ AppendLow \/ AppendHigh \/ Finish

(* The function has returned.                                              *)
Returned == phase = "done" /\ UNCHANGED vars

Next == Step \/ Returned

Spec == Init /\ [][Next]_vars

-----------------------------------------------------------------------------
(* Types, and the buffer: it has room for as many values as there were     *)
(* (set9.c:624), and the reduction never writes more.                      *)
TypeOK ==
    /\ hash_pt \in Arrays
    /\ target_bpp \in Target
    /\ l \in 0 .. hash_cnt
    /\ u \in 0 .. hash_cnt
    /\ v1 \in 0 .. hash_cnt
    /\ v2 \in 0 .. hash_cnt
    /\ dest \in Seq(Nat)
    /\ Len(dest) <= hash_cnt
    /\ phase \in {"search", "merge", "append", "done"}

(* The merge reads a head of each half before it compares, and an end is   *)
(* tested only for the half that moved (set9.c:710-729): neither pointer   *)
(* is at the end of its half when it is read.                              *)
HeadsInside == phase = "merge" => v1 < u /\ v2 < hash_cnt

(* The binary search finds the boundary of the halves, wherever it is: all *)
(* in one half included.                                                   *)
SplitsAtHighBit ==
    phase # "search" =>
        \A i \in 1 .. hash_cnt : i <= u <=> hash_pt[i] < 2^target_bpp

(* What is written is the set of the truncated values, as a normalised     *)
(* array again: the next round and the comparison rely on both.            *)
ReducesSet ==
    phase = "done" =>
        /\ Ascending(dest)
        /\ Range(dest) = {hash_pt[i] % 2^target_bpp : i \in 1 .. hash_cnt}
=============================================================================
