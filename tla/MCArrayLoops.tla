----------------------------- MODULE MCArrayLoops -----------------------------
(***************************************************************************)
(* The loops over arrays: sorted_subset and downsample_set of set9.c, and  *)
(* downsample_to of hash_set.c.  They share nothing: a behaviour runs one  *)
(* of them, while the others are idle.                                     *)
(***************************************************************************)
EXTENDS SortedSubset, Downsample, DirectReduce, SequencesExt

CONSTANTS MaxCompared,    \* sorted_subset: the largest value,
          MaxSmall,       \* and the most elements of the small array
          MaxValue        \* downsample_set: the largest value

(* The ascending arrays of values up to max, the empty one left out.       *)
AscendingUpTo(max) ==
    FoldLeft(LAMBDA arrays, v : arrays \cup {Append(arr, v - 1) : arr \in arrays},
             {<<>>}, [v \in 1 .. max + 1 |-> v])
    \ {<<>>}

MCCompared == AscendingUpTo(MaxCompared)
MCArrays == AscendingUpTo(MaxValue)

(* Sets of values that differ in some bytes and agree in others.           *)
MCSets ==
    {[hashes |-> SetToSortSeq(values, <), bpp |-> 26] :
        values \in SUBSET {3, 259, 1027, 66563, 66819, 524291, 16777219} \ {{}}}

(* As after a call: there is none to wait for.                             *)
SubsetIdle ==
    /\ smallArr = <<>> /\ largeArr = <<>> /\ jump = 0
    /\ small = 0 /\ large = 0 /\ value = 0
    /\ position = 0 /\ step = 0
    /\ pc = "done" /\ found = TRUE

DownsampleIdle ==
    /\ hash_pt = <<>> /\ target_bpp = 1
    /\ l = 0 /\ u = 0 /\ v1 = 0 /\ v2 = 0
    /\ dest = <<>>
    /\ phase = "idle"

DirectIdle ==
    /\ set = <<>> /\ direct_target = 0
    /\ memory = <<>> /\ source = "original"
    /\ bpp = 0 /\ pass = 0
    /\ stage = "idle"

MCInit ==
    \/ SubsetInit /\ Len(smallArr) <= MaxSmall /\ DownsampleIdle /\ DirectIdle
    \/ Init /\ SubsetIdle /\ DirectIdle
    \/ ReduceInit /\ SubsetIdle /\ DownsampleIdle

MCNext == \/ SubsetNext /\ UNCHANGED <<vars, reduce_vars>>
          \/ Next /\ UNCHANGED <<subset_vars, reduce_vars>>
          \/ ReduceNext /\ UNCHANGED <<subset_vars, vars>>

MCSpec == /\ MCInit /\ [][MCNext]_<<subset_vars, vars, reduce_vars>>
          /\ WF_subset_vars(SubsetStep)

-----------------------------------------------------------------------------
(* The operator that stands for downsample_set in the other models reduces *)
(* every array as the loops do.                                            *)
ASSUME OperatorAssumption ==
    \A t \in Target :
        \A arr \in {arr \in MCArrays : arr[Len(arr)] < 2^(t + 1)} :
            LET reduced == downsample_set(arr, t)
            IN  /\ Ascending(reduced)
                /\ Range(reduced) = {arr[i] % 2^t : i \in 1 .. Len(arr)}
=============================================================================
