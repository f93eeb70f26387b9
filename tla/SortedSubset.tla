----------------------------- MODULE SortedSubset -----------------------------
(***************************************************************************)
(* sorted_subset of set9.c with its stepping search step_lower_bound, one  *)
(* loop iteration to a step.  It decides whether every element of a small  *)
(* sorted array occurs in a larger one: by a plain merge when the arrays   *)
(* are of similar size, and by jumps of the mean distance, halved until    *)
(* they vanish, when the large one is at least four times as long.         *)
(*                                                                         *)
(* The pointers of the code are offsets here: small and large are where    *)
(* the walk stands in each array, first + position where the search does.  *)
(***************************************************************************)
EXTENDS HashArrays, Functions

CONSTANT Compared    \* the arrays that are compared

(* What decoding and downsampling deliver.                                 *)
ASSUME ComparedAssumption ==
    \A arr \in Compared : arr \in Seq(Nat) /\ Len(arr) >= 1 /\ Ascending(arr)

VARIABLES smallArr, largeArr,  \* the arguments
          small, large,        \* the two walking pointers
          value,               \* the element of smallArr that is looked for
          jump,                \* the mean distance, large_count / small_count
          position, step,      \* locals of step_lower_bound
          pc,
          found                \* what is returned

subset_args == <<smallArr, largeArr, jump>>
subset_vars == <<subset_args, small, large, value, position, step, pc, found>>

small_count == Len(smallArr)
large_count == Len(largeArr)

(* The array that step_lower_bound is given: largeArr from `large` on.     *)
count == large_count - large
first(i) == largeArr[large + i + 1]

-----------------------------------------------------------------------------
SubsetInit ==
    /\ smallArr \in Compared
    /\ largeArr \in Compared
    /\ Len(smallArr) < Len(largeArr)
    /\ jump = Len(largeArr) \div Len(smallArr)
    /\ small = 0
    /\ large = 0
    /\ value = 0
    /\ position = 0
    /\ step = 0
    /\ pc = "next"
    /\ found = FALSE

Return(answer) ==
    /\ found' = answer
    /\ pc' = "done"
    /\ UNCHANGED <<subset_args, small, large, value, position, step>>

(* Both loops take the next element of the small array ...                 *)
NextValue ==
    /\ pc = "next"
    /\ small < small_count
    /\ value' = smallArr[small + 1]
    /\ small' = small + 1
    /\ pc' = IF jump < 4 THEN "scan" ELSE "search"
    /\ UNCHANGED <<subset_args, large, position, step, found>>

(* ... until there is none: everything was found.                          *)
AllFound ==
    /\ pc = "next"
    /\ small = small_count
    /\ Return(TRUE)

(* The merge skips what is below the value.                                *)
Scan ==
    /\ pc = "scan"
    /\ IF large < large_count /\ largeArr[large + 1] < value
       THEN large' = large + 1 /\ UNCHANGED pc
       ELSE pc' = "check" /\ UNCHANGED large
    /\ UNCHANGED <<subset_args, small, value, position, step, found>>

(* Nothing is left, or nothing is to be skipped.                           *)
AlreadyThereUnlessEmpty == count # 0 /\ first(0) >= value   \* mutant: no test for empty
AlreadyThere == count = 0 \/ first(0) >= value

(* step_lower_bound is entered: nothing to do, or the search starts with a *)
(* step of the mean distance.                                              *)
EnterSearch ==
    /\ pc = "search"
    /\ IF AlreadyThere
       THEN pc' = "check" /\ UNCHANGED <<position, step>>
       ELSE /\ position' = 0
            /\ step' = IF jump = 0 THEN 1 ELSE jump
            /\ pc' = "refine"
    /\ UNCHANGED <<subset_args, small, large, value, found>>

HalvedUp == (step + 1) \div 2    \* mutant: rounded up
Halved == step \div 2

(* A step that would leave the array, or reach an element not below the    *)
(* value, is halved; any other is taken.                                   *)
Refine ==
    /\ pc = "refine"
    /\ step # 0
    /\ IF step > count - position - 1
       THEN step' = Halved /\ UNCHANGED position
       ELSE IF first(position + step) < value
            THEN position' = position + step /\ UNCHANGED step
            ELSE step' = Halved /\ UNCHANGED position
    /\ UNCHANGED <<subset_args, small, large, value, pc, found>>

NotBelowFar == large + position + 2      \* mutant: one element is skipped
NotBelow == large + position + 1

(* The step has vanished: the bound is the element after position.         *)
LeaveSearch ==
    /\ pc = "refine"
    /\ step = 0
    /\ large' = NotBelow
    /\ position' = 0
    /\ pc' = "check"
    /\ UNCHANGED <<subset_args, small, value, step, found>>

Present == large < large_count /\ largeArr[large + 1] = value

NotFound ==
    /\ pc = "check"
    /\ ~Present
    /\ Return(FALSE)

FoundOne ==
    /\ pc = "check"
    /\ Present
    /\ large' = large + 1
    /\ pc' = "next"
    /\ UNCHANGED <<subset_args, small, value, position, step, found>>

SubsetStep == \/ NextValue \/ AllFound \/ Scan \/ EnterSearch \/ Refine \/ LeaveSearch
        \/ NotFound \/ FoundOne

(* The function has returned.                                              *)
SubsetReturned == pc = "done" /\ UNCHANGED subset_vars

SubsetNext == SubsetStep \/ SubsetReturned

SubsetSpec == SubsetInit /\ [][SubsetNext]_subset_vars

(* Sequential code that is called runs.                                    *)
FairSubsetSpec == SubsetSpec /\ WF_subset_vars(SubsetStep)

-----------------------------------------------------------------------------
SubsetTypeOK ==
    /\ smallArr \in Compared
    /\ largeArr \in Compared
    /\ Len(smallArr) < Len(largeArr)
    /\ jump \in Nat
    /\ small \in 0 .. small_count
    /\ large \in 0 .. large_count
    /\ value \in Nat
    /\ position \in Nat
    /\ step \in Nat
    /\ pc \in {"next", "scan", "search", "refine", "check", "done"}
    /\ found \in BOOLEAN

(* count - position - 1 is computed on size_t (set9.c:757): it must never  *)
(* be computed with position past the last element, where it would wrap    *)
(* round and let the next access leave the array.                          *)
NoWrap == pc = "refine" => position <= count - 1

(* The search stops at the first element that is not below the value,      *)
(* however the steps were taken and halved: where the merge stops too.     *)
StopsAtLowerBound ==
    pc = "check" => /\ \A k \in 1 .. large : largeArr[k] < value
                    /\ large < large_count => largeArr[large + 1] >= value

(* sorted_subset answers whether the small set is included in the large.   *)
AnswersInclusion ==
    pc = "done" => found = (Range(smallArr) \subseteq Range(largeArr))

(* Both loops end: the search loop has no bound of its own, it ends        *)
(* because a step that is not taken is halved.                             *)
Terminates == <>(pc = "done")
=============================================================================
