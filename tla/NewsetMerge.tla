------------------------------ MODULE NewsetMerge ------------------------------
(***************************************************************************)
(* The comparison at the end of newset.c's rpmsetcmp, one loop iteration   *)
(* to a step.  Both arrays are walked at once; ge says that no element of  *)
(* the second was missing in the first so far, le the converse, and the    *)
(* walk ends when an array ends or both are gone.  Elements of the first   *)
(* array below the head of the second are skipped by gallop_lower_bound:   *)
(* a bound is doubled until it is not below the value, then bisected.      *)
(*                                                                         *)
(* Pointers are offsets: at1 and at2 into the arrays, lo .. right from at1.*)
(***************************************************************************)
EXTENDS HashArrays, Functions

CONSTANT Arrays    \* the arrays that decoding and reducing deliver

ASSUME ArraysAssumption ==
    \A arr \in Arrays : arr \in Seq(Nat) /\ Len(arr) >= 1 /\ Ascending(arr)

VARIABLES arr1, arr2,                \* the arrays that are compared
          at1, at2,                  \* hash_arr1 and hash_arr2, walking
          ge, le,
          lo, hi, left, right,       \* locals of gallop_lower_bound
          pc,
          result                     \* what rpmsetcmp returns

gallop == <<lo, hi, left, right>>
merge == <<arr1, arr2, at1, at2, ge, le, gallop>>
vars == <<merge, pc, result>>

head1 == arr1[at1 + 1]
head2 == arr2[at2 + 1]

(* The array gallop_lower_bound is given: arr1 from hash_arr1 on.          *)
n == Len(arr1) - at1
First(i) == arr1[at1 + i + 1]

-----------------------------------------------------------------------------
(* Nothing is walked or searched yet.                                      *)
WalkStart ==
    /\ at1 = 0
    /\ at2 = 0
    /\ ge = TRUE
    /\ le = TRUE
    /\ lo = 0
    /\ hi = 0
    /\ left = 0
    /\ right = 0

InBoth == at1 < Len(arr1) /\ at2 < Len(arr2) /\ (ge \/ le)

OnlyInSecond ==
    /\ pc = "merge"
    /\ InBoth
    /\ head2 < head1
    /\ ge' = FALSE
    /\ at2' = at2 + 1
    /\ UNCHANGED <<arr1, arr2, at1, le, gallop, pc, result>>

Common ==
    /\ pc = "merge"
    /\ InBoth
    /\ head1 = head2
    /\ at1' = at1 + 1
    /\ at2' = at2 + 1
    /\ UNCHANGED <<arr1, arr2, ge, le, gallop, pc, result>>

(* The first array has an element of its own: gallop_lower_bound is called *)
(* (and does not return at once, because that element is below the value). *)
OnlyInFirst ==
    /\ pc = "merge"
    /\ InBoth
    /\ head1 < head2
    /\ le' = FALSE
    /\ lo' = 0
    /\ hi' = 1
    /\ pc' = "gallop"
    /\ UNCHANGED <<arr1, arr2, at1, at2, ge, left, right, result>>

Below == hi < n /\ First(hi) < head2

LateLow == IF hi > n \div 2 THEN n ELSE 2 * hi     \* mutant: lo follows the doubled hi
LowBound == hi

Double ==
    /\ pc = "gallop"
    /\ Below
    /\ lo' = LowBound
    /\ hi' = IF hi > n \div 2 THEN n ELSE 2 * hi
    /\ UNCHANGED <<arr1, arr2, at1, at2, ge, le, left, right, pc, result>>

Bracket ==
    /\ pc = "gallop"
    /\ ~Below
    /\ left' = lo + 1
    /\ right' = IF hi < n THEN hi + 1 ELSE n
    /\ pc' = "bisect"
    /\ UNCHANGED <<arr1, arr2, at1, at2, ge, le, lo, hi, result>>

StuckMid(mid) == mid           \* mutant: the lower half keeps its middle
AfterMid(mid) == mid + 1

Bisect ==
    LET mid == left + ((right - left) \div 2)
    IN  /\ pc = "bisect"
        /\ left < right
        /\ IF First(mid) < head2
           THEN left' = AfterMid(mid) /\ UNCHANGED right
           ELSE right' = mid /\ UNCHANGED left
        /\ UNCHANGED <<arr1, arr2, at1, at2, ge, le, lo, hi, pc, result>>

(* What the bound found means for the two flags.  Past the end, the head   *)
(* of the second array stays: it is what ends the walk with ge false.      *)
GeForgotten == ge              \* mutant: the head of the second is dropped silently
GeAfterMiss == FALSE

Landed ==
    /\ pc = "bisect"
    /\ left >= right
    /\ LET k == at1 + left
       IN  IF k = Len(arr1) THEN at1' = k /\ UNCHANGED <<at2, ge>>
           ELSE IF arr1[k + 1] = head2 THEN at1' = k + 1 /\ at2' = at2 + 1 /\ UNCHANGED ge
           ELSE at1' = k /\ at2' = at2 + 1 /\ ge' = GeAfterMiss
    /\ pc' = "merge"
    /\ UNCHANGED <<arr1, arr2, le, gallop, result>>

(* An array that has not ended has an element the other lacks.             *)
Conclude ==
    LET leAll == le /\ at1 = Len(arr1)
        geAll == ge /\ at2 = Len(arr2)
    IN  /\ pc = "merge"
        /\ ~InBoth
        /\ result' = IF geAll /\ leAll THEN 0 ELSE IF geAll THEN 1 ELSE IF leAll THEN -1 ELSE -2
        /\ pc' = "done"
        /\ UNCHANGED merge

MergeStep == OnlyInSecond \/ Common \/ OnlyInFirst \/ Double \/ Bracket \/ Bisect
             \/ Landed \/ Conclude

-----------------------------------------------------------------------------
(* The comparison alone, of any two arrays that decoding delivers.         *)
Init ==
    /\ arr1 \in Arrays
    /\ arr2 \in Arrays
    /\ WalkStart
    /\ pc = "merge"
    /\ result = 0

Returned == pc = "done" /\ UNCHANGED vars

Spec == Init /\ [][MergeStep \/ Returned]_vars

(* Sequential code that is called runs.                                    *)
FairSpec == Spec /\ WF_vars(MergeStep)

-----------------------------------------------------------------------------
(* The bound that is looked for lies in the window the bisection is left   *)
(* with, however the doubling ended: at a large enough element, at a bound *)
(* past half of the array, or at its end (newset.c:638-650).               *)
WindowHolds ==
    pc = "bisect" =>
        /\ 1 <= left /\ left <= right /\ right <= n
        /\ First(left - 1) < head2
        /\ right < n => First(right) >= head2

(* Leaving the walk early loses nothing: at any exit the two flags and the *)
(* two ends decide both inclusions (newset.c:719-760).                     *)
AnswersVerdict ==
    pc = "done" =>
        /\ result \in -2 .. 1
        /\ (result \in {0, 1}) = (Range(arr2) \subseteq Range(arr1))
        /\ (result \in {0, -1}) = (Range(arr1) \subseteq Range(arr2))

(* Both loops of the search end, and with them the walk.                   *)
Terminates == <>(pc = "done")
=============================================================================
