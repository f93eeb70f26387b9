---------------------------- MODULE MCNewsetMerge -----------------------------
(* Every pair of ascending arrays over a small range of values.            *)
EXTENDS NewsetMerge

CONSTANTS MaxValue,    \* the largest value
          MaxSecond    \* the most elements of the second array

(* The ascending arrays of values below n.                                 *)
AscendingBelow ==
    LET below[m \in 0 .. MaxValue + 1] ==
            IF m = 0 THEN {<<>>}
            ELSE LET fewer == below[m - 1]
                 IN  fewer \cup {Append(arr, m - 1) : arr \in fewer}
    IN  below[MaxValue + 1]

MCArrays == AscendingBelow \ {<<>>}

MCInit == Init /\ Len(arr2) <= MaxSecond
MCSpec == MCInit /\ [][MergeStep \/ Returned]_vars /\ WF_vars(MergeStep)
=============================================================================
