----------------------------- MODULE DirectArrays ------------------------------
(***************************************************************************)
(* The two in-place loops over arrays that hash_set.c's builder and its    *)
(* reduction have in common: a pass of the radix sort, and the removal of  *)
(* repetitions from a sorted array.                                        *)
(***************************************************************************)
EXTENDS ArrayAlgorithms, HashArrays, FiniteSets

(* What the digits of one pass are counted into, and where element i goes: *)
(* after every smaller digit and after the same digit earlier in the array.*)
Place(digit, i) ==
    Cardinality({j \in DOMAIN digit : digit[j] < digit[i]})
        + Cardinality({j \in 1 .. i : digit[j] = digit[i]})

Distributed(arr, digit) ==
    [p \in DOMAIN arr |-> arr[CHOOSE i \in DOMAIN arr : Place(digit, i) = p]]

(* One value of every run of equal ones, in the order of the array.        *)
Unique(arr) ==
    LET last == {i \in DOMAIN arr : i < Len(arr) => arr[i] # arr[i + 1]}
        Nth(k) == CHOOSE i \in last : Cardinality({j \in last : j <= i}) = k
    IN  [k \in 1 .. Cardinality(last) |-> arr[Nth(k)]]
=============================================================================
