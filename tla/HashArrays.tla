------------------------------ MODULE HashArrays -------------------------------
(***************************************************************************)
(* The form in which sets of hash values are kept everywhere: arrays that  *)
(* ascend, and so hold no value twice.                                     *)
(***************************************************************************)
EXTENDS Integers, Sequences

Ascending(arr) == \A i, j \in 1 .. Len(arr) : i < j => arr[i] < arr[j]
=============================================================================
