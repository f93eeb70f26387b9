--------------------------------- MODULE PyCmp ----------------------------------
(***************************************************************************)
(* rpmsetcmp of the Python prototype, set.py, on strings that decode; what *)
(* does not decode raises an exception there.                              *)
(***************************************************************************)
EXTENDS ArrayAlgorithms, HashArrays, Functions

CONSTANTS Str      \* strings: [bpp, values], values an ascending array, bpp in 2 .. 64

VARIABLES str1, str2,                    \* the arguments
          bpp1, bpp2,
          hash_values1, hash_values2,
          i, j, ge, le,                  \* the walk: positions read, what still holds
          pc, result

args == <<str1, str2>>
arrays == <<bpp1, bpp2, hash_values1, hash_values2>>
walk == <<i, j, ge, le>>
vars == <<args, arrays, walk, pc, result>>

Init ==
    /\ str1 \in Str /\ bpp1 = str1.bpp /\ hash_values1 = str1.values
    /\ str2 \in Str /\ bpp2 = str2.bpp /\ hash_values2 = str2.values
    /\ i = 0 /\ j = 0
    /\ ge = TRUE /\ le = TRUE
    /\ pc = "reduce"
    /\ result = 0

(* The precision is passed before it is decremented.                       *)
Reduce1 ==
    /\ pc = "reduce"
    /\ bpp1 > bpp2
    /\ hash_values1' = downsample_set(hash_values1, bpp1)
    /\ bpp1' = bpp1 - 1
    /\ UNCHANGED <<args, bpp2, hash_values2, walk, pc, result>>

Reduce2 ==
    /\ pc = "reduce"
    /\ bpp2 > bpp1
    /\ hash_values2' = downsample_set(hash_values2, bpp2)
    /\ bpp2' = bpp2 - 1
    /\ UNCHANGED <<args, bpp1, hash_values1, walk, pc, result>>

Reduced ==
    /\ pc = "reduce"
    /\ bpp1 = bpp2
    /\ pc' = "walk"
    /\ UNCHANGED <<args, arrays, walk, result>>

Step ==
    LET value1 == hash_values1[i + 1]
        value2 == hash_values2[j + 1]
    IN  /\ pc = "walk"
        /\ i < Len(hash_values1)
        /\ j < Len(hash_values2)
        /\ i' = IF value1 <= value2 THEN i + 1 ELSE i
        /\ j' = IF value2 <= value1 THEN j + 1 ELSE j
        /\ le' = (le /\ value1 >= value2)
        /\ ge' = (ge /\ value1 <= value2)
        /\ UNCHANGED <<args, arrays, pc, result>>

Conclude ==
    /\ pc = "walk"
    /\ i = Len(hash_values1) \/ j = Len(hash_values2)
    /\ le' = (le /\ i = Len(hash_values1))
    /\ ge' = (ge /\ j = Len(hash_values2))
    /\ result' = CASE ge' /\ le' -> 0
                   [] ge' /\ ~le' -> 1
                   [] le' /\ ~ge' -> -1
                   [] OTHER -> -2
    /\ pc' = "done"
    /\ UNCHANGED <<args, arrays, i, j>>

Returned == pc = "done" /\ UNCHANGED vars

Next == Reduce1 \/ Reduce2 \/ Reduced \/ Step \/ Conclude \/ Returned

Spec == Init /\ [][Next]_vars

-----------------------------------------------------------------------------
(* What is compared has been reduced to values of bpp bits, as the         *)
(* docstring of downsample_set says (set.py:197), called at 273-279.       *)
ReducedToBpp ==
    pc = "walk" =>
        \A value \in Range(hash_values1) \cup Range(hash_values2) : value < 2^bpp1
=============================================================================
