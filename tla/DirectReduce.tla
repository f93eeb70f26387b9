------------------------------ MODULE DirectReduce ------------------------------
(***************************************************************************)
(* downsample_to of hash_set.c: a decoded array is reduced to fewer bits   *)
(* either bit by bit, each a merge of its two halves into the other of two *)
(* buffers, or, when that takes more rounds than a radix sort has passes,  *)
(* by masking it and sorting it anew.  Either way the buffers change roles *)
(* with every round, the one left over is freed and the set keeps the      *)
(* other.                                                                  *)
(***************************************************************************)
EXTENDS DirectArrays, Functions

CONSTANTS DecodedSets,   \* what is reduced: [hashes, bpp]
          DirectTarget,  \* the precisions asked for
          RadixBits      \* the bits of one pass: 8

(* What the decoder delivers, in order and of as many bits as its header   *)
(* says (hash_set.c:369-401), and precisions the callers ask for.          *)
ASSUME ReduceAssumption ==
    /\ \A arg \in DecodedSets :
           /\ arg.hashes \in Seq(Nat)
           /\ Ascending(arg.hashes)
           /\ arg.bpp \in 1 .. 32
           /\ \A i \in 1 .. Len(arg.hashes) : arg.hashes[i] < 2^arg.bpp
    /\ DirectTarget \subseteq 1 .. 32
    /\ RadixBits \in 1 .. 8

VARIABLES set,           \* the argument, [hashes, bpp]
          direct_target,
          memory,        \* the contents of the buffers that are allocated
          source,        \* the buffer that holds the array
          bpp,           \* set->bpp
          pass,
          stage

reduce_vars == <<set, direct_target, memory, source, bpp, pass, stage>>

Buffer == {"original", "scratch"}

destination == IF source = "original" THEN "scratch" ELSE "original"
hashes == memory[source]

Truncating == 2^direct_target

-----------------------------------------------------------------------------
ReduceInit ==
    /\ set \in DecodedSets
    /\ direct_target \in DirectTarget
    /\ direct_target <= set.bpp
    /\ memory = [b \in {"original"} |-> set.hashes]
    /\ source = "original"
    /\ bpp = set.bpp
    /\ pass = 0
    /\ stage = "enter"

PassesShort == direct_target \div RadixBits       \* mutant: no pass for the last bits
passes == (direct_target + RadixBits - 1) \div RadixBits

Keep ==
    /\ stage = "enter"
    /\ bpp = direct_target
    /\ stage' = "done"
    /\ UNCHANGED <<set, direct_target, memory, source, bpp, pass>>

(* The second buffer is allocated; the radix sort first masks the array.   *)
Choose ==
    /\ stage = "enter"
    /\ bpp # direct_target
    /\ LET radix == bpp - direct_target > passes
       IN  /\ stage' = IF radix THEN "radix" ELSE "rounds"
           /\ memory' = [b \in Buffer |->
                 IF b = "scratch" THEN <<>>
                 ELSE IF radix THEN [i \in DOMAIN hashes |-> hashes[i] % Truncating]
                 ELSE hashes]
    /\ UNCHANGED <<set, direct_target, source, bpp, pass>>

RadixPass ==
    LET digit == [i \in DOMAIN hashes |-> (hashes[i] \div 2^(pass * RadixBits)) % 2^RadixBits]
    IN  /\ stage = "radix"
        /\ pass < passes
        /\ memory' = [memory EXCEPT ![destination] = Distributed(hashes, digit)]
        /\ source' = destination
        /\ pass' = pass + 1
        /\ UNCHANGED <<set, direct_target, bpp, stage>>

Repetitions ==
    /\ stage = "radix"
    /\ pass = passes
    /\ memory' = [memory EXCEPT ![source] = Unique(@)]
    /\ bpp' = direct_target
    /\ stage' = "free"
    /\ UNCHANGED <<set, direct_target, source, pass>>

(* The merge of the two halves, as in set9.c.                              *)
OneBitLess == downsample_set(hashes, bpp - 1)

Round ==
    /\ stage = "rounds"
    /\ bpp > direct_target
    /\ bpp' = bpp - 1
    /\ memory' = [memory EXCEPT ![destination] = OneBitLess]
    /\ source' = destination
    /\ UNCHANGED <<set, direct_target, pass, stage>>

RoundsOver ==
    /\ stage = "rounds"
    /\ bpp = direct_target
    /\ stage' = "free"
    /\ UNCHANGED <<set, direct_target, memory, source, bpp, pass>>

(* The buffer that does not hold the result is freed.                      *)
Free ==
    /\ stage = "free"
    /\ memory' = [b \in {source} |-> hashes]
    /\ stage' = "done"
    /\ UNCHANGED <<set, direct_target, source, bpp, pass>>

ReduceReturned == stage = "done" /\ UNCHANGED reduce_vars

ReduceNext == Keep \/ Choose \/ RadixPass \/ Repetitions \/ Round \/ RoundsOver \/ Free \/ ReduceReturned

ReduceSpec == ReduceInit /\ [][ReduceNext]_reduce_vars

-----------------------------------------------------------------------------
(* Whichever way was chosen, the set is the ascending array of its values' *)
(* low bits, in the one buffer that is left (hash_set.c:665-740).          *)
DirectReducesSet ==
    stage = "done" =>
        /\ DOMAIN memory = {source}
        /\ bpp = direct_target
        /\ Ascending(hashes)
        /\ Range(hashes) = {set.hashes[i] % Truncating : i \in DOMAIN set.hashes}
=============================================================================
