------------------------------ MODULE RpmSetCmp -------------------------------
(***************************************************************************)
(* rpmsetcmp of set9.c over its two decoded-set caches: the comparison     *)
(* validates both headers, fetches the array of the first operand, keeps   *)
(* the pointer while it fetches the second, and compares the two arrays    *)
(* where they lie in cache memory.                                         *)
(***************************************************************************)
EXTENDS DecodedCache, HashArrays

CONSTANT Arg   \* arguments: [prefix |-> "set:" is there, body |-> a string]

ASSUME ArgAssumption == \A arg \in Arg : arg.body \in Str
ASSUME CacheIdAssumption == {0, 1} \subseteq CacheId

(* The strings that are compared were written by set_fini, which sorts its *)
(* values, truncates them to bpp bits and keeps no value twice             *)
(* (set9.c:340-366); decode_set restores them.                             *)
ASSUME WrittenAssumption ==
    \A arg \in Arg : set_meta_init(arg.body) =>
        LET values == arg.body.values
        IN  /\ Ascending(values)
            /\ \A i \in 1 .. Len(values) : values[i] < 2^arg.body.bpp

VARIABLES pc,         \* where the activation of rpmsetcmp stands
          args,       \* its arguments, <<>> before the first call
          hash_arr1,  \* the cached arrays it holds ...
          hash_arr2,
          cnt1,       \* ... and their counts
          cnt2,
          result      \* what it returned last

mine == <<pc, args, hash_arr1, hash_arr2, cnt1, cnt2, result>>
vars == <<mine, cvars>>

str1 == args[1].body
str2 == args[2].body

target_bpp == IF str1.bpp < str2.bpp THEN str1.bpp ELSE str2.bpp

-----------------------------------------------------------------------------
CmpInit ==
    /\ Init
    /\ pc = "idle"
    /\ args = <<>>
    /\ hash_arr1 = NULL
    /\ hash_arr2 = NULL
    /\ cnt1 = 0
    /\ cnt2 = 0
    /\ result = 0

(* A call.  The bodies are what is left once "set:" is skipped.            *)
Call(arg1, arg2) ==
    /\ pc = "idle"
    /\ pc' = "headers"
    /\ args' = <<arg1, arg2>>
    /\ UNCHANGED <<hash_arr1, hash_arr2, cnt1, cnt2, result, cvars>>

Finish(value) ==
    /\ result' = value
    /\ pc' = "idle"
    /\ hash_arr1' = NULL
    /\ hash_arr2' = NULL
    /\ cnt1' = 0
    /\ cnt2' = 0
    /\ UNCHANGED args

RejectHeader ==
    /\ pc = "headers"
    /\ ~(set_meta_init(str1) /\ set_meta_init(str2))
    /\ Finish(IF ~set_meta_init(str1) THEN -3 ELSE -4)
    /\ UNCHANGED cvars

Decode1 ==
    /\ pc = "headers"
    /\ set_meta_init(str1)
    /\ set_meta_init(str2)
    /\ pc' = "decode1"
    /\ cache_decode_set(str1, target_bpp, 0)
    /\ UNCHANGED <<args, hash_arr1, hash_arr2, cnt1, cnt2, result>>

(* The fetch that was started is over, and has an array.                   *)
Fetched == phase = "idle" /\ ret.cnt >= 0

RejectFirst ==
    /\ pc = "decode1"
    /\ phase = "idle"
    /\ ret.cnt < 0
    /\ Finish(-3)
    /\ UNCHANGED cvars

(* Equal strings are equal sets, once the first has proved decodable.      *)
SameString ==
    /\ pc = "decode1"
    /\ Fetched
    /\ str1 = str2
    /\ Finish(0)
    /\ UNCHANGED cvars

SharedCache == 0          \* mutant: both operands use one cache
SecondCache == 1

Decode2 ==
    /\ pc = "decode1"
    /\ Fetched
    /\ str1 # str2
    /\ hash_arr1' = ret.hash_pt
    /\ cnt1' = ret.cnt
    /\ pc' = "decode2"
    /\ cache_decode_set(str2, target_bpp, SecondCache)
    /\ UNCHANGED <<args, hash_arr2, cnt2, result>>

RejectSecond ==
    /\ pc = "decode2"
    /\ phase = "idle"
    /\ ret.cnt < 0
    /\ Finish(-4)
    /\ UNCHANGED cvars

Decoded2 ==
    /\ pc = "decode2"
    /\ Fetched
    /\ hash_arr2' = ret.hash_pt
    /\ cnt2' = ret.cnt
    /\ pc' = "compare"
    /\ UNCHANGED <<args, hash_arr1, cnt1, result, cvars>>

(* The final comparison, on the memory the two pointers lead to.           *)
Relation(arr1, n1, arr2, n2) ==
    CASE n1 = n2 -> IF arr1 = arr2 THEN 0 ELSE -2
      [] n1 > n2 -> IF sorted_subset(arr2, arr1) THEN 1 ELSE -2
      [] n1 < n2 -> IF sorted_subset(arr1, arr2) THEN -1 ELSE -2

Compare ==
    /\ pc = "compare"
    /\ Finish(Relation(block[hash_arr1].hash_arr, cnt1, block[hash_arr2].hash_arr, cnt2))
    /\ UNCHANGED cvars

CmpStep ==
    \/ RejectHeader \/ Decode1 \/ RejectFirst \/ SameString
    \/ Decode2 \/ RejectSecond \/ Decoded2 \/ Compare
    \/ CacheStep /\ UNCHANGED mine

CmpNext == CmpStep \/ \E arg1, arg2 \in Arg : Call(arg1, arg2)

CmpSpec == CmpInit /\ [][CmpNext]_vars

-----------------------------------------------------------------------------
CmpTypeOK ==
    /\ TypeOK
    /\ pc \in {"idle", "headers", "decode1", "decode2", "compare"}
    /\ args \in Seq(Arg)
    /\ hash_arr1 \in Pointer
    /\ hash_arr2 \in Pointer
    /\ cnt1 \in Nat
    /\ cnt2 \in Nat
    /\ result \in -4 .. 1

(* The pointer to the first array outlives the fetching of the second: no  *)
(* step of the second fetch frees, refills or relinks the block it leads   *)
(* to (set9.c:820 obtains it, 831 runs another lookup, 841-844 read it).   *)
HeldArrays ==
    /\ pc \in {"decode2", "compare"} =>
          /\ IsLive(hash_arr1)
          /\ block[hash_arr1].hash_arr = Decoded[str1][target_bpp]
          /\ cnt1 = Len(Decoded[str1][target_bpp])
    /\ pc = "compare" =>
          /\ IsLive(hash_arr2)
          /\ block[hash_arr2].hash_arr = Decoded[str2][target_bpp]
          /\ cnt2 = Len(Decoded[str2][target_bpp])

(* Caching is invisible: whatever was compared before, rpmsetcmp answers   *)
(* what SetVersion computes from the two arguments alone.                  *)
Promise == INSTANCE SetVersion WITH busy <- pc # "idle"

ImplementsSetVersion == Promise!Spec
=============================================================================
