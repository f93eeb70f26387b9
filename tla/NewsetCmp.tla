------------------------------- MODULE NewsetCmp -------------------------------
(***************************************************************************)
(* rpmsetcmp of newset.c.  Only the first operand is cached, by its string *)
(* and at its own precision; both operands are then reduced, a bit at a    *)
(* time, to the coarser precision, and compared by the walk of NewsetMerge.*)
(*                                                                         *)
(* The cache is an array of entries.  A hit is moved to the front.  A new  *)
(* entry is appended while there is room; later the last entry is given up *)
(* and the new one is put at PIVOT_SIZE, behind the entries that were hit. *)
(* The reductions write to buffers of the call, never to a cached array:   *)
(* arrays are values here, and the buffers they lie in are not modelled.   *)
(***************************************************************************)
EXTENDS NewsetMerge, SetStrings, SequencesExt

CONSTANTS Arg,         \* arguments: [prefix |-> "set:" is there, body |-> a string]
          CACHE_SIZE,
          PIVOT_SIZE

ASSUME ArgAssumption == \A arg \in Arg : arg.body \in Str
ASSUME CacheAssumption ==
    CACHE_SIZE \in Nat /\ PIVOT_SIZE \in 1 .. CACHE_SIZE - 1

(* 7..32 are encoded with 'a'..'z'; no empty sets.                         *)
decode_set_check(s) ==
    /\ s.bpp \in 10 .. 32
    /\ s.Mshift \in 7 .. 31
    /\ s.Mshift < s.bpp
    /\ s.len >= 1

(* The strings that are compared were written by set_fini: encode_set is   *)
(* given what is left of sorted values, truncated to bpp bits, when each   *)
(* is kept once (newset.c:281-308); decode_set restores them.  A value     *)
(* takes Mshift + 1 bits or more, and a character brings at most six.      *)
ASSUME WrittenAssumption ==
    \A arg \in Arg : decode_set_check(arg.body) =>
        LET values == arg.body.values
        IN  /\ values \in Seq(Nat)
            /\ Ascending(values)
            /\ \A i \in 1 .. Len(values) : values[i] < 2^arg.body.bpp
            /\ values # <<>> => value_capacity(arg.body) >= 1

VARIABLES args,        \* the arguments, <<>> before the first call
          bpp1, bpp2,  \* the precisions of the two arrays
          cache,       \* cache_arr and ent_arr, up to cache_cnt
          hits         \* history: the PIVOT_SIZE strings hit last, latest first

mine == <<args, bpp1, bpp2, cache, hits>>
allvars == <<vars, mine>>

str1 == args[1].body
str2 == args[2].body

-----------------------------------------------------------------------------
Undecodable(s) == s.values = <<>>

CmpInit ==
    /\ arr1 = <<>>
    /\ arr2 = <<>>
    /\ WalkStart
    /\ pc = "done"
    /\ result = 0
    /\ args = <<>>
    /\ bpp1 = 0
    /\ bpp2 = 0
    /\ cache = <<>>
    /\ hits = <<>>

(* A call, with locals of its own; the bodies are what is left once "set:" *)
(* is skipped.                                                             *)
Call(arg1, arg2) ==
    /\ pc = "done"
    /\ pc' = "headers"
    /\ args' = <<arg1, arg2>>
    /\ arr1' = <<>>
    /\ arr2' = <<>>
    /\ bpp1' = 0
    /\ bpp2' = 0
    /\ at1' = 0
    /\ at2' = 0
    /\ ge' = TRUE
    /\ le' = TRUE
    /\ lo' = 0
    /\ hi' = 0
    /\ left' = 0
    /\ right' = 0
    /\ UNCHANGED <<result, cache, hits>>

Reject(value) ==
    /\ pc' = "done"
    /\ result' = value
    /\ UNCHANGED <<merge, args, bpp1, bpp2>>

RejectHeader ==
    /\ pc = "headers"
    /\ ~(decode_set_check(str1) /\ decode_set_check(str2))
    /\ Reject(IF ~decode_set_check(str1) THEN -3 ELSE -4)
    /\ UNCHANGED <<cache, hits>>

-----------------------------------------------------------------------------
(* cache_decode_set(str1): the fetch of the first array.                   *)
Fetching == pc = "headers" /\ decode_set_check(str1) /\ decode_set_check(str2)

Deliver(hash_arr) ==
    /\ arr1' = hash_arr
    /\ bpp1' = str1.bpp
    /\ pc' = "decode2"
    /\ UNCHANGED <<arr2, at1, at2, ge, le, gallop, result, args, bpp2>>

Holds(i) == cache[i].fp = Fingerprint(str1) /\ cache[i].str = str1
Cached == \E i \in DOMAIN cache : Holds(i)

Hit ==
    /\ Fetching
    /\ \E i \in DOMAIN cache :
          /\ Holds(i)
          /\ cache' = <<cache[i]>> \o RemoveAt(cache, i)
          /\ hits' = LET all == <<str1>> \o RemoveFirst(hits, str1)
                     IN  IF Len(all) > PIVOT_SIZE THEN Front(all) ELSE all
          /\ Deliver(cache[i].hash_arr)

DecodeFails ==
    /\ Fetching
    /\ ~Cached
    /\ Undecodable(str1)
    /\ Reject(-3)
    /\ UNCHANGED <<cache, hits>>

Entry(s) == [fp |-> Fingerprint(s), str |-> s, hash_arr |-> s.values]

OneEarlier == PIVOT_SIZE           \* mutant: one position before the pivot
PivotIndex == PIVOT_SIZE + 1

(* The last entry is freed, those from the pivot on move up by one.        *)
Inserted(ent) ==
    IF Len(cache) < CACHE_SIZE THEN Append(cache, ent)
    ELSE InsertAt(SubSeq(cache, 1, CACHE_SIZE - 1), PivotIndex, ent)

Miss ==
    /\ Fetching
    /\ ~Cached
    /\ ~Undecodable(str1)
    /\ cache' = Inserted(Entry(str1))
    /\ Deliver(str1.values)
    /\ UNCHANGED hits

-----------------------------------------------------------------------------
(* decode_set(str2), into a buffer of the call.                            *)
Decode2 ==
    /\ pc = "decode2"
    /\ IF Undecodable(str2)
       THEN Reject(-4)
       ELSE /\ arr2' = str2.values
            /\ bpp2' = str2.bpp
            /\ pc' = "reduce"
            /\ UNCHANGED <<arr1, at1, at2, ge, le, gallop, result, args, bpp1>>
    /\ UNCHANGED <<cache, hits>>

(* The binary search and the merge of newset.c's downsample_set are those  *)
(* of set9.c.                                                              *)
reduced(arr, bpp) == downsample_set(arr, bpp)

OneShort(bpp, other) == bpp - 1 > other     \* mutant: stops a bit too early
Finer(bpp, other) == bpp > other

Reduce1 ==
    /\ pc = "reduce"
    /\ Finer(bpp1, bpp2)
    /\ bpp1' = bpp1 - 1
    /\ arr1' = reduced(arr1, bpp1 - 1)
    /\ UNCHANGED <<arr2, at1, at2, ge, le, gallop, pc, result, args, bpp2, cache, hits>>

Reduce2 ==
    /\ pc = "reduce"
    /\ Finer(bpp2, bpp1)
    /\ bpp2' = bpp2 - 1
    /\ arr2' = reduced(arr2, bpp2 - 1)
    /\ UNCHANGED <<arr1, at1, at2, ge, le, gallop, pc, result, args, bpp1, cache, hits>>

StartMerge ==
    /\ pc = "reduce"
    /\ ~Finer(bpp1, bpp2)
    /\ ~Finer(bpp2, bpp1)
    /\ pc' = "merge"
    /\ UNCHANGED <<merge, result, mine>>

CmpStep ==
    \/ RejectHeader \/ Hit \/ DecodeFails \/ Miss \/ Decode2
    \/ Reduce1 \/ Reduce2 \/ StartMerge
    \/ MergeStep /\ UNCHANGED mine

CmpNext == CmpStep \/ \E arg1, arg2 \in Arg : Call(arg1, arg2)

CmpSpec == CmpInit /\ [][CmpNext]_allvars

-----------------------------------------------------------------------------
(* What was hit is safe from what was not: the PIVOT_SIZE strings hit last *)
(* lead the cache, latest first, whatever was decoded and given up since   *)
(* (newset.c:508-516 and 546-556).  No string has two entries.             *)
RecentHitsKept ==
    /\ \A i \in DOMAIN hits : i \in DOMAIN cache /\ cache[i].str = hits[i]
    /\ \A i, j \in DOMAIN cache : cache[i].str = cache[j].str => i = j

(* Caching, reducing and galloping are invisible: rpmsetcmp answers what   *)
(* SetVersion computes from the two arguments alone.                       *)
Promise == INSTANCE SetVersion WITH busy <- pc # "done"

ImplementsSetVersion == Promise!Spec
=============================================================================
