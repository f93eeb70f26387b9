------------------------------- MODULE DirectCmp -------------------------------
(***************************************************************************)
(* rpmsetcmp of hash_set.c.  Each operand has a cache of decoded arrays,   *)
(* and every entry of the first cache remembers the results of its last    *)
(* comparisons under the identity of the other entry.  The identity, given *)
(* out once and never again, is what makes a result that outlives one of   *)
(* its two entries harmless.                                               *)
(*                                                                         *)
(* An entry is named by its identity here, which stands for its address    *)
(* too: one that is freed is in no domain any more.  The doubly linked     *)
(* lists are the sequences they spell, the newest entry first.  A chain is *)
(* only searched for the entry that matches, so it is a set.               *)
(***************************************************************************)
EXTENDS ArrayAlgorithms, HashArrays, FiniteSetsExt, SequencesExt

CONSTANTS Str,                 \* strings: [text, header, bpp, len, values], see below
          Arg,                 \* arguments: [prefix |-> "set:" is there, body |-> a string]
          Decoded,             \* Decoded[s][t]: string s decoded and reduced to t bits
          CACHE_SIZE,          \* DECODED_CACHE_SIZE
          PAIR_CACHE_SIZE,     \* results an entry remembers
          Bucket,              \* DECODED_CACHE_BUCKETS
          CacheBucket(_, _),   \* the bucket of a string and a precision
          MaxIdentity          \* bound: the identities given out (2^64 - 1 in the code)

ASSUME ArgAssumption == \A arg \in Arg : arg.body \in Str
ASSUME SizeAssumption ==
    CACHE_SIZE \in Nat \ {0} /\ PAIR_CACHE_SIZE \in Nat \ {0} /\ MaxIdentity \in Nat
ASSUME BucketAssumption == \A s \in Str, t \in 10 .. 32 : CacheBucket(s, t) \in Bucket

CacheId == {0, 1}

VARIABLES
    (* static data *)
    next_identity,     \* decoded_cache_next_identity
    entry,             \* entry[id]: the live entries of both caches
    recency,           \* recency[c]: decoded_cache_newest to decoded_cache_oldest
    buckets,           \* buckets[c][b]: a chain
    (* one activation of rpmsetcmp *)
    pc, args,
    entry1, entry2,    \* the entries it holds, 0: none
    result             \* what it returned last

static == <<next_identity, entry, recency, buckets>>
vars == <<static, pc, args, entry1, entry2, result>>

str1 == args[1].body
str2 == args[2].body

target_bpp == IF str2.bpp < str1.bpp THEN str2.bpp ELSE str1.bpp

-----------------------------------------------------------------------------
(* "D1", two digits, three characters of payload, and no second "set:"     *)
(* (header says that those characters are there).                          *)
set_meta_ok(s) == s.header /\ s.len >= 3 /\ s.bpp \in 10 .. 32

(* Decoded is what downsample_to leaves (DirectReduce, ReducesSet) of an   *)
(* array that decode_set_sized accepts, which it does only to an ascending *)
(* one (hash_set.c:401, 476, 496, 559).                                    *)
ASSUME DecodedAssumption ==
    \A s \in Str : set_meta_ok(s) /\ s.values # <<>> =>
        \A t \in 10 .. s.bpp :
            /\ Decoded[s][t] \in Seq(Nat)
            /\ Ascending(Decoded[s][t])
            /\ Range(Decoded[s][t]) = {s.values[i] % 2^t : i \in DOMAIN s.values}

NoPairs == [i \in 0 .. PAIR_CACHE_SIZE - 1 |-> [other_identity |-> 0, result |-> 0]]

Init ==
    /\ next_identity = 1
    /\ entry = <<>>
    /\ recency = [c \in CacheId |-> <<>>]
    /\ buckets = [c \in CacheId |-> [b \in Bucket |-> {}]]
    /\ pc = "done"
    /\ args = <<>>
    /\ entry1 = 0
    /\ entry2 = 0
    /\ result = 0

Call(arg1, arg2) ==
    /\ pc = "done"
    /\ next_identity + 1 <= MaxIdentity
    /\ pc' = "headers"
    /\ args' = <<arg1, arg2>>
    /\ UNCHANGED <<static, entry1, entry2, result>>

Finish(value) ==
    /\ pc' = "done"
    /\ result' = value
    /\ entry1' = 0
    /\ entry2' = 0
    /\ UNCHANGED args

CheckHeaders ==
    /\ pc = "headers"
    /\ IF ~set_meta_ok(str1) THEN Finish(-3)
       ELSE IF ~set_meta_ok(str2) THEN Finish(-4)
       ELSE pc' = "fetch1" /\ UNCHANGED <<args, entry1, entry2, result>>
    /\ UNCHANGED static

-----------------------------------------------------------------------------
(* cache_decode_set(s, target_bpp, c), whole.                              *)
Fingerprinted(s) == CacheBucket(s, target_bpp)

AnyPrecision(id, s) == entry[id].str = s       \* mutant: target_bpp not compared
Matches(id, s) == entry[id].str = s /\ entry[id].target_bpp = target_bpp

Found(s, c) == {id \in buckets[c][Fingerprinted(s)] : Matches(id, s)}

(* A list without one of its entries.                                      *)
Unlinked(list, id) == RemoveAt(list, CHOOSE i \in DOMAIN list : list[i] = id)

(* decoded_cache_touch, and what the caller gets.                          *)
Hit(s, c, id) ==
    /\ id \in Found(s, c)
    /\ recency' = [recency EXCEPT ![c] = <<id>> \o Unlinked(@, id)]
    /\ UNCHANGED <<next_identity, entry, buckets>>

(* A full cache removes its oldest entry, from the list, from its chain    *)
(* and from memory.                                                        *)
Evicts(c) == Len(recency[c]) = CACHE_SIZE

VictimOfFirst(c) == Last(recency[0])     \* mutant: always the oldest of the first cache
Victim(c) == Last(recency[c])

Kept(c) == IF Evicts(c) THEN Front(recency[c]) ELSE recency[c]

ChainsUntouched(c) == buckets[c]     \* mutant: the victim stays in its chain
Chains(c) ==
    IF Evicts(c)
    THEN [buckets[c] EXCEPT ![entry[Victim(c)].bucket] = @ \ {Victim(c)}]
    ELSE buckets[c]

Live(c) == IF Evicts(c) THEN DOMAIN entry \ {Victim(c)} ELSE DOMAIN entry

NewEntryDirty(s, c) ==               \* mutant: the memory of the victim is not cleared
    [str |-> s, target_bpp |-> target_bpp, hashes |-> Decoded[s][target_bpp],
     bucket |-> Fingerprinted(s), cache |-> c, pair_next |-> 0,
     pairs |-> IF Evicts(c) THEN entry[Victim(c)].pairs ELSE NoPairs]
NewEntry(s, c) ==
    [str |-> s, target_bpp |-> target_bpp, hashes |-> Decoded[s][target_bpp],
     bucket |-> Fingerprinted(s), cache |-> c, pair_next |-> 0, pairs |-> NoPairs]

IdentityAfter == next_identity + 1

(* Decoded first, entered at the front of the list and of its chain.       *)
Miss(s, c) ==
    LET id == next_identity
    IN  /\ Found(s, c) = {}
        /\ s.values # <<>>
        /\ entry' = [i \in Live(c) \cup {id} |-> IF i = id THEN NewEntry(s, c) ELSE entry[i]]
        /\ recency' = [recency EXCEPT ![c] = <<id>> \o Kept(c)]
        /\ buckets' = [buckets EXCEPT
              ![c] = [Chains(c) EXCEPT ![Fingerprinted(s)] = @ \cup {id}]]
        /\ next_identity' = IdentityAfter

Undecodable(s, c) == Found(s, c) = {} /\ s.values = <<>>

-----------------------------------------------------------------------------
(* The first operand; equal strings are equal sets once it has decoded.    *)
Fetch1 ==
    /\ pc = "fetch1"
    /\ \/ /\ Undecodable(str1, 0)
          /\ Finish(-3)
          /\ UNCHANGED static
       \/ /\ \/ \E id \in DOMAIN entry : Hit(str1, 0, id) /\ entry1' = id
             \/ Miss(str1, 0) /\ entry1' = next_identity
          /\ pc' = "same"
          /\ UNCHANGED <<args, entry2, result>>

SameString ==
    /\ pc = "same"
    /\ IF str1 = str2 THEN Finish(0)
       ELSE pc' = "fetch2" /\ UNCHANGED <<args, entry1, entry2, result>>
    /\ UNCHANGED static

SecondCache == 1

(* The second operand, while the entry of the first is held.               *)
Fetch2 ==
    /\ pc = "fetch2"
    /\ \/ /\ Undecodable(str2, SecondCache)
          /\ Finish(-4)
          /\ UNCHANGED static
       \/ /\ \/ \E id \in DOMAIN entry : Hit(str2, SecondCache, id) /\ entry2' = id
             \/ Miss(str2, SecondCache) /\ entry2' = next_identity
          /\ pc' = "pair"
          /\ UNCHANGED <<args, entry1, result>>

(* pair_cache_lookup                                                       *)
Remembered ==
    {i \in DOMAIN entry[entry1].pairs : entry[entry1].pairs[i].other_identity = entry2}

Recall ==
    /\ pc = "pair"
    /\ Remembered # {}
    /\ Finish(entry[entry1].pairs[Min(Remembered)].result)
    /\ UNCHANGED static

(* Searching in steps or not, both loops of sorted_subset do the same.     *)
Included(small, large) == sorted_subset(small, large)

Relation(hashes1, hashes2) ==
    CASE Len(hashes1) = Len(hashes2) -> IF hashes1 = hashes2 THEN 0 ELSE -2
      [] Len(hashes1) > Len(hashes2) -> IF Included(hashes2, hashes1) THEN 1 ELSE -2
      [] Len(hashes1) < Len(hashes2) -> IF Included(hashes1, hashes2) THEN -1 ELSE -2

(* pair_cache_store: the slots are used in turn.  PAIR_CACHE_SIZE divides  *)
(* 2^32, so that the counter may as well be kept modulo that size.         *)
Storing(value) ==
    LET slot == entry[entry1].pair_next
    IN  [entry EXCEPT ![entry1] =
            [@ EXCEPT !.pairs[slot] = [other_identity |-> entry2, result |-> value],
                      !.pair_next = (slot + 1) % PAIR_CACHE_SIZE]]

Compare ==
    LET value == Relation(entry[entry1].hashes, entry[entry2].hashes)
    IN  /\ pc = "pair"
        /\ Remembered = {}
        /\ entry' = Storing(value)
        /\ Finish(value)
        /\ UNCHANGED <<next_identity, recency, buckets>>

(* The caller may make no further call.                                    *)
Rest == pc = "done" /\ UNCHANGED vars

Next ==
    \/ CheckHeaders \/ Fetch1 \/ SameString \/ Fetch2 \/ Recall \/ Compare \/ Rest
    \/ \E arg1, arg2 \in Arg : Call(arg1, arg2)

Spec == Init /\ [][Next]_vars

-----------------------------------------------------------------------------
(* A remembered result is the relation of the two entries it was computed  *)
(* from, whenever both are there (hash_set.c:800-817): the second one may  *)
(* have been evicted, and its array decoded again, any number of times.    *)
MemorySound ==
    \A id1, id2 \in DOMAIN entry : \A i \in DOMAIN entry[id1].pairs :
        entry[id1].cache = 0 /\ entry[id1].pairs[i].other_identity = id2 =>
            /\ entry[id2].cache = 1
            /\ entry[id1].pairs[i].result = Relation(entry[id1].hashes, entry[id2].hashes)

(* The entry of the first operand is read after the fetch of the second    *)
(* (hash_set.c:947-966): it is still there, and both are what was asked.   *)
HeldEntries ==
    /\ pc \in {"same", "fetch2", "pair"} =>
          /\ entry1 \in DOMAIN entry
          /\ entry[entry1].hashes = Decoded[str1][target_bpp]
    /\ pc = "pair" =>
          /\ entry2 \in DOMAIN entry
          /\ entry[entry2].hashes = Decoded[str2][target_bpp]

(* List, chains and memory agree: a cache lists its live entries once, and *)
(* each of them is in the one chain that is searched for it.               *)
StructuresAgree ==
    \A c \in CacheId :
        /\ Range(recency[c]) = {id \in DOMAIN entry : entry[id].cache = c}
        /\ IsInjective(recency[c])
        /\ Len(recency[c]) <= CACHE_SIZE
        /\ \A b \in Bucket : buckets[c][b] =
              {id \in DOMAIN entry : entry[id].cache = c /\ entry[id].bucket = b}

-----------------------------------------------------------------------------
(* What SetVersion tells apart of a string in this format.                 *)
Plain(s) ==
    [text |-> s.text, bpp |-> IF set_meta_ok(s) THEN s.bpp ELSE 0, Mshift |-> 7,
     len |-> 2, head |-> "", values |-> s.values]

PlainArg(arg) == [prefix |-> arg.prefix, body |-> Plain(arg.body)]

(* Decoding once, reducing by either way and remembering are invisible:    *)
(* rpmsetcmp answers what SetVersion computes from the two sets alone.     *)
Promise == INSTANCE SetVersion
    WITH Str <- {Plain(s) : s \in Str},
         Arg <- {PlainArg(arg) : arg \in Arg},
         args <- [i \in DOMAIN args |-> PlainArg(args[i])],
         busy <- pc # "done"

ImplementsSetVersion == Promise!Spec
=============================================================================
