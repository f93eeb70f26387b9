--------------------------- MODULE DirectCmp_proofs ---------------------------
(***************************************************************************)
(* For caches and memories of any size, any strings and any bucket         *)
(* function: lists, chains and live entries agree, the entries a           *)
(* comparison holds stay what it asked for, and no remembered result is    *)
(* ever taken for that of another pair.  The last rests on identities that *)
(* are given out once: whoever a memory names is either gone for good or   *)
(* the entry it was computed with.  So the answer of rpmsetcmp, remembered *)
(* or computed, is SetVersion's.                                           *)
(*                                                                         *)
(* For any names, hash values, sizes and precisions the builder of the     *)
(* same file is a set of symbols, however often it is asked to encode: its *)
(* entries keep the names and whole values they came with, the copies it   *)
(* masks, sorts and compacts are made anew, and the radix sort sorts.      *)
(***************************************************************************)
EXTENDS DirectCmp, DirectBuilder, CommonFacts, SequenceTheorems

Slots == 0 .. PAIR_CACHE_SIZE - 1

AllHashes == {Decoded[s][t] : s \in Str, t \in 10 .. 32}

AllResults == {0} \cup {Relation(h1, h2) : h1, h2 \in AllHashes}

PairType == [other_identity : Nat, result : AllResults]

EntryType ==
    [str : Str, target_bpp : 10 .. 32, hashes : AllHashes, bucket : Bucket,
     cache : CacheId, pair_next : Slots, pairs : [Slots -> PairType]]

Fetching == pc \in {"fetch1", "same", "fetch2", "pair"}

StaticType ==
    /\ next_identity \in Nat \ {0}
    /\ DOMAIN entry \subseteq 1 .. next_identity - 1
    /\ \A id \in DOMAIN entry : entry[id] \in EntryType
    /\ recency \in [CacheId -> Seq(Nat)]
    /\ buckets \in [CacheId -> [Bucket -> SUBSET Nat]]

TypeOK ==
    /\ StaticType
    /\ pc \in {"done", "headers", "fetch1", "same", "fetch2", "pair"}
    /\ pc # "done" => args[1] \in Arg /\ args[2] \in Arg

(* Past the checks of the headers both precisions are in range.            *)
PrecisionInv == Fetching => str1.bpp \in 10 .. 32 /\ str2.bpp \in 10 .. 32

(* An entry holds the array of its own string and precision.               *)
ArraysInv ==
    \A id \in DOMAIN entry : entry[id].hashes = Decoded[entry[id].str][entry[id].target_bpp]

(* Whoever a memory of the first cache names was given out before; if it   *)
(* still lives, it is of the second cache and the result is theirs.        *)
Sound(id1, p) ==
    /\ p.other_identity < next_identity
    /\ p.other_identity \in DOMAIN entry =>
          /\ entry[p.other_identity].cache = 1
          /\ p.result = Relation(entry[id1].hashes, entry[p.other_identity].hashes)
MemoryInv ==
    \A id1 \in DOMAIN entry : entry[id1].cache = 0 =>
        \A i \in Slots : Sound(id1, entry[id1].pairs[i])

(* The entries that are held are of their cache and of their operand.      *)
Holds(id, c, s) ==
    /\ id \in DOMAIN entry
    /\ entry[id].cache = c
    /\ entry[id].str = s
    /\ entry[id].target_bpp = target_bpp
HeldInv ==
    /\ pc \in {"same", "fetch2", "pair"} => Holds(entry1, 0, str1)
    /\ pc = "pair" => Holds(entry2, 1, str2)

StaticInv == StaticType /\ ArraysInv /\ MemoryInv /\ StructuresAgree

IInv == TypeOK /\ StaticInv /\ PrecisionInv /\ HeldInv

-----------------------------------------------------------------------------
(* Lists.                                                                  *)

(* An element that is listed has a place.                                  *)
LEMMA PlaceInList ==
    ASSUME NEW list \in Seq(Nat), NEW id \in Range(list)
    PROVE  LET k == CHOOSE i \in DOMAIN list : list[i] = id
           IN  k \in 1 .. Len(list) /\ list[k] = id
<1>1. \E i \in DOMAIN list : list[i] = id
  BY DEF Range
<1>2. DOMAIN list = 1 .. Len(list)
  OBVIOUS
<1> QED
  BY <1>1, <1>2, Zenon

(* c elements of a list from behind place d on.                            *)
LEMMA Part ==
    ASSUME NEW list \in Seq(Nat), NEW d \in Nat, NEW c \in Nat, d + c <= Len(list)
    PROVE  /\ SubSeq(list, d + 1, d + c) \in Seq(Nat)
           /\ Len(SubSeq(list, d + 1, d + c)) = c
           /\ \A i \in 1 .. c : SubSeq(list, d + 1, d + c)[i] = list[d + i]
<1> DEFINE part == SubSeq(list, d + 1, d + c)
<1>1. \A i \in d + 1 .. d + c : list[i] \in Nat
  <2>1. \A i \in 1 .. Len(list) : list[i] \in Nat
    OBVIOUS
  <2>2. Len(list) \in Nat
    OBVIOUS
  <2> QED
    BY <2>1, <2>2
<1>2. /\ part \in Seq(Nat)
      /\ Len(part) = IF d + 1 <= d + c THEN d + c - (d + 1) + 1 ELSE 0
      /\ \A i \in 1 .. d + c - (d + 1) + 1 : part[i] = list[d + 1 + i - 1]
  BY <1>1, SubSeqProperties
<1> HIDE DEF part
<1>3. d + c - (d + 1) + 1 = c /\ (d + 1 <= d + c <=> c # 0)
  OBVIOUS
<1>4. Len(part) = c
  BY <1>2, <1>3
<1>5. ASSUME NEW i \in 1 .. c PROVE part[i] = list[d + i]
  <2>1. part[i] = list[d + 1 + i - 1]
    BY <1>2, <1>3
  <2>2. d + 1 + i - 1 = d + i
    OBVIOUS
  <2> QED
    BY <2>1, <2>2
<1> QED
  BY <1>2, <1>4, <1>5 DEF part

(* Taking out one place of a list without repetitions takes out its value. *)
LEMMA RemovedPlace ==
    ASSUME NEW list \in Seq(Nat), IsInjective(list), NEW k \in 1 .. Len(list)
    PROVE  /\ RemoveAt(list, k) \in Seq(Nat)
           /\ Len(RemoveAt(list, k)) = Len(list) - 1
           /\ IsInjective(RemoveAt(list, k))
           /\ Range(RemoveAt(list, k)) = Range(list) \ {list[k]}
<1> DEFINE before == SubSeq(list, 1, k - 1)
           after == SubSeq(list, k + 1, Len(list))
           rest == RemoveAt(list, k)
<1>0. Len(list) \in Nat /\ DOMAIN list = 1 .. Len(list) /\ k \in Nat /\ 1 <= k /\ k <= Len(list)
  OBVIOUS
<1>a. \A i \in 1 .. Len(list) : list[i] \in Nat
  OBVIOUS
<1>1. /\ before \in Seq(Nat) /\ Len(before) = k - 1
      /\ \A i \in 1 .. k - 1 : before[i] = list[i]
  <2>1. 0 \in Nat /\ k - 1 \in Nat /\ 0 + (k - 1) <= Len(list)
    BY <1>0
  <2>2. 0 + 1 = 1 /\ 0 + (k - 1) = k - 1
    BY <1>0
  <2>a. /\ SubSeq(list, 0 + 1, 0 + (k - 1)) \in Seq(Nat)
        /\ Len(SubSeq(list, 0 + 1, 0 + (k - 1))) = k - 1
        /\ \A i \in 1 .. k - 1 : SubSeq(list, 0 + 1, 0 + (k - 1))[i] = list[0 + i]
    BY <2>1, Part, Zenon
  <2>b. SubSeq(list, 0 + 1, 0 + (k - 1)) = before
    BY <2>2, Zenon
  <2>3. /\ before \in Seq(Nat) /\ Len(before) = k - 1
        /\ \A i \in 1 .. k - 1 : before[i] = list[0 + i]
    BY <2>a, <2>b, Zenon
  <2> HIDE DEF before
  <2>4. ASSUME NEW i \in 1 .. k - 1 PROVE before[i] = list[i]
    <3>1. 0 + i = i
      BY <1>0
    <3> QED
      BY <2>3, <3>1
  <2> QED
    BY <2>3, <2>4
<1>2. /\ after \in Seq(Nat) /\ Len(after) = Len(list) - k
      /\ \A i \in 1 .. Len(list) - k : after[i] = list[k + i]
  <2>1. Len(list) - k \in Nat /\ k + (Len(list) - k) = Len(list)
    BY <1>0
  <2>2. /\ SubSeq(list, k + 1, k + (Len(list) - k)) \in Seq(Nat)
        /\ Len(SubSeq(list, k + 1, k + (Len(list) - k))) = Len(list) - k
        /\ \A i \in 1 .. Len(list) - k :
              SubSeq(list, k + 1, k + (Len(list) - k))[i] = list[k + i]
    <3>1. k \in Nat /\ k + (Len(list) - k) <= Len(list)
      BY <1>0, <2>1
    <3> QED
      BY <2>1, <3>1, Part, Zenon
  <2>3. SubSeq(list, k + 1, k + (Len(list) - k)) = after
    BY <2>1, Zenon
  <2> QED
    BY <2>2, <2>3, Zenon
<1>3. rest = before \o after
  BY DEF RemoveAt
<1> HIDE DEF before, after, rest
<1>b. /\ rest \in Seq(Nat) /\ Len(rest) = Len(before) + Len(after)
      /\ \A i \in 1 .. Len(before) + Len(after) :
            rest[i] = IF i <= Len(before) THEN before[i] ELSE after[i - Len(before)]
  BY <1>1, <1>2, <1>3, ConcatProperties
<1>4. rest \in Seq(Nat) /\ Len(rest) = Len(list) - 1 /\ DOMAIN rest = 1 .. Len(list) - 1
  <2>1. Len(rest) = Len(list) - 1
    BY <1>0, <1>1, <1>2, <1>b
  <2> QED
    BY <1>b, <2>1, LenProperties
<1>5. \A i \in 1 .. Len(list) - 1 : rest[i] = IF i < k THEN list[i] ELSE list[i + 1]
  <2> TAKE i \in 1 .. Len(list) - 1
  <2>0. i \in 1 .. Len(before) + Len(after)
    BY <1>0, <1>1, <1>2
  <2>1. CASE i < k
    <3>1. i <= Len(before) /\ i \in 1 .. k - 1
      BY <1>0, <1>1, <2>1
    <3>2. rest[i] = before[i]
      BY <1>b, <2>0, <3>1
    <3> QED
      BY <1>1, <2>1, <3>1, <3>2
  <2>2. CASE i >= k
    <3>1. i - Len(before) \in 1 .. Len(list) - k /\ ~(i <= Len(before)) /\ ~(i < k)
      BY <1>0, <1>1, <2>2
    <3>2. rest[i] = after[i - Len(before)]
      BY <1>b, <2>0, <3>1
    <3>3. k + (i - Len(before)) = i + 1
      BY <1>0, <1>1
    <3>4. after[i - Len(before)] = list[k + (i - Len(before))]
      BY <1>2, <3>1
    <3> QED
      BY <3>1, <3>2, <3>3, <3>4
  <2> QED
    BY <1>0, <2>1, <2>2
<1>6. \A i, j \in 1 .. Len(list) : list[i] = list[j] => i = j
  BY <1>0 DEF IsInjective
<1>7. IsInjective(rest)
  <2>1. ASSUME NEW i \in 1 .. Len(list) - 1, NEW j \in 1 .. Len(list) - 1, rest[i] = rest[j]
        PROVE  i = j
    <3>1. /\ rest[i] = IF i < k THEN list[i] ELSE list[i + 1]
          /\ rest[j] = IF j < k THEN list[j] ELSE list[j + 1]
      BY <1>5
    <3>2. /\ i \in 1 .. Len(list) /\ i + 1 \in 1 .. Len(list)
          /\ j \in 1 .. Len(list) /\ j + 1 \in 1 .. Len(list)
      BY <1>0
    <3>3. CASE i < k /\ j < k
      <4>1. list[i] = list[j]
        BY <2>1, <3>1, <3>3
      <4> QED
        BY <1>6, <3>2, <4>1
    <3>4. CASE ~(i < k) /\ ~(j < k)
      <4>1. list[i + 1] = list[j + 1]
        BY <2>1, <3>1, <3>4
      <4>2. i + 1 = j + 1
        BY <1>6, <3>2, <4>1
      <4> QED
        BY <1>0, <4>2
    <3>5. CASE i < k /\ ~(j < k)
      <4>1. list[i] = list[j + 1]
        BY <2>1, <3>1, <3>5
      <4>2. i = j + 1
        BY <1>6, <3>2, <4>1
      <4> QED
        BY <1>0, <3>5, <4>2
    <3>6. CASE ~(i < k) /\ j < k
      <4>1. list[i + 1] = list[j]
        BY <2>1, <3>1, <3>6
      <4>2. i + 1 = j
        BY <1>6, <3>2, <4>1
      <4> QED
        BY <1>0, <3>6, <4>2
    <3> QED
      BY <3>3, <3>4, <3>5, <3>6
  <2> QED
    BY <1>4, <2>1 DEF IsInjective
<1>8. Range(rest) \subseteq Range(list) \ {list[k]}
  <2> SUFFICES ASSUME NEW i \in 1 .. Len(list) - 1
               PROVE  rest[i] \in Range(list) /\ rest[i] # list[k]
    BY <1>4 DEF Range
  <2>0. rest[i] = IF i < k THEN list[i] ELSE list[i + 1]
    BY <1>5
  <2>1. PICK j \in 1 .. Len(list) : rest[i] = list[j] /\ j # k
    <3>1. CASE i < k
      <4>1. i \in 1 .. Len(list) /\ i # k
        BY <1>0, <3>1
      <4> QED
        BY <2>0, <3>1, <4>1
    <3>2. CASE ~(i < k)
      <4>1. i + 1 \in 1 .. Len(list) /\ i + 1 # k
        BY <1>0, <3>2
      <4> QED
        BY <2>0, <3>2, <4>1
    <3> QED
      BY <3>1, <3>2
  <2> QED
    BY <1>0, <1>6, <2>1 DEF Range
<1>9. Range(list) \ {list[k]} \subseteq Range(rest)
  <2> SUFFICES ASSUME NEW j \in 1 .. Len(list), j # k PROVE list[j] \in Range(rest)
    BY <1>0 DEF Range
  <2>1. CASE j < k
    <3>1. j \in 1 .. Len(list) - 1 /\ rest[j] = list[j]
      BY <1>0, <1>5, <2>1
    <3> QED
      BY <1>4, <3>1 DEF Range
  <2>2. CASE j > k
    <3>1. j - 1 \in 1 .. Len(list) - 1 /\ ~(j - 1 < k) /\ (j - 1) + 1 = j
      BY <1>0, <2>2
    <3>2. rest[j - 1] = list[j]
      BY <1>5, <3>1
    <3> QED
      BY <1>4, <3>1, <3>2 DEF Range
  <2> QED
    BY <1>0, <2>1, <2>2
<1> QED
  BY <1>4, <1>7, <1>8, <1>9 DEF rest

(* Unlinking an entry that is listed.                                      *)
LEMMA UnlinkedFacts ==
    ASSUME NEW list \in Seq(Nat), IsInjective(list), NEW id \in Range(list)
    PROVE  /\ Unlinked(list, id) \in Seq(Nat)
           /\ Len(Unlinked(list, id)) = Len(list) - 1
           /\ IsInjective(Unlinked(list, id))
           /\ Range(Unlinked(list, id)) = Range(list) \ {id}
<1> DEFINE k == CHOOSE i \in DOMAIN list : list[i] = id
<1>1. k \in 1 .. Len(list) /\ list[k] = id
  BY PlaceInList
<1>2. Unlinked(list, id) = RemoveAt(list, k)
  BY DEF Unlinked
<1> HIDE DEF k
<1> QED
  BY <1>1, <1>2, RemovedPlace

LEMMA BelowLast ==
    ASSUME NEW m \in Nat, NEW i
    PROVE  i \in 1 .. m - 1 <=> i \in 1 .. m /\ i # m
  OBVIOUS

(* Giving up the oldest entry.                                             *)
LEMMA FrontFacts ==
    ASSUME NEW list \in Seq(Nat), IsInjective(list), Len(list) >= 1
    PROVE  /\ Front(list) \in Seq(Nat)
           /\ Len(Front(list)) = Len(list) - 1
           /\ IsInjective(Front(list))
           /\ Last(list) \in Range(list)
           /\ Range(Front(list)) = Range(list) \ {Last(list)}
<1>0. Len(list) \in Nat /\ DOMAIN list = 1 .. Len(list)
  OBVIOUS
<1>c. Len(list) >= 1
  OBVIOUS
<1>1. /\ Front(list) \in Seq(Nat) /\ Len(Front(list)) = Len(list) - 1
      /\ DOMAIN Front(list) = 1 .. Len(list) - 1
      /\ \A i \in 1 .. Len(list) - 1 : Front(list)[i] = list[i]
  <2>1. 0 \in Nat /\ Len(list) - 1 \in Nat /\ 0 + (Len(list) - 1) <= Len(list)
    BY <1>0, <1>c
  <2>2. 0 + 1 = 1 /\ 0 + (Len(list) - 1) = Len(list) - 1
    BY <1>0
  <2>3. /\ Front(list) \in Seq(Nat) /\ Len(Front(list)) = Len(list) - 1
        /\ \A i \in 1 .. Len(list) - 1 : Front(list)[i] = list[0 + i]
    BY <2>1, <2>2, Part DEF Front
  <2>4. ASSUME NEW i \in 1 .. Len(list) - 1 PROVE Front(list)[i] = list[i]
    <3>1. 0 + i = i
      BY <1>0
    <3> QED
      BY <2>3, <3>1
  <2>5. DOMAIN Front(list) = 1 .. Len(Front(list))
    BY <2>3, LenProperties
  <2> QED
    BY <2>3, <2>4, <2>5
<1>2. \A i, j \in 1 .. Len(list) : list[i] = list[j] => i = j
  BY <1>0 DEF IsInjective
<1>3. IsInjective(Front(list))
  <2>1. ASSUME NEW i \in 1 .. Len(list) - 1, NEW j \in 1 .. Len(list) - 1,
               Front(list)[i] = Front(list)[j]
        PROVE  i = j
    <3>1. i \in 1 .. Len(list) /\ j \in 1 .. Len(list) /\ list[i] = list[j]
      BY <1>0, <1>1, <2>1
    <3> QED
      BY <1>2, <3>1
  <2> QED
    BY <1>1, <2>1 DEF IsInjective
<1>4. Last(list) = list[Len(list)] /\ Len(list) \in 1 .. Len(list)
  BY <1>0 DEF Last
<1>5. Last(list) \in Range(list)
  BY <1>0, <1>4 DEF Range
<1>6. Range(Front(list)) \subseteq Range(list) \ {Last(list)}
  <2> SUFFICES ASSUME NEW i \in 1 .. Len(list) - 1
               PROVE  Front(list)[i] \in Range(list) /\ Front(list)[i] # Last(list)
    BY <1>1 DEF Range
  <2>1. i \in 1 .. Len(list) /\ i # Len(list)
    BY <1>0, BelowLast, Zenon
  <2>2. Front(list)[i] = list[i]
    BY <1>1
  <2>3. list[i] \in Range(list)
    BY <1>0, <2>1 DEF Range
  <2> QED
    BY <1>2, <1>4, <2>1, <2>2, <2>3
<1>7. Range(list) \ {Last(list)} \subseteq Range(Front(list))
  <2> SUFFICES ASSUME NEW i \in 1 .. Len(list), list[i] # Last(list)
               PROVE  list[i] \in Range(Front(list))
    BY <1>0 DEF Range
  <2>1. i # Len(list)
    BY <1>4
  <2>2. i \in 1 .. Len(list) - 1
    BY <1>0, <2>1, BelowLast, Zenon
  <2>3. i \in DOMAIN Front(list) /\ Front(list)[i] = list[i]
    BY <1>1, <2>2
  <2> QED
    BY <2>3 DEF Range
<1> QED
  BY <1>1, <1>3, <1>5, <1>6, <1>7

(* Entering at the front.                                                  *)
LEMMA EnteredFacts ==
    ASSUME NEW list \in Seq(Nat), IsInjective(list), NEW id \in Nat, id \notin Range(list)
    PROVE  /\ <<id>> \o list \in Seq(Nat)
           /\ Len(<<id>> \o list) = Len(list) + 1
           /\ IsInjective(<<id>> \o list)
           /\ Range(<<id>> \o list) = Range(list) \cup {id}
<1> DEFINE all == <<id>> \o list
<1>0. Len(list) \in Nat /\ DOMAIN list = 1 .. Len(list)
  OBVIOUS
<1>a. /\ <<id>> \in Seq(Nat) /\ Len(<<id>>) = 1 /\ <<id>>[1] = id
  OBVIOUS
<1>b. /\ all \in Seq(Nat) /\ Len(all) = Len(<<id>>) + Len(list)
      /\ \A i \in 1 .. Len(<<id>>) + Len(list) :
            all[i] = IF i <= Len(<<id>>) THEN <<id>>[i] ELSE list[i - Len(<<id>>)]
  BY <1>a, ConcatProperties
<1> HIDE DEF all
<1>1. /\ all \in Seq(Nat) /\ Len(all) = Len(list) + 1 /\ DOMAIN all = 1 .. Len(list) + 1
      /\ \A i \in 1 .. Len(list) + 1 : all[i] = IF i = 1 THEN id ELSE list[i - 1]
  <2>1. Len(all) = Len(list) + 1
    BY <1>0, <1>a, <1>b
  <2>2. DOMAIN all = 1 .. Len(all)
    BY <1>b, LenProperties
  <2>3. ASSUME NEW i \in 1 .. Len(list) + 1
        PROVE  all[i] = IF i = 1 THEN id ELSE list[i - 1]
    <3>1. i \in 1 .. 1 + Len(list) /\ (i <= 1 <=> i = 1)
      BY <1>0
    <3>2. all[i] = IF i <= 1 THEN <<id>>[i] ELSE list[i - 1]
      BY <1>a, <1>b, <3>1
    <3> QED
      BY <1>a, <3>1, <3>2
  <2> QED
    BY <1>b, <2>1, <2>2, <2>3
<1>2. \A i \in 1 .. Len(list) : list[i] # id
  BY <1>0 DEF Range
<1>3. \A i, j \in 1 .. Len(list) : list[i] = list[j] => i = j
  BY <1>0 DEF IsInjective
<1>4. IsInjective(all)
  <2>1. ASSUME NEW i \in 1 .. Len(list) + 1, NEW j \in 1 .. Len(list) + 1, all[i] = all[j]
        PROVE  i = j
    <3>1. (i = 1 \/ i - 1 \in 1 .. Len(list)) /\ (j = 1 \/ j - 1 \in 1 .. Len(list))
      BY <1>0
    <3>2. /\ all[i] = IF i = 1 THEN id ELSE list[i - 1]
          /\ all[j] = IF j = 1 THEN id ELSE list[j - 1]
      BY <1>1
    <3>3. CASE i = 1 \/ j = 1
      BY <1>2, <2>1, <3>1, <3>2, <3>3
    <3>4. CASE i # 1 /\ j # 1
      <4>1. i - 1 = j - 1
        BY <1>3, <2>1, <3>1, <3>2, <3>4
      <4> QED
        BY <1>0, <4>1
    <3> QED
      BY <3>3, <3>4
  <2> QED
    BY <1>1, <2>1 DEF IsInjective
<1>5. Range(all) \subseteq Range(list) \cup {id}
  <2> SUFFICES ASSUME NEW i \in 1 .. Len(list) + 1, all[i] # id PROVE all[i] \in Range(list)
    BY <1>1 DEF Range
  <2>1. i - 1 \in 1 .. Len(list) /\ all[i] = list[i - 1]
    BY <1>0, <1>1
  <2> QED
    BY <1>0, <2>1 DEF Range
<1>6. id \in Range(all)
  <2>1. 1 \in 1 .. Len(list) + 1
    BY <1>0
  <2> QED
    BY <1>1, <2>1 DEF Range
<1>7. Range(list) \subseteq Range(all)
  <2> SUFFICES ASSUME NEW i \in 1 .. Len(list) PROVE list[i] \in Range(all)
    BY <1>0 DEF Range
  <2>1. i + 1 \in 1 .. Len(list) + 1 /\ i + 1 # 1 /\ (i + 1) - 1 = i
    BY <1>0
  <2>2. all[i + 1] = list[i]
    BY <1>1, <2>1
  <2> QED
    BY <1>1, <2>1, <2>2 DEF Range
<1> QED
  BY <1>1, <1>4, <1>5, <1>6, <1>7 DEF all

-----------------------------------------------------------------------------
(* Entries.                                                                *)
LEMMA EntryFields ==
    ASSUME NEW e \in EntryType
    PROVE  /\ e.str \in Str /\ e.target_bpp \in 10 .. 32 /\ e.hashes \in AllHashes
           /\ e.bucket \in Bucket /\ e.cache \in CacheId /\ e.pair_next \in Slots
           /\ e.pairs \in [Slots -> PairType]
           /\ DOMAIN e.pairs = Slots
           /\ \A i \in Slots : e.pairs[i].other_identity \in Nat
  BY DEF EntryType, PairType

(* A new entry remembers nothing.                                          *)
LEMMA NewEntryFacts ==
    ASSUME NEW s \in Str, NEW c \in CacheId, target_bpp \in 10 .. 32
    PROVE  /\ NewEntry(s, c) \in EntryType
           /\ NewEntry(s, c).str = s
           /\ NewEntry(s, c).target_bpp = target_bpp
           /\ NewEntry(s, c).hashes = Decoded[s][target_bpp]
           /\ NewEntry(s, c).bucket = Fingerprinted(s)
           /\ NewEntry(s, c).cache = c
           /\ \A i \in Slots : NewEntry(s, c).pairs[i].other_identity = 0
           /\ Fingerprinted(s) \in Bucket
<1>1. NoPairs \in [Slots -> PairType] /\ \A i \in Slots : NoPairs[i].other_identity = 0
  BY DEF NoPairs, Slots, PairType, AllResults
<1>2. 0 \in Slots
  BY SizeAssumption DEF Slots
<1>3. Fingerprinted(s) \in Bucket
  BY BucketAssumption DEF Fingerprinted
<1>4. Decoded[s][target_bpp] \in AllHashes
  BY DEF AllHashes
<1> HIDE DEF NoPairs, AllHashes, Slots, PairType, target_bpp, Fingerprinted
<1> QED
  BY <1>1, <1>2, <1>3, <1>4 DEF NewEntry, EntryType

(* Storing a result touches one slot and the counter.                      *)
Stored(e, pair) ==
    [e EXCEPT !.pairs[e.pair_next] = pair, !.pair_next = (e.pair_next + 1) % PAIR_CACHE_SIZE]

LEMMA StoredFacts ==
    ASSUME NEW e \in EntryType, NEW pair \in PairType
    PROVE  /\ Stored(e, pair) \in EntryType
           /\ Stored(e, pair).str = e.str
           /\ Stored(e, pair).target_bpp = e.target_bpp
           /\ Stored(e, pair).hashes = e.hashes
           /\ Stored(e, pair).bucket = e.bucket
           /\ Stored(e, pair).cache = e.cache
           /\ \A i \in Slots :
                 Stored(e, pair).pairs[i] = pair \/ Stored(e, pair).pairs[i] = e.pairs[i]
<1>1. e.pairs \in [Slots -> PairType] /\ e.pair_next \in Slots
  BY EntryFields
<1>2. (e.pair_next + 1) % PAIR_CACHE_SIZE \in Slots
  BY <1>1, SizeAssumption DEF Slots
<1>3. [e.pairs EXCEPT ![e.pair_next] = pair] \in [Slots -> PairType]
  BY <1>1
<1>4. \A i \in Slots : [e.pairs EXCEPT ![e.pair_next] = pair][i] \in {pair, e.pairs[i]}
  BY <1>1
<1> DEFINE stored == [e.pairs EXCEPT ![e.pair_next] = pair]
           next == (e.pair_next + 1) % PAIR_CACHE_SIZE
<1>5. Stored(e, pair) = [e EXCEPT !.pairs = stored, !.pair_next = next]
  BY DEF Stored, EntryType
<1>6. stored \in [Slots -> PairType] /\ next \in Slots
  BY <1>2, <1>3
<1>7. \A i \in Slots : stored[i] = pair \/ stored[i] = e.pairs[i]
  BY <1>4
<1> HIDE DEF stored, next, Slots, PairType, AllHashes
<1>8. /\ Stored(e, pair) \in EntryType
      /\ Stored(e, pair).str = e.str
      /\ Stored(e, pair).target_bpp = e.target_bpp
      /\ Stored(e, pair).hashes = e.hashes
      /\ Stored(e, pair).bucket = e.bucket
      /\ Stored(e, pair).cache = e.cache
      /\ Stored(e, pair).pairs = stored
  BY <1>5, <1>6 DEF EntryType
<1> QED
  BY <1>7, <1>8

-----------------------------------------------------------------------------
(* The caches.                                                             *)

(* What one cache says of itself.                                          *)
LEMMA CacheFacts ==
    ASSUME StaticInv, NEW c \in CacheId
    PROVE  /\ recency[c] \in Seq(Nat)
           /\ IsInjective(recency[c])
           /\ Len(recency[c]) <= CACHE_SIZE
           /\ Range(recency[c]) = {id \in DOMAIN entry : entry[id].cache = c}
           /\ buckets[c] \in [Bucket -> SUBSET Nat]
           /\ \A b \in Bucket :
                 buckets[c][b] = {id \in DOMAIN entry : entry[id].cache = c /\ entry[id].bucket = b}
  BY DEF StaticInv, StaticType, StructuresAgree

(* A hit only reorders the list.                                           *)
LEMMA HitInv ==
    ASSUME StaticInv, NEW c \in CacheId, NEW s \in Str, target_bpp \in 10 .. 32,
           NEW id \in DOMAIN entry, Hit(s, c, id)
    PROVE  /\ StaticInv'
           /\ Holds(id, c, s)
           /\ UNCHANGED <<next_identity, entry>>
<1>1. /\ UNCHANGED <<next_identity, entry, buckets>>
      /\ recency' = [recency EXCEPT ![c] = <<id>> \o Unlinked(recency[c], id)]
      /\ id \in buckets[c][Fingerprinted(s)]
      /\ entry[id].str = s /\ entry[id].target_bpp = target_bpp
  BY DEF Hit, Found, Matches
<1>2. Fingerprinted(s) \in Bucket
  BY NewEntryFacts
<1>3. entry[id].cache = c
  BY <1>1, <1>2, CacheFacts
<1>4. id \in Nat /\ id \in Range(recency[c])
  BY <1>3, CacheFacts DEF StaticInv, StaticType
<1> DEFINE list == <<id>> \o Unlinked(recency[c], id)
<1>5. /\ list \in Seq(Nat) /\ Len(list) = Len(recency[c]) /\ IsInjective(list)
      /\ Range(list) = Range(recency[c])
  <2>1. /\ Unlinked(recency[c], id) \in Seq(Nat)
        /\ Len(Unlinked(recency[c], id)) = Len(recency[c]) - 1
        /\ IsInjective(Unlinked(recency[c], id))
        /\ Range(Unlinked(recency[c], id)) = Range(recency[c]) \ {id}
    BY <1>4, CacheFacts, UnlinkedFacts, Zenon
  <2>2. id \notin Range(Unlinked(recency[c], id))
    BY <2>1
  <2>3. /\ list \in Seq(Nat) /\ Len(list) = Len(Unlinked(recency[c], id)) + 1
        /\ IsInjective(list)
        /\ Range(list) = Range(Unlinked(recency[c], id)) \cup {id}
    BY <1>4, <2>1, <2>2, EnteredFacts, Zenon
  <2>4. Len(recency[c]) \in Nat
    BY CacheFacts, LenProperties
  <2> HIDE DEF list
  <2>5. Len(list) = Len(recency[c])
    BY <2>1, <2>3, <2>4
  <2>6. Range(list) = Range(recency[c])
    BY <1>4, <2>1, <2>3
  <2> QED
    BY <2>3, <2>5, <2>6
<1> HIDE DEF list
<1>6. recency' = [recency EXCEPT ![c] = list]
  BY <1>1 DEF list
<1>7. /\ recency' \in [CacheId -> Seq(Nat)]
      /\ \A d \in CacheId : recency'[d] = IF d = c THEN list ELSE recency[d]
  BY <1>5, <1>6 DEF StaticInv, StaticType
<1>8. StaticType' /\ ArraysInv' /\ MemoryInv'
  BY <1>1, <1>7 DEF StaticInv, StaticType, ArraysInv, MemoryInv, Sound
<1>9. StructuresAgree'
  <2> SUFFICES ASSUME NEW d \in CacheId
               PROVE  /\ Range(recency'[d]) = {e \in DOMAIN entry : entry[e].cache = d}
                      /\ IsInjective(recency'[d])
                      /\ Len(recency'[d]) <= CACHE_SIZE
                      /\ \A b \in Bucket : buckets[d][b] =
                            {e \in DOMAIN entry : entry[e].cache = d /\ entry[e].bucket = b}
    BY <1>1 DEF StructuresAgree
  <2>1. /\ Range(recency'[d]) = Range(recency[d])
        /\ IsInjective(recency'[d])
        /\ Len(recency'[d]) = Len(recency[d])
    BY <1>5, <1>7, CacheFacts
  <2> QED
    BY <2>1, CacheFacts
<1> QED
  BY <1>1, <1>3, <1>8, <1>9 DEF StaticInv, Holds

(* What an eviction leaves of the live entries, of the list and of the     *)
(* chains.                                                                 *)
LEMMA EvictionFacts ==
    ASSUME StaticInv, NEW c \in CacheId
    PROVE  /\ Live(c) \subseteq DOMAIN entry
           /\ \A id \in DOMAIN entry : entry[id].cache # c => id \in Live(c)
           /\ Kept(c) \in Seq(Nat)
           /\ IsInjective(Kept(c))
           /\ Len(Kept(c)) + 1 <= CACHE_SIZE
           /\ Range(Kept(c)) = {id \in Live(c) : entry[id].cache = c}
           /\ Chains(c) \in [Bucket -> SUBSET Nat]
           /\ \A b \in Bucket :
                 Chains(c)[b] = {id \in Live(c) : entry[id].cache = c /\ entry[id].bucket = b}
<1>0. CACHE_SIZE \in Nat \ {0} /\ Len(recency[c]) \in Nat
  BY SizeAssumption, CacheFacts, LenProperties
<1>1. CASE Evicts(c)
  <2> DEFINE v == Last(recency[c])
  <2>1. Len(recency[c]) = CACHE_SIZE /\ Len(recency[c]) >= 1
    BY <1>0, <1>1 DEF Evicts
  <2>2. /\ Front(recency[c]) \in Seq(Nat)
        /\ Len(Front(recency[c])) = Len(recency[c]) - 1
        /\ IsInjective(Front(recency[c]))
        /\ v \in Range(recency[c])
        /\ Range(Front(recency[c])) = Range(recency[c]) \ {v}
    BY <2>1, CacheFacts, FrontFacts, Zenon
  <2> HIDE DEF v
  <2>3. /\ Live(c) = DOMAIN entry \ {v}
        /\ Kept(c) = Front(recency[c])
        /\ Chains(c) = [buckets[c] EXCEPT ![entry[v].bucket] = @ \ {v}]
    BY <1>1 DEF Live, Kept, Chains, Victim, v
  <2>4. v \in DOMAIN entry /\ entry[v].cache = c
    BY <2>2, CacheFacts
  <2>5. entry[v].bucket \in Bucket
    BY <2>4, EntryFields DEF StaticInv, StaticType
  <2>6. /\ Chains(c) \in [Bucket -> SUBSET Nat]
        /\ \A b \in Bucket :
              Chains(c)[b] = IF b = entry[v].bucket THEN buckets[c][b] \ {v} ELSE buckets[c][b]
    <3>1. buckets[c] \in [Bucket -> SUBSET Nat]
      BY CacheFacts
    <3> QED
      BY <2>3, <2>5, <3>1
  <2>7. ASSUME NEW b \in Bucket
        PROVE  Chains(c)[b] = {id \in Live(c) : entry[id].cache = c /\ entry[id].bucket = b}
    BY <2>3, <2>4, <2>6, CacheFacts
  <2>8. Range(Kept(c)) = {id \in Live(c) : entry[id].cache = c}
    BY <2>2, <2>3, CacheFacts
  <2>9. Len(Kept(c)) + 1 <= CACHE_SIZE
    BY <1>0, <2>1, <2>2, <2>3
  <2> QED
    BY <2>2, <2>3, <2>4, <2>6, <2>7, <2>8, <2>9
<1>2. CASE ~Evicts(c)
  <2>1. Live(c) = DOMAIN entry /\ Kept(c) = recency[c] /\ Chains(c) = buckets[c]
    BY <1>2 DEF Live, Kept, Chains
  <2>2. Len(recency[c]) + 1 <= CACHE_SIZE
    BY <1>0, <1>2, CacheFacts DEF Evicts
  <2> QED
    BY <2>1, <2>2, CacheFacts
<1> QED
  BY <1>1, <1>2

(* A miss adds one entry under an identity nobody has been given.          *)
LEMMA MissInv ==
    ASSUME StaticInv, NEW c \in CacheId, NEW s \in Str, target_bpp \in 10 .. 32,
           Miss(s, c), UNCHANGED args, NEW k, k = next_identity
    PROVE  /\ StaticInv'
           /\ Holds(k, c, s)'
           /\ \A id \in DOMAIN entry : entry[id].cache # c =>
                 id \in DOMAIN entry' /\ entry'[id] = entry[id]
<1> DEFINE new == next_identity
           b0 == Fingerprinted(s)
<1>1. /\ entry' = [i \in Live(c) \cup {new} |-> IF i = new THEN NewEntry(s, c) ELSE entry[i]]
      /\ recency' = [recency EXCEPT ![c] = <<new>> \o Kept(c)]
      /\ buckets' = [buckets EXCEPT ![c] = [Chains(c) EXCEPT ![b0] = @ \cup {new}]]
      /\ next_identity' = next_identity + 1
  BY DEF Miss, IdentityAfter
<1>2. /\ new \in Nat /\ new # 0 /\ new \notin DOMAIN entry
      /\ \A id \in DOMAIN entry : id \in 1 .. new - 1
  BY DEF StaticInv, StaticType
<1>3. /\ Live(c) \subseteq DOMAIN entry
      /\ \A id \in DOMAIN entry : entry[id].cache # c => id \in Live(c)
  BY EvictionFacts
<1>4. /\ b0 \in Bucket /\ NewEntry(s, c) \in EntryType
      /\ NewEntry(s, c).str = s /\ NewEntry(s, c).target_bpp = target_bpp
      /\ NewEntry(s, c).hashes = Decoded[s][target_bpp]
      /\ NewEntry(s, c).bucket = b0 /\ NewEntry(s, c).cache = c
      /\ \A i \in Slots : NewEntry(s, c).pairs[i].other_identity = 0
  BY NewEntryFacts
<1> HIDE DEF new, b0
<1>5. /\ DOMAIN entry' = Live(c) \cup {new}
      /\ entry'[new] = NewEntry(s, c)
      /\ \A id \in Live(c) : entry'[id] = entry[id]
  BY <1>1, <1>2, <1>3
<1>6. /\ <<new>> \o Kept(c) \in Seq(Nat)
      /\ IsInjective(<<new>> \o Kept(c))
      /\ Len(<<new>> \o Kept(c)) <= CACHE_SIZE
      /\ Range(<<new>> \o Kept(c)) = {id \in Live(c) : entry[id].cache = c} \cup {new}
  <2>1. /\ Kept(c) \in Seq(Nat) /\ IsInjective(Kept(c)) /\ Len(Kept(c)) + 1 <= CACHE_SIZE
        /\ Range(Kept(c)) = {id \in Live(c) : entry[id].cache = c}
    BY EvictionFacts
  <2>2. new \notin Range(Kept(c))
    BY <1>2, <1>3, <2>1
  <2>3. /\ <<new>> \o Kept(c) \in Seq(Nat)
        /\ Len(<<new>> \o Kept(c)) = Len(Kept(c)) + 1
        /\ IsInjective(<<new>> \o Kept(c))
        /\ Range(<<new>> \o Kept(c)) = Range(Kept(c)) \cup {new}
    BY <1>2, <2>1, <2>2, EnteredFacts, Zenon
  <2> QED
    BY <2>1, <2>3, Zenon
<1> DEFINE list == <<new>> \o Kept(c)
           chains == [Chains(c) EXCEPT ![b0] = @ \cup {new}]
<1>7. /\ chains \in [Bucket -> SUBSET Nat]
      /\ \A b \in Bucket : chains[b] = IF b = b0 THEN Chains(c)[b] \cup {new} ELSE Chains(c)[b]
  <2>1. Chains(c) \in [Bucket -> SUBSET Nat]
    BY EvictionFacts
  <2> QED
    BY <1>2, <1>4, <2>1
<1>8. recency' = [recency EXCEPT ![c] = list] /\ buckets' = [buckets EXCEPT ![c] = chains]
  BY <1>1
<1> HIDE DEF list, chains
<1>9. /\ recency' \in [CacheId -> Seq(Nat)]
      /\ \A d \in CacheId : recency'[d] = IF d = c THEN list ELSE recency[d]
  BY <1>6, <1>8 DEF StaticInv, StaticType, list
<1>10. /\ buckets' \in [CacheId -> [Bucket -> SUBSET Nat]]
       /\ \A d \in CacheId : buckets'[d] = IF d = c THEN chains ELSE buckets[d]
  BY <1>7, <1>8 DEF StaticInv, StaticType
<1>11. StaticType'
  <2>1. DOMAIN entry' \subseteq 1 .. next_identity' - 1
    <3> SUFFICES ASSUME NEW id \in DOMAIN entry' PROVE id \in 1 .. next_identity' - 1
      OBVIOUS
    <3>1. id = new \/ id \in 1 .. new - 1
      BY <1>2, <1>3, <1>5
    <3>2. next_identity' = new + 1
      BY <1>1 DEF new
    <3> QED
      BY <1>2, <3>1, <3>2
  <2>2. \A id \in DOMAIN entry' : entry'[id] \in EntryType
    BY <1>3, <1>4, <1>5 DEF StaticInv, StaticType
  <2>3. next_identity' \in Nat \ {0}
    BY <1>1, <1>2 DEF new
  <2> QED
    BY <1>9, <1>10, <2>1, <2>2, <2>3 DEF StaticType
<1>12. ArraysInv'
  <2> SUFFICES ASSUME NEW id \in DOMAIN entry'
               PROVE  entry'[id].hashes = Decoded[entry'[id].str][entry'[id].target_bpp]
    BY DEF ArraysInv
  <2>1. CASE id = new
    BY <1>4, <1>5, <2>1
  <2>2. CASE id # new
    <3>1. id \in DOMAIN entry /\ entry'[id] = entry[id]
      BY <1>3, <1>5, <2>2
    <3> QED
      BY <3>1 DEF StaticInv, ArraysInv
  <2> QED
    BY <2>1, <2>2
<1>13. MemoryInv'
  <2> SUFFICES ASSUME NEW id1 \in DOMAIN entry', entry'[id1].cache = 0, NEW i \in Slots
               PROVE  Sound(id1, entry[id1].pairs[i])'
    BY DEF MemoryInv
  <2> DEFINE p == entry'[id1].pairs[i]
  <2>0. next_identity' = new + 1 /\ next_identity = new
    BY <1>1 DEF new
  <2>1. CASE id1 = new
    <3>1. p.other_identity = 0
      BY <1>4, <1>5, <2>1
    <3>2. 0 \notin DOMAIN entry'
      BY <1>2, <1>3, <1>5
    <3>3. 0 < new + 1
      BY <1>2
    <3> QED
      BY <2>0, <3>1, <3>2, <3>3 DEF Sound
  <2>2. CASE id1 # new
    <3>1. id1 \in DOMAIN entry /\ entry'[id1] = entry[id1]
      BY <1>3, <1>5, <2>2
    <3>2. Sound(id1, entry[id1].pairs[i])
      BY <3>1 DEF StaticInv, MemoryInv
    <3>3. p = entry[id1].pairs[i]
      BY <3>1
    <3>4. p.other_identity < new /\ p.other_identity \in Nat
      BY <2>0, <3>1, <3>2, <3>3, EntryFields DEF Sound, StaticInv, StaticType
    <3> HIDE DEF p
    <3>5. p.other_identity < new + 1 /\ p.other_identity # new
      BY <1>2, <3>4
    <3>6. ASSUME p.other_identity \in DOMAIN entry'
          PROVE  /\ p.other_identity \in DOMAIN entry
                 /\ entry'[p.other_identity] = entry[p.other_identity]
      BY <1>3, <1>5, <3>5, <3>6
    <3> QED
      BY <2>0, <3>1, <3>2, <3>3, <3>5, <3>6 DEF Sound, p
  <2> QED
    BY <2>1, <2>2
<1>14. StructuresAgree'
  <2> SUFFICES ASSUME NEW d \in CacheId
               PROVE  /\ Range(recency'[d]) = {id \in DOMAIN entry' : entry'[id].cache = d}
                      /\ IsInjective(recency'[d])
                      /\ Len(recency'[d]) <= CACHE_SIZE
                      /\ \A b \in Bucket : buckets'[d][b] =
                            {id \in DOMAIN entry' : entry'[id].cache = d /\ entry'[id].bucket = b}
    BY DEF StructuresAgree
  <2>1. CASE d = c
    <3>1. recency'[d] = list /\ buckets'[d] = chains
      BY <1>9, <1>10, <2>1
    <3>2. Range(list) = {id \in DOMAIN entry' : entry'[id].cache = d}
      BY <1>4, <1>5, <1>6, <2>1 DEF list
    <3>3. IsInjective(list) /\ Len(list) <= CACHE_SIZE
      BY <1>6 DEF list
    <3>4. ASSUME NEW b \in Bucket
          PROVE  chains[b] = {id \in DOMAIN entry' : entry'[id].cache = d /\ entry'[id].bucket = b}
      <4>1. Chains(c)[b] = {id \in Live(c) : entry[id].cache = c /\ entry[id].bucket = b}
        BY EvictionFacts
      <4>2. {id \in DOMAIN entry' : entry'[id].cache = d /\ entry'[id].bucket = b}
              = Chains(c)[b] \cup (IF b = b0 THEN {new} ELSE {})
        BY <1>4, <1>5, <2>1, <4>1
      <4> QED
        BY <1>7, <4>2
    <3> QED
      BY <3>1, <3>2, <3>3, <3>4
  <2>2. CASE d # c
    <3>1. recency'[d] = recency[d] /\ buckets'[d] = buckets[d]
      BY <1>9, <1>10, <2>2
    <3>2. ASSUME NEW id
          PROVE  (id \in DOMAIN entry' /\ entry'[id].cache = d)
                    <=> (id \in DOMAIN entry /\ entry[id].cache = d)
      BY <1>2, <1>3, <1>4, <1>5, <2>2
    <3>3. ASSUME NEW id \in DOMAIN entry, entry[id].cache = d PROVE entry'[id] = entry[id]
      BY <1>3, <1>5, <2>2, <3>3
    <3>4. {id \in DOMAIN entry' : entry'[id].cache = d} = {id \in DOMAIN entry : entry[id].cache = d}
      BY <3>2
    <3>5. ASSUME NEW b \in Bucket
          PROVE  {id \in DOMAIN entry' : entry'[id].cache = d /\ entry'[id].bucket = b}
                    = {id \in DOMAIN entry : entry[id].cache = d /\ entry[id].bucket = b}
      BY <3>2, <3>3
    <3> QED
      BY <3>1, <3>4, <3>5, CacheFacts
  <2> QED
    BY <2>1, <2>2
<1>15. Holds(k, c, s)'
  <2>1. target_bpp' = target_bpp
    BY DEF target_bpp, str1, str2
  <2> QED
    BY <1>4, <1>5, <2>1 DEF Holds, new
<1>16. \A id \in DOMAIN entry : entry[id].cache # c =>
           id \in DOMAIN entry' /\ entry'[id] = entry[id]
  BY <1>3, <1>5
<1> QED
  BY <1>11, <1>12, <1>13, <1>14, <1>15, <1>16 DEF StaticInv

-----------------------------------------------------------------------------
(* The steps of a call.                                                    *)

(* The two strings are what the actions compare.                           *)
LEMMA Operands ==
    ASSUME TypeOK, pc # "done"
    PROVE  str1 \in Str /\ str2 \in Str
  BY ArgAssumption DEF TypeOK, str1, str2

LEMMA Precision ==
    ASSUME PrecisionInv, Fetching
    PROVE  target_bpp \in 10 .. 32
  BY DEF PrecisionInv, target_bpp

(* The caches say the same while they are left alone.                      *)
LEMMA StaticKept == StaticInv /\ UNCHANGED static => StaticInv'
  BY DEF StaticInv, StaticType, ArraysInv, MemoryInv, Sound, StructuresAgree, static

LEMMA InitInv == Init => IInv
<1> SUFFICES ASSUME Init PROVE IInv
  OBVIOUS
<1>1. /\ next_identity = 1 /\ DOMAIN entry = {} /\ pc = "done"
      /\ recency = [c \in CacheId |-> <<>>]
      /\ buckets = [c \in CacheId |-> [b \in Bucket |-> {}]]
  BY DEF Init
<1>2. StaticType
  <2>1. <<>> \in Seq(Nat)
    OBVIOUS
  <2> QED
    BY <1>1, <2>1 DEF StaticType
<1>3. ArraysInv /\ MemoryInv
  BY <1>1 DEF ArraysInv, MemoryInv
<1>4. StructuresAgree
  <2>1. Range(<<>>) = {} /\ IsInjective(<<>>) /\ Len(<<>>) = 0
    BY DEF Range, IsInjective
  <2> SUFFICES ASSUME NEW c \in CacheId
               PROVE  /\ Range(recency[c]) = {id \in DOMAIN entry : entry[id].cache = c}
                      /\ IsInjective(recency[c])
                      /\ Len(recency[c]) <= CACHE_SIZE
                      /\ \A b \in Bucket : buckets[c][b] =
                            {id \in DOMAIN entry : entry[id].cache = c /\ entry[id].bucket = b}
    BY DEF StructuresAgree
  <2>2. recency[c] = <<>> /\ \A b \in Bucket : buckets[c][b] = {}
    BY <1>1
  <2> QED
    BY <1>1, <2>1, <2>2, SizeAssumption
<1>5. TypeOK /\ PrecisionInv /\ HeldInv
  BY <1>1, <1>2 DEF TypeOK, PrecisionInv, Fetching, HeldInv
<1> QED
  BY <1>2, <1>3, <1>4, <1>5 DEF IInv, StaticInv

(* A call that has ended asks nothing of the entries.                      *)
LEMMA FinishInv ==
    ASSUME StaticInv', NEW value, Finish(value)
    PROVE  IInv'
  BY DEF IInv, StaticInv, TypeOK, Finish, PrecisionInv, Fetching, HeldInv

LEMMA CallInv ==
    ASSUME IInv, NEW arg1 \in Arg, NEW arg2 \in Arg, Call(arg1, arg2)
    PROVE  IInv'
<1>1. UNCHANGED static /\ pc' = "headers" /\ args' = <<arg1, arg2>>
  BY DEF Call
<1>2. StaticInv'
  BY <1>1, StaticKept DEF IInv
<1> QED
  BY <1>1, <1>2 DEF IInv, StaticInv, TypeOK, PrecisionInv, Fetching, HeldInv

LEMMA CheckHeadersInv == IInv /\ CheckHeaders => IInv'
<1> SUFFICES ASSUME IInv, CheckHeaders PROVE IInv'
  OBVIOUS
<1>1. StaticInv'
  BY StaticKept DEF IInv, CheckHeaders
<1>2. CASE ~set_meta_ok(str1)
  BY <1>1, <1>2, FinishInv DEF CheckHeaders
<1>3. CASE set_meta_ok(str1) /\ ~set_meta_ok(str2)
  BY <1>1, <1>3, FinishInv DEF CheckHeaders
<1>4. CASE set_meta_ok(str1) /\ set_meta_ok(str2)
  <2>1. pc = "headers" /\ pc' = "fetch1" /\ UNCHANGED args
    BY <1>4 DEF CheckHeaders
  <2>2. str1.bpp \in 10 .. 32 /\ str2.bpp \in 10 .. 32
    BY <1>4 DEF set_meta_ok
  <2> QED
    BY <1>1, <2>1, <2>2 DEF IInv, StaticInv, TypeOK, PrecisionInv, HeldInv, str1, str2
<1> QED
  BY <1>2, <1>3, <1>4

LEMMA Fetch1Inv == IInv /\ Fetch1 => IInv'
<1> SUFFICES ASSUME IInv, Fetch1 PROVE IInv'
  OBVIOUS
<1>0. pc = "fetch1" /\ StaticInv /\ TypeOK /\ PrecisionInv
  BY DEF IInv, Fetch1
<1>1. /\ str1 \in Str /\ target_bpp \in 10 .. 32
      /\ str1.bpp \in 10 .. 32 /\ str2.bpp \in 10 .. 32
  BY <1>0, Operands, Precision DEF Fetching, PrecisionInv
<1>2. CASE Undecodable(str1, 0) /\ Finish(-3) /\ UNCHANGED static
  BY <1>0, <1>2, StaticKept, FinishInv
<1>3. ASSUME StaticInv', pc' = "same", UNCHANGED <<args, entry2, result>>, Holds(entry1, 0, str1)'
      PROVE  IInv'
  BY <1>0, <1>1, <1>3 DEF IInv, StaticInv, TypeOK, PrecisionInv, HeldInv, str1, str2
<1>4. ASSUME NEW id \in DOMAIN entry, Hit(str1, 0, id), entry1' = id,
             pc' = "same", UNCHANGED <<args, entry2, result>>
      PROVE  IInv'
  <2>1. PICK s \in Str : s = str1
    BY <1>1
  <2>2. StaticInv' /\ Holds(id, 0, s) /\ UNCHANGED <<next_identity, entry>>
    BY <1>0, <1>1, <1>4, <2>1, HitInv DEF CacheId
  <2>3. Holds(entry1, 0, str1)'
    BY <1>4, <2>1, <2>2 DEF Holds, target_bpp, str1, str2
  <2> QED
    BY <1>3, <1>4, <2>2, <2>3
<1>5. ASSUME Miss(str1, 0), entry1' = next_identity,
             pc' = "same", UNCHANGED <<args, entry2, result>>
      PROVE  IInv'
  <2>1. PICK s \in Str : s = str1
    BY <1>1
  <2>2. PICK k : k = next_identity
    OBVIOUS
  <2>3. StaticInv' /\ Holds(k, 0, s)'
    BY <1>0, <1>1, <1>5, <2>1, <2>2, MissInv DEF CacheId
  <2>4. Holds(entry1, 0, str1)'
    BY <1>5, <2>1, <2>2, <2>3 DEF Holds, str1
  <2> QED
    BY <1>3, <1>5, <2>3, <2>4
<1> QED
  BY <1>2, <1>4, <1>5 DEF Fetch1

LEMMA SameStringInv == IInv /\ SameString => IInv'
<1> SUFFICES ASSUME IInv, SameString PROVE IInv'
  OBVIOUS
<1>1. StaticInv'
  BY StaticKept DEF IInv, SameString
<1>2. CASE str1 = str2
  BY <1>1, <1>2, FinishInv DEF SameString
<1>3. CASE str1 # str2
  <2>1. pc = "same" /\ pc' = "fetch2" /\ UNCHANGED <<static, args, entry1, entry2, result>>
    BY <1>3 DEF SameString
  <2>2. TypeOK' /\ PrecisionInv'
    BY <1>1, <2>1 DEF IInv, StaticInv, TypeOK, PrecisionInv, Fetching, str1, str2
  <2>3. HeldInv'
    BY <2>1 DEF IInv, HeldInv, Holds, static, target_bpp, str1, str2
  <2> QED
    BY <1>1, <2>2, <2>3 DEF IInv
<1> QED
  BY <1>2, <1>3

(* The second fetch leaves the entry of the first alone: it is of the      *)
(* other cache.                                                            *)
LEMMA Fetch2Inv == IInv /\ Fetch2 => IInv'
<1> SUFFICES ASSUME IInv, Fetch2 PROVE IInv'
  OBVIOUS
<1>0. pc = "fetch2" /\ StaticInv /\ TypeOK /\ PrecisionInv /\ Holds(entry1, 0, str1)
  BY DEF IInv, Fetch2, HeldInv
<1>1. /\ str2 \in Str /\ target_bpp \in 10 .. 32
      /\ str1.bpp \in 10 .. 32 /\ str2.bpp \in 10 .. 32
  BY <1>0, Operands, Precision DEF Fetching, PrecisionInv
<1>2. CASE Undecodable(str2, SecondCache) /\ Finish(-4) /\ UNCHANGED static
  BY <1>0, <1>2, StaticKept, FinishInv
<1>3. ASSUME StaticInv', pc' = "pair", UNCHANGED <<args, entry1, result>>,
             Holds(entry1, 0, str1)', Holds(entry2, 1, str2)'
      PROVE  IInv'
  BY <1>0, <1>1, <1>3 DEF IInv, StaticInv, TypeOK, PrecisionInv, HeldInv, str1, str2
<1>4. ASSUME NEW id \in DOMAIN entry, Hit(str2, 1, id), entry2' = id,
             pc' = "pair", UNCHANGED <<args, entry1, result>>
      PROVE  IInv'
  <2>1. PICK s \in Str : s = str2
    BY <1>1
  <2>2. StaticInv' /\ Holds(id, 1, s) /\ UNCHANGED <<next_identity, entry>>
    BY <1>0, <1>1, <1>4, <2>1, HitInv DEF CacheId
  <2>3. Holds(entry2, 1, str2)'
    BY <1>4, <2>1, <2>2 DEF Holds, target_bpp, str1, str2
  <2>4. Holds(entry1, 0, str1)'
    BY <1>0, <1>4, <2>2 DEF Holds, target_bpp, str1, str2
  <2> QED
    BY <1>3, <1>4, <2>2, <2>3, <2>4
<1>5. ASSUME Miss(str2, 1), entry2' = next_identity,
             pc' = "pair", UNCHANGED <<args, entry1, result>>
      PROVE  IInv'
  <2>1. PICK s \in Str : s = str2
    BY <1>1
  <2>2. PICK k : k = next_identity
    OBVIOUS
  <2>3. /\ StaticInv' /\ Holds(k, 1, s)'
        /\ \A id \in DOMAIN entry : entry[id].cache # 1 =>
              id \in DOMAIN entry' /\ entry'[id] = entry[id]
    BY <1>0, <1>1, <1>5, <2>1, <2>2, MissInv DEF CacheId
  <2>4. Holds(entry2, 1, str2)'
    BY <1>5, <2>1, <2>2, <2>3 DEF Holds, str2
  <2>5. Holds(entry1, 0, str1)'
    BY <1>0, <1>5, <2>3 DEF Holds, target_bpp, str1, str2
  <2> QED
    BY <1>3, <1>5, <2>3, <2>4, <2>5
<1> QED
  BY <1>2, <1>4, <1>5 DEF Fetch2, SecondCache

LEMMA RecallInv == IInv /\ Recall => IInv'
  BY StaticKept, FinishInv DEF Recall, IInv

(* Storing a result: the two entries live, and the result is theirs.       *)
LEMMA CompareInv == IInv /\ Compare => IInv'
<1> SUFFICES ASSUME IInv, Compare PROVE IInv'
  OBVIOUS
<1> DEFINE value == Relation(entry[entry1].hashes, entry[entry2].hashes)
           pair == [other_identity |-> entry2, result |-> value]
<1>0. /\ StaticInv /\ TypeOK
      /\ Holds(entry1, 0, str1) /\ Holds(entry2, 1, str2)
  BY DEF IInv, Compare, HeldInv
<1>1. /\ entry' = [entry EXCEPT ![entry1] = Stored(entry[entry1], pair)]
      /\ UNCHANGED <<next_identity, recency, buckets>>
      /\ Finish(value)
  BY <1>0 DEF Compare, Storing, Stored, Holds
<1>2. /\ entry1 \in DOMAIN entry /\ entry2 \in DOMAIN entry
      /\ entry[entry1].cache = 0 /\ entry[entry2].cache = 1
      /\ entry[entry1] \in EntryType /\ entry[entry2] \in EntryType
      /\ entry2 \in Nat /\ entry2 < next_identity
  BY <1>0 DEF Holds, StaticInv, StaticType
<1>3. pair \in PairType
  <2>1. value \in AllResults
    BY <1>2, EntryFields DEF AllResults
  <2> HIDE DEF value
  <2> QED
    BY <1>2, <2>1 DEF PairType
<1>4. pair.other_identity = entry2 /\ pair.result = value
  OBVIOUS
<1> HIDE DEF value, pair
<1>5. /\ Stored(entry[entry1], pair) \in EntryType
      /\ Stored(entry[entry1], pair).str = entry[entry1].str
      /\ Stored(entry[entry1], pair).target_bpp = entry[entry1].target_bpp
      /\ Stored(entry[entry1], pair).hashes = entry[entry1].hashes
      /\ Stored(entry[entry1], pair).bucket = entry[entry1].bucket
      /\ Stored(entry[entry1], pair).cache = entry[entry1].cache
      /\ \A i \in Slots : \/ Stored(entry[entry1], pair).pairs[i] = pair
                           \/ Stored(entry[entry1], pair).pairs[i] = entry[entry1].pairs[i]
  BY <1>2, <1>3, StoredFacts
<1>6. /\ DOMAIN entry' = DOMAIN entry
      /\ entry'[entry1] = Stored(entry[entry1], pair)
      /\ \A id \in DOMAIN entry : id # entry1 => entry'[id] = entry[id]
  BY <1>1, <1>2
<1>7. \A id \in DOMAIN entry :
          /\ entry'[id] \in EntryType
          /\ entry'[id].str = entry[id].str /\ entry'[id].target_bpp = entry[id].target_bpp
          /\ entry'[id].hashes = entry[id].hashes /\ entry'[id].bucket = entry[id].bucket
          /\ entry'[id].cache = entry[id].cache
  BY <1>0, <1>5, <1>6 DEF StaticInv, StaticType
<1>8. StaticType'
  BY <1>0, <1>1, <1>6, <1>7 DEF StaticInv, StaticType
<1>9. ArraysInv'
  BY <1>0, <1>6, <1>7 DEF StaticInv, ArraysInv
<1>10. StructuresAgree'
  BY <1>0, <1>1, <1>6, <1>7 DEF StaticInv, StructuresAgree
<1>11. MemoryInv'
  <2> SUFFICES ASSUME NEW id1 \in DOMAIN entry', entry'[id1].cache = 0, NEW i \in Slots
               PROVE  Sound(id1, entry[id1].pairs[i])'
    BY DEF MemoryInv
  <2>1. id1 \in DOMAIN entry /\ entry[id1].cache = 0
    BY <1>6, <1>7
  <2>2. CASE id1 = entry1 /\ entry'[id1].pairs[i] = pair
    BY <1>1, <1>2, <1>4, <1>6, <1>7, <2>2 DEF Sound, value
  <2>3. CASE entry'[id1].pairs[i] = entry[id1].pairs[i]
    <3>1. Sound(id1, entry[id1].pairs[i])
      BY <1>0, <2>1 DEF StaticInv, MemoryInv
    <3> QED
      BY <1>1, <1>6, <1>7, <2>1, <2>3, <3>1 DEF Sound
  <2> QED
    BY <1>5, <1>6, <2>1, <2>2, <2>3
<1>12. StaticInv'
  BY <1>8, <1>9, <1>10, <1>11 DEF StaticInv
<1> QED
  BY <1>1, <1>12, FinishInv

LEMMA StutterInv == IInv /\ UNCHANGED vars => IInv'
<1> SUFFICES ASSUME IInv, UNCHANGED vars PROVE IInv'
  OBVIOUS
<1>1. StaticInv' /\ StaticType'
  BY StaticKept DEF IInv, StaticInv, vars
<1> QED
  BY <1>1 DEF IInv, TypeOK, PrecisionInv, Fetching, HeldInv, Holds, target_bpp, str1, str2,
              vars, static

LEMMA NextInv == IInv /\ [Next]_vars => IInv'
  BY CheckHeadersInv, Fetch1Inv, SameStringInv, Fetch2Inv, RecallInv, CompareInv, StutterInv,
     CallInv DEF Next, Rest

(* The invariant, for caches of any size.                                  *)
LEMMA Invariance == Spec => []IInv
  BY InitInv, NextInv, PTL DEF Spec

-----------------------------------------------------------------------------
(* No remembered result is ever that of another pair of entries: evictions *)
(* leave names behind, but no name is given twice (hash_set.c:800-860).    *)
THEOREM MemoryCorrect == Spec => []MemorySound
<1>1. IInv => MemorySound
  <2> SUFFICES ASSUME IInv, NEW id1 \in DOMAIN entry, NEW id2 \in DOMAIN entry,
                      NEW i \in DOMAIN entry[id1].pairs, entry[id1].cache = 0,
                      entry[id1].pairs[i].other_identity = id2
               PROVE  /\ entry[id2].cache = 1
                      /\ entry[id1].pairs[i].result =
                            Relation(entry[id1].hashes, entry[id2].hashes)
    BY DEF MemorySound
  <2>1. i \in Slots
    BY EntryFields DEF IInv, StaticInv, StaticType
  <2> QED
    BY <2>1 DEF IInv, StaticInv, MemoryInv, Sound
<1> QED
  BY <1>1, Invariance, PTL

(* The entries a comparison holds live on and are those of its operands,   *)
(* whatever the second fetch evicted (hash_set.c:947-966).                 *)
THEOREM HeldCorrect == Spec => []HeldEntries
<1>1. IInv => HeldEntries
  BY DEF IInv, HeldInv, Holds, HeldEntries, StaticInv, ArraysInv
<1> QED
  BY <1>1, Invariance, PTL

(* A cache lists its live entries once, and each is in the chain that is   *)
(* searched for it, through hits, misses and evictions                     *)
(* (hash_set.c:766-797, 865-883).                                          *)
THEOREM StructuresCorrect == Spec => []StructuresAgree
<1>1. IInv => StructuresAgree
  BY DEF IInv, StaticInv
<1> QED
  BY <1>1, Invariance, PTL

-----------------------------------------------------------------------------
(* The answer: rpmsetcmp implements SetVersion.                            *)

(* What the steps of a call that are over say of the strings; what does    *)
(* not decode is not cached.                                               *)
AnswerInv ==
    /\ \A id \in DOMAIN entry : entry[id].str.values # <<>>
    /\ pc # "done" => \E arg1, arg2 \in Arg : args = <<arg1, arg2>>
    /\ Fetching => set_meta_ok(str1) /\ set_meta_ok(str2)
    /\ pc \in {"same", "fetch2", "pair"} => str1.values # <<>>
    /\ pc = "pair" => str2.values # <<>>

RefineInv == IInv /\ AnswerInv

(* A fetch that succeeds has a string that decodes.                        *)
LEMMA FetchedDecodes ==
    ASSUME IInv, AnswerInv, Fetching, NEW c \in CacheId, NEW s \in Str,
           (\E id \in DOMAIN entry : Hit(s, c, id)) \/ Miss(s, c)
    PROVE  /\ s.values # <<>>
           /\ \A id \in DOMAIN entry' : entry'[id].str.values # <<>>
<1>1. CASE \E id \in DOMAIN entry : Hit(s, c, id)
  <2>1. PICK id \in DOMAIN entry : Hit(s, c, id)
    BY <1>1
  <2>2. id \in Found(s, c) /\ entry' = entry
    BY <2>1 DEF Hit
  <2>3. entry[id].str = s
    BY <2>2 DEF Found, Matches
  <2> QED
    BY <2>2, <2>3 DEF AnswerInv
<1>2. CASE Miss(s, c)
  <2> DEFINE k == next_identity
  <2>1. /\ s.values # <<>>
        /\ entry' = [i \in Live(c) \cup {k} |-> IF i = k THEN NewEntry(s, c) ELSE entry[i]]
    BY <1>2 DEF Miss
  <2>2. Live(c) \subseteq DOMAIN entry
    BY EvictionFacts DEF IInv
  <2>3. NewEntry(s, c).str = s
    BY DEF NewEntry
  <2> QED
    BY <2>1, <2>2, <2>3 DEF AnswerInv
<1> QED
  BY <1>1, <1>2

LEMMA AnswerNext == RefineInv /\ [Next]_vars => RefineInv'
<1> SUFFICES ASSUME IInv, AnswerInv, [Next]_vars PROVE AnswerInv'
  BY NextInv DEF RefineInv
<1>1. ASSUME args' = args PROVE str1' = str1 /\ str2' = str2
  BY <1>1 DEF str1, str2
<1>2. ASSUME entry' = entry, NEW value, Finish(value) PROVE AnswerInv'
  BY <1>2 DEF AnswerInv, Finish, Fetching
<1>3. CASE CheckHeaders
  <2>1. entry' = entry
    BY <1>3 DEF CheckHeaders, static
  <2>2. CASE pc' = "fetch1" /\ args' = args /\ set_meta_ok(str1) /\ set_meta_ok(str2) /\ pc = "headers"
    BY <2>1, <2>2, <1>1 DEF AnswerInv, Fetching
  <2> QED
    BY <2>1, <2>2, <1>2, <1>3 DEF CheckHeaders
<1>4. CASE Fetch1
  <2>1. pc = "fetch1" /\ Fetching /\ 0 \in CacheId /\ str1 \in Str
    BY <1>4, Operands DEF Fetch1, Fetching, CacheId, IInv
  <2>2. CASE Undecodable(str1, 0) /\ Finish(-3) /\ UNCHANGED static
    BY <2>2, <1>2 DEF static
  <2>3. CASE ((\E id \in DOMAIN entry : Hit(str1, 0, id)) \/ Miss(str1, 0))
             /\ pc' = "same" /\ UNCHANGED <<args, entry2, result>>
    BY <2>1, <2>3, <1>1, FetchedDecodes DEF AnswerInv, Fetching
  <2> QED
    BY <2>2, <2>3, <1>4 DEF Fetch1
<1>5. CASE SameString
  <2>1. entry' = entry
    BY <1>5 DEF SameString, static
  <2>2. CASE Finish(0)
    BY <2>1, <2>2, <1>2
  <2>3. CASE pc = "same" /\ pc' = "fetch2" /\ args' = args
    BY <2>1, <2>3, <1>1 DEF AnswerInv, Fetching
  <2> QED
    BY <2>2, <2>3, <1>5 DEF SameString
<1>6. CASE Fetch2
  <2>1. pc = "fetch2" /\ Fetching /\ SecondCache \in CacheId /\ str2 \in Str
    BY <1>6, Operands DEF Fetch2, Fetching, CacheId, SecondCache, IInv
  <2>2. CASE Undecodable(str2, SecondCache) /\ Finish(-4) /\ UNCHANGED static
    BY <2>2, <1>2 DEF static
  <2>3. CASE ((\E id \in DOMAIN entry : Hit(str2, SecondCache, id)) \/ Miss(str2, SecondCache))
             /\ pc' = "pair" /\ UNCHANGED <<args, entry1, result>>
    BY <2>1, <2>3, <1>1, FetchedDecodes DEF AnswerInv, Fetching
  <2> QED
    BY <2>2, <2>3, <1>6 DEF Fetch2
<1>7. CASE Recall
  BY <1>7, <1>2 DEF Recall, static
<1>8. CASE Compare
  <2>1. \A id \in DOMAIN entry : entry[id].str.values # <<>>
    BY DEF AnswerInv
  <2>2. /\ DOMAIN entry' = DOMAIN entry
        /\ \A id \in DOMAIN entry : entry'[id].str = entry[id].str
    <3> DEFINE pair == [other_identity |-> entry2,
                        result |-> Relation(entry[entry1].hashes, entry[entry2].hashes)]
    <3>1. entry' = [entry EXCEPT ![entry1] =
                       [@ EXCEPT !.pairs[entry[entry1].pair_next] = pair,
                                 !.pair_next = (entry[entry1].pair_next + 1) % PAIR_CACHE_SIZE]]
      BY <1>8 DEF Compare, Storing
    <3> HIDE DEF pair
    <3> QED
      BY <3>1
  <2>3. \E value : Finish(value)
    BY <1>8 DEF Compare
  <2>4. pc' = "done"
    BY <2>3 DEF Finish
  <2> QED
    BY <2>1, <2>2, <2>4 DEF AnswerInv, Fetching
<1>9. CASE UNCHANGED vars
  BY <1>9, <1>1 DEF AnswerInv, Fetching, vars, static
<1>10. CASE \E arg1, arg2 \in Arg : Call(arg1, arg2)
  <2>1. PICK arg1 \in Arg, arg2 \in Arg : Call(arg1, arg2)
    BY <1>10
  <2>2. entry' = entry /\ pc' = "headers" /\ args' = <<arg1, arg2>>
    BY <2>1 DEF Call, static
  <2> QED
    BY <2>2 DEF AnswerInv, Fetching
<1> QED
  BY <1>3, <1>4, <1>5, <1>6, <1>7, <1>8, <1>9, <1>10 DEF Next, Rest

(* What SetVersion makes of a string of this format.                       *)
LEMMA PlainFacts ==
    ASSUME NEW s
    PROVE  /\ Promise!set_meta_init(Plain(s)) <=> set_meta_ok(s)
           /\ Promise!Malformed(Plain(s)) <=> s.values = <<>>
           /\ \A t : Promise!Truncated(Plain(s), t) = {s.values[i] % 2^t : i \in DOMAIN s.values}
           /\ set_meta_ok(s) => Plain(s).bpp = s.bpp
<1>1. /\ Plain(s).bpp = IF set_meta_ok(s) THEN s.bpp ELSE 0
      /\ Plain(s).Mshift = 7 /\ Plain(s).len = 2 /\ Plain(s).values = s.values
  BY DEF Plain
<1>2. Promise!set_meta_init(Plain(s)) <=> set_meta_ok(s)
  <2>1. CASE set_meta_ok(s)
    <3>1. Plain(s).bpp \in 10 .. 32
      BY <2>1, <1>1 DEF set_meta_ok
    <3> QED
      BY <3>1, <2>1, <1>1 DEF Promise!set_meta_init, Promise!SET_BPP_MIN, Promise!SET_BPP_MAX,
         Promise!SET_MSHIFT_MIN, Promise!SET_MSHIFT_MAX
  <2>2. CASE ~set_meta_ok(s)
    BY <2>2, <1>1 DEF Promise!set_meta_init, Promise!SET_BPP_MIN, Promise!SET_BPP_MAX
  <2> QED
    BY <2>1, <2>2
<1>3. Promise!value_capacity(Plain(s)) = 1
  <2>1. (2 * 6) \div (7 + 1) = 1
    BY SMT
  <2> QED
    BY <2>1, <1>1 DEF Promise!value_capacity, Promise!BASE62_VALUE_BITS
<1>4. Promise!Malformed(Plain(s)) <=> s.values = <<>>
  BY <1>1, <1>3 DEF Promise!Malformed
<1>5. \A t : Promise!Truncated(Plain(s), t) = {s.values[i] % 2^t : i \in DOMAIN s.values}
  BY <1>1 DEF Promise!Truncated
<1> QED
  BY <1>1, <1>2, <1>4, <1>5

(* The counts and the walk of sorted_subset decide how two sets compare.   *)
LEMMA RelationIsVerdict ==
    ASSUME NEW a \in Seq(Nat), NEW b \in Seq(Nat), Ascending(a), Ascending(b)
    PROVE  Relation(a, b) = Promise!Verdict(Range(a), Range(b))
<1>0. Len(a) \in Nat /\ Len(b) \in Nat
  OBVIOUS
<1>1. CASE Len(a) = Len(b)
  <2>1. /\ a = b <=> Range(a) = Range(b)
        /\ Range(a) \subseteq Range(b) => a = b
        /\ Range(b) \subseteq Range(a) => b = a
    BY <1>1, LengthsDecide
  <2>2. Relation(a, b) = IF a = b THEN 0 ELSE -2
    BY <1>0, <1>1 DEF Relation
  <2>3. Promise!Verdict(Range(a), Range(b)) = IF a = b THEN 0 ELSE -2
    BY <2>1, Zenon DEF Promise!Verdict
  <2> QED
    BY <2>2, <2>3
<1>2. CASE Len(a) > Len(b)
  <2>1. ~(Range(a) \subseteq Range(b))
    BY <1>2, LengthsDecide
  <2>2. Relation(a, b) = IF Range(b) \subseteq Range(a) THEN 1 ELSE -2
    BY <1>0, <1>2, SubsetCorrect DEF Relation, Included
  <2> QED
    BY <2>1, <2>2 DEF Promise!Verdict
<1>3. CASE Len(a) < Len(b)
  <2>1. ~(Range(b) \subseteq Range(a))
    BY <1>0, <1>3, LengthsDecide
  <2>2. Relation(a, b) = IF Range(a) \subseteq Range(b) THEN -1 ELSE -2
    BY <1>0, <1>3, SubsetCorrect DEF Relation, Included
  <2> QED
    BY <2>1, <2>2 DEF Promise!Verdict
<1> QED
  BY <1>0, <1>1, <1>2, <1>3

(* The two held entries compare as the sets of their strings.              *)
LEMMA PairAnswer ==
    ASSUME RefineInv, pc = "pair"
    PROVE  Relation(entry[entry1].hashes, entry[entry2].hashes) =
              Promise!Verdict(Promise!Truncated(Plain(str1), target_bpp),
                              Promise!Truncated(Plain(str2), target_bpp))
<1>1. /\ str1 \in Str /\ str2 \in Str
      /\ set_meta_ok(str1) /\ set_meta_ok(str2) /\ str1.values # <<>> /\ str2.values # <<>>
  BY Operands DEF RefineInv, IInv, AnswerInv, Fetching
<1>2. target_bpp \in 10 .. str1.bpp /\ target_bpp \in 10 .. str2.bpp
  <2>1. str1.bpp \in 10 .. 32 /\ str2.bpp \in 10 .. 32
    BY <1>1 DEF set_meta_ok
  <2>2. target_bpp = IF str2.bpp < str1.bpp THEN str2.bpp ELSE str1.bpp
    BY DEF target_bpp
  <2> QED
    BY <2>1, <2>2
<1>3. /\ entry[entry1].hashes = Decoded[str1][target_bpp]
      /\ entry[entry2].hashes = Decoded[str2][target_bpp]
  BY DEF RefineInv, IInv, HeldInv, Holds, StaticInv, ArraysInv
<1> DEFINE a == Decoded[str1][target_bpp]
           b == Decoded[str2][target_bpp]
<1>4. /\ a \in Seq(Nat) /\ Ascending(a)
      /\ Range(a) = {str1.values[i] % 2^target_bpp : i \in DOMAIN str1.values}
  BY <1>1, <1>2, DecodedAssumption
<1>5. /\ b \in Seq(Nat) /\ Ascending(b)
      /\ Range(b) = {str2.values[i] % 2^target_bpp : i \in DOMAIN str2.values}
  BY <1>1, <1>2, DecodedAssumption
<1>6. /\ Range(a) = Promise!Truncated(Plain(str1), target_bpp)
      /\ Range(b) = Promise!Truncated(Plain(str2), target_bpp)
  BY <1>4, <1>5, PlainFacts
<1> HIDE DEF a, b
<1>7. Relation(a, b) = Promise!Verdict(Range(a), Range(b))
  BY <1>4, <1>5, RelationIsVerdict
<1> QED
  BY <1>3, <1>6, <1>7 DEF a, b

(* What is remembered of the held pair is their relation.                  *)
LEMMA RecallAnswer ==
    ASSUME RefineInv, pc = "pair", Remembered # {}
    PROVE  entry[entry1].pairs[Min(Remembered)].result =
              Relation(entry[entry1].hashes, entry[entry2].hashes)
<1>1. /\ entry1 \in DOMAIN entry /\ entry[entry1].cache = 0
      /\ entry2 \in DOMAIN entry /\ entry[entry1] \in EntryType
      /\ PAIR_CACHE_SIZE \in Nat
  BY SizeAssumption DEF RefineInv, IInv, HeldInv, Holds, TypeOK, StaticType
<1>2. DOMAIN entry[entry1].pairs = Slots
  BY <1>1, EntryFields
<1>3. Remembered \subseteq Nat /\ Remembered \subseteq Slots
  BY <1>1, <1>2 DEF Remembered, Slots
<1>4. Min(Remembered) \in Remembered
  <2>1. PICK x \in Remembered : \A y \in Remembered : x <= y
    BY <1>3, LeastNat
  <2> QED
    BY <2>1 DEF Min
<1> DEFINE i == Min(Remembered)
<1>5. i \in Slots /\ entry[entry1].pairs[i].other_identity = entry2
  BY <1>3, <1>4 DEF Remembered
<1> HIDE DEF i
<1>6. Sound(entry1, entry[entry1].pairs[i])
  BY <1>1, <1>5 DEF RefineInv, IInv, StaticInv, MemoryInv
<1>7. entry[entry1].pairs[i].result = Relation(entry[entry1].hashes, entry[entry2].hashes)
  BY <1>1, <1>5, <1>6 DEF Sound
<1> QED
  BY <1>7 DEF i

(* The end of a call is the answer, every other step is not seen.          *)
LEMMA StepRefines == RefineInv /\ [Next]_vars => [Promise!Next]_Promise!svars
<1> SUFFICES ASSUME RefineInv, [Next]_vars PROVE [Promise!Next]_Promise!svars
  OBVIOUS
<1>0. IInv /\ AnswerInv
  BY DEF RefineInv
<1> DEFINE Body(i) == [j \in DOMAIN args |-> PlainArg(args[j])][i].body
<1>1. ASSUME pc # "done" PROVE Body(1) = Plain(str1) /\ Body(2) = Plain(str2)
  <2>1. PICK arg1 \in Arg, arg2 \in Arg : args = <<arg1, arg2>>
    BY <1>0, <1>1 DEF AnswerInv
  <2>2. 1 \in DOMAIN args /\ 2 \in DOMAIN args
    BY <2>1
  <2>3. \A arg : PlainArg(arg).body = Plain(arg.body)
    BY DEF PlainArg
  <2> QED
    BY <2>2, <2>3 DEF str1, str2
<1>2. ASSUME pc # "done", NEW value, Finish(value),
             value = Promise!Answer(Plain(str1), Plain(str2))
      PROVE  Promise!Next
  <2>1. /\ pc # "done" /\ ~(pc' # "done") /\ args' = args
        /\ result' = Promise!Answer(Body(1), Body(2))
    BY <1>1, <1>2 DEF Finish
  <2>2. Promise!Return
    BY <2>1 DEF Promise!Return
  <2> QED
    BY <2>2 DEF Promise!Next
<1>3. ASSUME args' = args, result' = result, (pc' = "done") <=> (pc = "done")
      PROVE  UNCHANGED Promise!svars
  BY <1>3 DEF Promise!svars
<1>4. Promise!Answer(Plain(str1), Plain(str2)) =
          IF ~set_meta_ok(str1) THEN -3
          ELSE IF ~set_meta_ok(str2) THEN -4
          ELSE IF str1.values = <<>> THEN -3
          ELSE IF str2.values = <<>> THEN -4
          ELSE Promise!Verdict(Promise!Truncated(Plain(str1), target_bpp),
                               Promise!Truncated(Plain(str2), target_bpp))
  <2>1. ASSUME set_meta_ok(str1), set_meta_ok(str2)
        PROVE  Promise!CoarserBpp(Plain(str1), Plain(str2)) = target_bpp
    <3>1. Plain(str1).bpp = str1.bpp /\ Plain(str2).bpp = str2.bpp
      BY <2>1, PlainFacts
    <3>2. str1.bpp \in 10 .. 32 /\ str2.bpp \in 10 .. 32
      BY <2>1 DEF set_meta_ok
    <3>3. target_bpp = IF str2.bpp < str1.bpp THEN str2.bpp ELSE str1.bpp
      BY DEF target_bpp
    <3> QED
      BY <3>1, <3>2, <3>3 DEF Promise!CoarserBpp
  <2>2. /\ \A s : Promise!set_meta_init(Plain(s)) <=> set_meta_ok(s)
        /\ \A s : Promise!Malformed(Plain(s)) <=> s.values = <<>>
    BY PlainFacts
  <2>3. CASE set_meta_ok(str1) /\ set_meta_ok(str2)
    <3> DEFINE t == Promise!CoarserBpp(Plain(str1), Plain(str2))
    <3>1. Promise!Answer(Plain(str1), Plain(str2)) =
              IF str1.values = <<>> THEN -3
              ELSE IF str2.values = <<>> THEN -4
              ELSE Promise!Verdict(Promise!Truncated(Plain(str1), t),
                                   Promise!Truncated(Plain(str2), t))
      BY <2>2, <2>3 DEF Promise!Answer
    <3> QED
      BY <2>1, <2>3, <3>1
  <2>4. CASE ~(set_meta_ok(str1) /\ set_meta_ok(str2))
    BY <2>2, <2>4 DEF Promise!Answer
  <2> QED
    BY <2>3, <2>4
<1>5. CASE CheckHeaders
  <2>1. pc = "headers" /\ pc # "done"
    BY <1>5 DEF CheckHeaders
  <2>2. CASE ~set_meta_ok(str1)
    <3>1. Finish(-3) /\ Promise!Answer(Plain(str1), Plain(str2)) = -3
      BY <2>2, <1>4, <1>5 DEF CheckHeaders
    <3> QED
      BY <3>1, <2>1, <1>2
  <2>3. CASE set_meta_ok(str1) /\ ~set_meta_ok(str2)
    <3>1. Finish(-4) /\ Promise!Answer(Plain(str1), Plain(str2)) = -4
      BY <2>3, <1>4, <1>5 DEF CheckHeaders
    <3> QED
      BY <3>1, <2>1, <1>2
  <2>4. CASE set_meta_ok(str1) /\ set_meta_ok(str2)
    <3>1. pc' = "fetch1" /\ args' = args /\ result' = result
      BY <2>4, <1>5 DEF CheckHeaders
    <3> QED
      BY <3>1, <2>1, <1>3
  <2> QED
    BY <2>2, <2>3, <2>4
<1>6. CASE Fetch1
  <2>1. /\ pc = "fetch1" /\ pc # "done" /\ set_meta_ok(str1) /\ set_meta_ok(str2)
    BY <1>6, <1>0 DEF Fetch1, AnswerInv, Fetching
  <2>2. CASE Undecodable(str1, 0) /\ Finish(-3)
    <3>1. Promise!Answer(Plain(str1), Plain(str2)) = -3
      BY <2>1, <2>2, <1>4 DEF Undecodable
    <3> QED
      BY <3>1, <2>1, <2>2, <1>2
  <2>3. CASE pc' = "same" /\ UNCHANGED <<args, entry2, result>>
    BY <2>1, <2>3, <1>3
  <2> QED
    BY <2>2, <2>3, <1>6 DEF Fetch1
<1>7. CASE SameString
  <2>1. /\ pc = "same" /\ pc # "done" /\ set_meta_ok(str1) /\ set_meta_ok(str2)
        /\ str1.values # <<>>
    BY <1>7, <1>0 DEF SameString, AnswerInv, Fetching
  <2>2. CASE str1 = str2
    <3>1. Finish(0)
      BY <2>2, <1>7 DEF SameString
    <3> DEFINE A == Promise!Truncated(Plain(str1), target_bpp)
               B == Promise!Truncated(Plain(str2), target_bpp)
    <3>2. A = B
      BY <2>2
    <3>3. Promise!Answer(Plain(str1), Plain(str2)) = Promise!Verdict(A, B)
      BY <2>1, <2>2, <1>4
    <3> HIDE DEF A, B
    <3>4. Promise!Verdict(A, B) = 0
      BY <3>2, Zenon DEF Promise!Verdict
    <3> QED
      BY <3>1, <3>3, <3>4, <2>1, <1>2
  <2>3. CASE str1 # str2
    <3>1. pc' = "fetch2" /\ args' = args /\ result' = result
      BY <2>3, <1>7 DEF SameString
    <3> QED
      BY <3>1, <2>1, <1>3
  <2> QED
    BY <2>2, <2>3
<1>8. CASE Fetch2
  <2>1. /\ pc = "fetch2" /\ pc # "done" /\ set_meta_ok(str1) /\ set_meta_ok(str2)
        /\ str1.values # <<>>
    BY <1>8, <1>0 DEF Fetch2, AnswerInv, Fetching
  <2>2. CASE Undecodable(str2, SecondCache) /\ Finish(-4)
    <3>1. Promise!Answer(Plain(str1), Plain(str2)) = -4
      BY <2>1, <2>2, <1>4 DEF Undecodable
    <3> QED
      BY <3>1, <2>1, <2>2, <1>2
  <2>3. CASE pc' = "pair" /\ UNCHANGED <<args, entry1, result>>
    BY <2>1, <2>3, <1>3
  <2> QED
    BY <2>2, <2>3, <1>8 DEF Fetch2
<1>9. ASSUME pc = "pair"
      PROVE  Promise!Answer(Plain(str1), Plain(str2)) =
                Relation(entry[entry1].hashes, entry[entry2].hashes)
  <2>1. /\ set_meta_ok(str1) /\ set_meta_ok(str2) /\ str1.values # <<>> /\ str2.values # <<>>
    BY <1>9, <1>0 DEF AnswerInv, Fetching
  <2> QED
    BY <2>1, <1>4, <1>9, PairAnswer
<1>10. CASE Recall
  <2>1. /\ pc = "pair" /\ pc # "done" /\ Remembered # {}
        /\ Finish(entry[entry1].pairs[Min(Remembered)].result)
    BY <1>10 DEF Recall
  <2> QED
    BY <2>1, <1>2, <1>9, RecallAnswer
<1>11. CASE Compare
  <2>1. /\ pc = "pair" /\ pc # "done"
        /\ Finish(Relation(entry[entry1].hashes, entry[entry2].hashes))
    BY <1>11 DEF Compare
  <2> QED
    BY <2>1, <1>2, <1>9
<1>12. CASE UNCHANGED vars
  BY <1>12, <1>3 DEF vars
<1>13. CASE \E arg1, arg2 \in Arg : Call(arg1, arg2)
  <2>1. PICK arg1 \in Arg, arg2 \in Arg : Call(arg1, arg2)
    BY <1>13
  <2>2. /\ pc = "done" /\ pc' # "done" /\ result' = result /\ args' = <<arg1, arg2>>
    BY <2>1 DEF Call
  <2>3. [j \in DOMAIN args' |-> PlainArg(args'[j])] = <<PlainArg(arg1), PlainArg(arg2)>>
    BY <2>2
  <2>4. Promise!Call(PlainArg(arg1), PlainArg(arg2))
    BY <2>2, <2>3 DEF Promise!Call
  <2> QED
    BY <2>4 DEF Promise!Next
<1> QED
  BY <1>5, <1>6, <1>7, <1>8, <1>10, <1>11, <1>12, <1>13 DEF Next, Rest

(* Whatever was decoded, reduced, evicted and remembered before, rpmsetcmp *)
(* of hash_set.c answers what the two strings alone determine              *)
(* (hash_set.c:935-968).                                                   *)
THEOREM RememberingInvisible == Spec => ImplementsSetVersion
<1>1. Init => Promise!Init
  <2>1. Init => pc = "done" /\ args = <<>> /\ result = 0
    BY DEF Init
  <2>2. args = <<>> => [j \in DOMAIN args |-> PlainArg(args[j])] = <<>>
    OBVIOUS
  <2> QED
    BY <2>1, <2>2 DEF Promise!Init
<1>2. Init => RefineInv
  <2>1. Init => AnswerInv
    BY DEF Init, AnswerInv, Fetching
  <2> QED
    BY <2>1, InitInv DEF RefineInv
<1>3. Spec => []RefineInv
  BY <1>2, AnswerNext, PTL DEF Spec
<1> QED
  BY <1>1, <1>3, StepRefines, PTL DEF Spec, ImplementsSetVersion, Promise!Spec

-----------------------------------------------------------------------------
(* The builder: what its variables hold, and when.                         *)
BuilderEntry == [offset : Nat, full_hash : Nat, hash : Nat]

BuilderTypes ==
    /\ open \in BOOLEAN /\ in_place \in BOOLEAN
    /\ symbols_v \in Seq(BuilderEntry) /\ temporary \in Seq(BuilderEntry)
    /\ strings \in Seq(Symbols \X Nat)
    /\ pass \in Nat

Sorting == phase \in {"qsort", "radix", "compact"}

BuilderControl ==
    /\ phase \in {"idle", "qsort", "radix", "compact"}
    /\ ~open => phase = "idle" /\ symbols_v = <<>> /\ given = {}
    /\ phase # "radix" => in_place /\ pass = 0
    /\ Sorting => bpp \in BPP /\ cnt > 0
    /\ phase = "radix" => pass <= passes
    /\ ~in_place => Len(temporary) = cnt

(* Entries lead to the names g and hold the whole values of these.         *)
NameIn(str, offset) == str[offset + 1][1]

NamesOf(src, str) == {NameIn(str, src[i].offset) : i \in 1 .. Len(src)}

Named(src, str, g) ==
    /\ \A i \in 1 .. Len(src) : /\ src[i].offset < Len(str)
                                /\ src[i].full_hash = Hash[NameIn(str, src[i].offset)]
    /\ g = NamesOf(src, str)

(* Their copies are cut to the precision.                                  *)
Cut(src, b) == \A i \in 1 .. Len(src) : src[i].hash = Mask(src[i].full_hash, b)

Keys(src) == [i \in 1 .. Len(src) |-> src[i].hash]

BuilderInv ==
    /\ BuilderTypes
    /\ BuilderControl
    /\ Named(source, strings, given)
    /\ Sorting => Cut(source, bpp)
    /\ phase = "radix" => SortedLow(Keys(source), pass * RadixBits)
    /\ phase = "compact" => SortedKeys(Keys(source))

-----------------------------------------------------------------------------
LEMMA SourceType ==
    ASSUME BuilderTypes, BuilderControl
    PROVE  /\ source \in Seq(BuilderEntry) /\ Len(source) = cnt /\ cnt \in Nat
           /\ in_place => source = symbols_v
BY DEF BuilderTypes, BuilderControl, source, cnt

LEMMA EntryAt ==
    ASSUME NEW src \in Seq(BuilderEntry), NEW i \in 1 .. Len(src)
    PROVE  /\ src[i] \in BuilderEntry
           /\ src[i].offset \in Nat /\ src[i].full_hash \in Nat /\ src[i].hash \in Nat
<1>1. src[i] \in BuilderEntry
  OBVIOUS
<1> QED
  BY <1>1 DEF BuilderEntry

LEMMA KeysType ==
    ASSUME NEW src \in Seq(BuilderEntry)
    PROVE  /\ Keys(src) \in Seq(Nat) /\ Len(Keys(src)) = Len(src)
           /\ \A i \in 1 .. Len(src) : Keys(src)[i] = src[i].hash
<1>1. \A i \in 1 .. Len(src) : src[i].hash \in Nat
  BY EntryAt
<1>2. Len(src) \in Nat
  OBVIOUS
<1> QED
  BY <1>1, <1>2 DEF Keys

LEMMA SymbolAt ==
    ASSUME NEW str \in Seq(Symbols \X Nat), NEW o \in Nat, o < Len(str)
    PROVE  NameIn(str, o) \in Symbols
<1>1. o + 1 \in 1 .. Len(str)
  OBVIOUS
<1>2. str[o + 1] \in Symbols \X Nat
  BY <1>1
<1> QED
  BY <1>2 DEF NameIn

(* The same entries in any order, whatever became of the copies, lead to   *)
(* the same names.                                                         *)
LEMMA NamedAgain ==
    ASSUME NEW src, NEW dst, NEW str, NEW g, Named(src, str, g),
           \A i \in 1 .. Len(dst) : \E k \in 1 .. Len(src) :
               dst[i].offset = src[k].offset /\ dst[i].full_hash = src[k].full_hash,
           \A k \in 1 .. Len(src) : \E i \in 1 .. Len(dst) :
               dst[i].offset = src[k].offset
    PROVE  Named(dst, str, g)
<1>1. \A i \in 1 .. Len(dst) : /\ dst[i].offset < Len(str)
                               /\ dst[i].full_hash = Hash[NameIn(str, dst[i].offset)]
  BY DEF Named
<1>2. NamesOf(dst, str) = NamesOf(src, str)
  BY DEF NamesOf
<1> QED
  BY <1>1, <1>2 DEF Named

(* Reordered entries.                                                      *)
LEMMA SameEntries ==
    ASSUME NEW src \in Seq(BuilderEntry), NEW dst \in Seq(BuilderEntry),
           Len(dst) = Len(src), Range(dst) = Range(src),
           NEW str, NEW g, NEW b
    PROVE  /\ Named(src, str, g) => Named(dst, str, g)
           /\ Cut(src, b) => Cut(dst, b)
<1>1. DOMAIN src = 1 .. Len(src) /\ DOMAIN dst = 1 .. Len(dst)
  OBVIOUS
<1>2. /\ \A i \in 1 .. Len(dst) : \E k \in 1 .. Len(src) : dst[i] = src[k]
      /\ \A k \in 1 .. Len(src) : \E i \in 1 .. Len(dst) : dst[i] = src[k]
  BY <1>1 DEF Range
<1>3. /\ \A i \in 1 .. Len(dst) : \E k \in 1 .. Len(src) :
             dst[i].offset = src[k].offset /\ dst[i].full_hash = src[k].full_hash
      /\ \A k \in 1 .. Len(src) : \E i \in 1 .. Len(dst) : dst[i].offset = src[k].offset
  BY <1>2, Zenon
<1>4. Named(src, str, g) => Named(dst, str, g)
  BY <1>3, NamedAgain, Zenon
<1>5. Cut(src, b) => Cut(dst, b)
  BY <1>2, ZenonT(30) DEF Cut
<1> QED
  BY <1>4, <1>5

LEMMA BuilderInitInv == BuilderInit => BuilderInv
<1> SUFFICES ASSUME BuilderInit PROVE BuilderInv
  OBVIOUS
<1>1. /\ open = FALSE /\ symbols_v = <<>> /\ strings = <<>> /\ phase = "idle"
      /\ temporary = <<>> /\ in_place = TRUE /\ pass = 0 /\ given = {}
  BY DEF BuilderInit
<1>2. source = <<>> /\ cnt = 0 /\ ~Sorting
  BY <1>1 DEF source, cnt, Sorting
<1>3. BuilderTypes
  <2>1. symbols_v \in Seq(BuilderEntry) /\ temporary \in Seq(BuilderEntry)
    BY <1>1
  <2>2. strings \in Seq(Symbols \X Nat)
    BY <1>1
  <2> QED
    BY <1>1, <2>1, <2>2 DEF BuilderTypes
<1>4. BuilderControl
  BY <1>1, <1>2 DEF BuilderControl
<1>5. Named(source, strings, given)
  BY <1>1, <1>2 DEF Named, NamesOf
<1> QED
  BY <1>1, <1>2, <1>3, <1>4, <1>5 DEF BuilderInv

LEMMA BuilderEmptyInv ==
    ASSUME BuilderInv, set_new \/ set_free
    PROVE  BuilderInv'
<1>1. /\ symbols_v' = <<>> /\ strings' = <<>> /\ phase = "idle" /\ phase' = phase
      /\ given' = {} /\ open' \in BOOLEAN
      /\ temporary' = temporary /\ in_place' = in_place /\ pass' = pass
  BY DEF set_new, set_free, Empty, sorting
<1>2. BuilderTypes /\ BuilderControl /\ in_place /\ pass = 0
  BY <1>1 DEF BuilderInv, BuilderControl
<1>3. source' = <<>> /\ cnt' = 0 /\ ~Sorting'
  BY <1>1, <1>2 DEF source, cnt, Sorting
<1>4. BuilderTypes'
  BY <1>1, <1>2 DEF BuilderTypes
<1>5. BuilderControl'
  BY <1>1, <1>2, <1>3 DEF BuilderControl
<1>6. Named(source, strings, given)'
  BY <1>1, <1>3 DEF Named, NamesOf
<1> QED
  BY <1>1, <1>3, <1>4, <1>5, <1>6 DEF BuilderInv, Sorting

(* set_add appends the name and its entry.                                 *)
LEMMA NamedAdded ==
    ASSUME NEW src \in Seq(BuilderEntry), NEW str \in Seq(Symbols \X Nat),
           NEW g, Named(src, str, g), NEW sym \in Symbols,
           NEW added \in BuilderEntry, added.offset = Len(str), added.full_hash = Hash[sym]
    PROVE  /\ str \o Bytes(sym) \in Seq(Symbols \X Nat)
           /\ Append(src, added) \in Seq(BuilderEntry)
           /\ Named(Append(src, added), str \o Bytes(sym), g \cup {sym})
<1> DEFINE longer == str \o Bytes(sym)
           more == Append(src, added)
           n == Len(src)
           l == Len(str)
<1>1. Length[sym] \in Nat \ {0}
  BY BuilderAssumption
<1>2. /\ Bytes(sym) \in Seq(Symbols \X Nat) /\ Len(Bytes(sym)) = Length[sym]
      /\ Bytes(sym)[1] = <<sym, 1>>
  <2>1. \A k \in 1 .. Length[sym] : <<sym, k>> \in Symbols \X Nat
    BY <1>1
  <2>2. 1 \in 1 .. Length[sym]
    BY <1>1
  <2> QED
    BY <1>1, <2>1, <2>2 DEF Bytes
<1>3. /\ longer \in Seq(Symbols \X Nat) /\ Len(longer) = l + Length[sym] /\ l \in Nat
      /\ \A o \in 1 .. l : longer[o] = str[o]
      /\ longer[l + 1] = <<sym, 1>>
  <2>1. l \in Nat /\ 1 \in 1 .. Length[sym] /\ l + 1 \in 1 .. l + Length[sym]
    BY <1>1
  <2>2. longer \in Seq(Symbols \X Nat) /\ Len(longer) = l + Length[sym]
    BY <1>2
  <2>3. \A o \in 1 .. l : longer[o] = str[o]
    BY <1>2
  <2>4. longer[l + 1] = Bytes(sym)[1]
    BY <1>2, <2>1
  <2> QED
    BY <1>2, <2>1, <2>2, <2>3, <2>4
<1>4. /\ more \in Seq(BuilderEntry) /\ Len(more) = n + 1 /\ n \in Nat
      /\ \A i \in 1 .. n : more[i] = src[i]
      /\ more[n + 1] = added
  BY AppendProperties
<1> HIDE DEF longer, more
<1>5. ASSUME NEW i \in 1 .. n
      PROVE  /\ more[i].offset < Len(longer)
             /\ NameIn(longer, more[i].offset) = NameIn(str, src[i].offset)
             /\ more[i].full_hash = Hash[NameIn(longer, more[i].offset)]
  <2>1. src[i].offset \in Nat /\ src[i].offset < l /\ more[i] = src[i]
    BY <1>4, EntryAt DEF Named
  <2> DEFINE o == src[i].offset
  <2>2. src[i].full_hash = Hash[NameIn(str, o)] /\ more[i].offset = o
    BY <2>1 DEF Named
  <2>3. o \in Nat /\ o < l
    BY <2>1
  <2> HIDE DEF o, l
  <2>4. o + 1 \in 1 .. l /\ o < Len(longer)
    BY <1>1, <1>3, <2>3, SMTT(20)
  <2>5. longer[o + 1] = str[o + 1]
    BY <1>3, <2>4
  <2>6. NameIn(longer, o) = NameIn(str, o)
    BY <2>5 DEF NameIn
  <2>7. /\ more[i].offset < Len(longer)
        /\ NameIn(longer, more[i].offset) = NameIn(str, o)
        /\ more[i].full_hash = Hash[NameIn(longer, more[i].offset)]
    BY <2>1, <2>2, <2>4, <2>6
  <2> QED
    BY <2>7 DEF o
<1>6. /\ more[n + 1].offset < Len(longer)
      /\ NameIn(longer, more[n + 1].offset) = sym
      /\ more[n + 1].full_hash = Hash[sym]
  <2>1. more[n + 1].offset = l
    BY <1>4
  <2> QED
    BY <1>1, <1>3, <1>4, <2>1, SMTT(20) DEF NameIn
<1>7. \A i \in 1 .. n + 1 : i \in 1 .. n \/ i = n + 1
  BY <1>4
<1>8. NamesOf(more, longer) = NamesOf(src, str) \cup {sym}
  <2>1. NamesOf(more, longer) = {NameIn(longer, more[i].offset) : i \in 1 .. n + 1}
    BY <1>4 DEF NamesOf
  <2>2. NamesOf(src, str) = {NameIn(str, src[i].offset) : i \in 1 .. n}
    BY DEF NamesOf
  <2>3. 1 .. n \subseteq 1 .. n + 1 /\ n + 1 \in 1 .. n + 1
    BY <1>4
  <2>4. ASSUME NEW x \in NamesOf(more, longer) PROVE x \in NamesOf(src, str) \cup {sym}
    BY <1>5, <1>6, <1>7, <2>1, <2>2, <2>4
  <2>5. ASSUME NEW x \in NamesOf(src, str) PROVE x \in NamesOf(more, longer)
    BY <1>5, <2>1, <2>2, <2>3, <2>5
  <2>6. sym \in NamesOf(more, longer)
    BY <1>6, <2>1, <2>3
  <2> QED
    BY <2>4, <2>5, <2>6
<1>9. Named(more, longer, g \cup {sym})
  <2>1. g = NamesOf(src, str)
    BY DEF Named
  <2>2. \A i \in 1 .. Len(more) :
           /\ more[i].offset < Len(longer)
           /\ more[i].full_hash = Hash[NameIn(longer, more[i].offset)]
    BY <1>4, <1>5, <1>6, <1>7
  <2> QED
    BY <1>8, <2>1, <2>2 DEF Named
<1> QED
  BY <1>3, <1>4, <1>9 DEF longer, more

LEMMA HashType ==
    ASSUME NEW sym \in Symbols
    PROVE  Hash[sym] \in Nat /\ Hash[sym] \in 0 .. 2^WORD - 1
<1>1. Hash[sym] \in 0 .. 2^WORD - 1 /\ WORD \in 0 .. 38
  BY BuilderAssumption
<1>2. 2^WORD \in Nat
  BY <1>1, Powers, Zenon
<1> QED
  BY <1>1, <1>2

LEMMA BuilderAddInv ==
    ASSUME BuilderInv, NEW sym \in Symbols, set_add(sym)
    PROVE  BuilderInv'
<1> DEFINE added == [offset |-> strings_len, full_hash |-> Hash[sym], hash |-> Hash[sym]]
<1>1. /\ phase = "idle" /\ open /\ open' = open /\ phase' = phase /\ bpp' = bpp
      /\ symbols_v' = Append(symbols_v, added) /\ strings' = strings \o Bytes(sym)
      /\ given' = given \cup {sym}
      /\ temporary' = temporary /\ in_place' = in_place /\ pass' = pass
  BY DEF set_add, sorting
<1>2. BuilderTypes /\ BuilderControl /\ Named(source, strings, given)
  BY DEF BuilderInv
<1>3. in_place /\ pass = 0 /\ source = symbols_v /\ source' = symbols_v'
  BY <1>1, <1>2 DEF BuilderControl, source
<1>4. added \in BuilderEntry /\ added.offset = Len(strings) /\ added.full_hash = Hash[sym]
  <2>1. strings_len = Len(strings) /\ strings_len \in Nat
    BY <1>2 DEF BuilderTypes, strings_len
  <2> QED
    BY <2>1, HashType DEF BuilderEntry
<1> HIDE DEF added
<1>5. symbols_v \in Seq(BuilderEntry) /\ strings \in Seq(Symbols \X Nat)
  BY <1>2 DEF BuilderTypes
<1>6. /\ strings' \in Seq(Symbols \X Nat) /\ symbols_v' \in Seq(BuilderEntry)
      /\ Named(source, strings, given)'
  BY <1>1, <1>2, <1>3, <1>4, <1>5, NamedAdded
<1>7. BuilderTypes'
  BY <1>1, <1>2, <1>6 DEF BuilderTypes
<1>8. BuilderControl' /\ ~Sorting'
  BY <1>1, <1>2, <1>3 DEF BuilderControl, Sorting
<1> QED
  BY <1>1, <1>6, <1>7, <1>8 DEF BuilderInv

(* set_fini cuts the whole values anew.                                    *)
LEMMA BuilderFiniInv ==
    ASSUME BuilderInv, NEW b \in BPP, set_fini(b)
    PROVE  BuilderInv'
<1>1. /\ phase = "idle" /\ open /\ cnt > 0 /\ bpp' = b /\ open' = open
      /\ symbols_v' = [i \in 1 .. cnt |-> Masked(symbols_v[i], b)]
      /\ phase' = IF cnt < RadixFrom THEN "qsort" ELSE "radix"
      /\ strings' = strings /\ given' = given
      /\ temporary' = temporary /\ in_place' = in_place /\ pass' = pass
  BY DEF set_fini, sorting
<1>2. BuilderTypes /\ BuilderControl /\ Named(source, strings, given)
  BY DEF BuilderInv
<1>3. /\ in_place /\ pass = 0 /\ source = symbols_v /\ source' = symbols_v'
      /\ symbols_v \in Seq(BuilderEntry) /\ Len(symbols_v) = cnt /\ cnt \in Nat
  BY <1>1, <1>2 DEF BuilderControl, BuilderTypes, source, cnt
<1>4. ASSUME NEW i \in 1 .. cnt
      PROVE  /\ Masked(symbols_v[i], b) \in BuilderEntry
             /\ Masked(symbols_v[i], b).offset = symbols_v[i].offset
             /\ Masked(symbols_v[i], b).full_hash = symbols_v[i].full_hash
             /\ Masked(symbols_v[i], b).hash = Mask(symbols_v[i].full_hash, b)
  <2>1. symbols_v[i] \in BuilderEntry /\ symbols_v[i].full_hash \in Nat
    BY <1>3, EntryAt
  <2>2. b \in 1 .. WORD /\ WORD \in 1 .. 32 /\ b \in 0 .. 38
    BY BuilderAssumption
  <2>3. 2^b \in Nat \ {0}
    BY <2>2, Powers, Zenon
  <2>4. symbols_v[i].full_hash % 2^b \in Nat
    <3> DEFINE h == symbols_v[i].full_hash
               d == 2^b
    <3>1. h \in Nat /\ d \in Nat \ {0}
      BY <2>1, <2>3
    <3> HIDE DEF h, d
    <3>2. h % d \in Nat
      BY <3>1
    <3> QED
      BY <3>2 DEF h, d
  <2>5. Mask(symbols_v[i].full_hash, b) \in Nat
    BY <2>1, <2>4 DEF Mask
  <2> HIDE DEF Mask
  <2> QED
    BY <2>1, <2>5 DEF Masked, BuilderEntry
<1>5. /\ symbols_v' \in Seq(BuilderEntry) /\ Len(symbols_v') = cnt
      /\ \A i \in 1 .. cnt : symbols_v'[i] = Masked(symbols_v[i], b)
  BY <1>1, <1>3, <1>4
<1>6. cnt' = cnt
  BY <1>5 DEF cnt
<1>7. BuilderTypes'
  BY <1>1, <1>2, <1>5 DEF BuilderTypes
<1>8. passes' \in Nat
  <2>1. RadixBits \in 1 .. 8 /\ bpp' \in 1 .. WORD /\ WORD \in 1 .. 32
    BY <1>1, BuilderAssumption
  <2>2. bpp' \in 1 .. 32
    BY <2>1
  <2> QED
    BY <2>1, <2>2, PassesReach DEF passes
<1>9. BuilderControl'
  BY <1>1, <1>2, <1>3, <1>6, <1>8 DEF BuilderControl
<1>10. Named(source, strings, given)'
  <2>1. \A i \in 1 .. cnt : symbols_v'[i].offset = symbols_v[i].offset
                          /\ symbols_v'[i].full_hash = symbols_v[i].full_hash
    BY <1>4, <1>5
  <2>2. Named(symbols_v, strings, given)
    BY <1>2, <1>3
  <2>3. Named(symbols_v', strings, given)
    BY <1>3, <1>5, <2>1, <2>2, NamedAgain
  <2> QED
    BY <1>1, <1>3, <2>3
<1>11. Cut(source, bpp)'
  BY <1>1, <1>3, <1>4, <1>5 DEF Cut
<1>12. SortedLow(Keys(source)', (pass * RadixBits)')
  <2>1. Keys(source)' \in Seq(Nat)
    BY <1>3, <1>5, KeysType
  <2>2. (pass * RadixBits)' = 0
    BY <1>1, <1>3, BuilderAssumption
  <2> QED
    BY <2>1, <2>2, NoPassSorts
<1>13. phase' # "compact"
  BY <1>1
<1> QED
  BY <1>7, <1>9, <1>10, <1>11, <1>12, <1>13 DEF BuilderInv

(* What sorting knows: the precision and its passes.                       *)
LEMMA SortingBits ==
    ASSUME BuilderControl, Sorting
    PROVE  /\ bpp \in 1 .. 32 /\ RadixBits \in 1 .. 8 /\ bpp \in 1 .. WORD /\ WORD \in 1 .. 32
           /\ passes \in Nat
           /\ \A p \in Nat : p < passes => p * RadixBits \in 0 .. 31
<1>1. RadixBits \in 1 .. 8 /\ bpp \in 1 .. WORD /\ WORD \in 1 .. 32
  BY BuilderAssumption DEF BuilderControl
<1>2. bpp \in 1 .. 32
  BY <1>1
<1> QED
  BY <1>1, <1>2, PassesReach DEF passes

(* An array the library sorted is sorted and holds the same entries.       *)
LEMMA BuilderQsortInv ==
    ASSUME BuilderInv, Qsort
    PROVE  BuilderInv'
<1>1. PICK perm \in Bijection(1 .. cnt, 1 .. cnt) :
          symbols_v' = [i \in 1 .. cnt |-> symbols_v[perm[i]]]
  BY DEF Qsort
<1>2. /\ phase = "qsort" /\ phase' = "compact" /\ open' = open /\ bpp' = bpp
      /\ \A i, j \in 1 .. cnt : i < j => symbols_v'[i].hash <= symbols_v'[j].hash
      /\ strings' = strings /\ given' = given
      /\ temporary' = temporary /\ in_place' = in_place /\ pass' = pass
  BY DEF Qsort, sorting
<1>3. /\ BuilderTypes /\ BuilderControl /\ Named(source, strings, given)
      /\ Cut(source, bpp) /\ Sorting
  BY <1>2 DEF BuilderInv, Sorting
<1>4. /\ in_place /\ pass = 0 /\ source = symbols_v /\ source' = symbols_v'
      /\ symbols_v \in Seq(BuilderEntry) /\ Len(symbols_v) = cnt /\ cnt \in Nat
  BY <1>2, <1>3 DEF BuilderControl, BuilderTypes, source, cnt
<1>5. /\ perm \in [1 .. cnt -> 1 .. cnt]
      /\ \A k \in 1 .. cnt : \E i \in 1 .. cnt : perm[i] = k
  BY DEF Bijection, Injection, Surjection
<1>6. /\ symbols_v' \in Seq(BuilderEntry) /\ Len(symbols_v') = cnt
      /\ \A i \in 1 .. cnt : symbols_v'[i] = symbols_v[perm[i]]
  BY <1>1, <1>4, <1>5
<1>7. cnt' = cnt
  BY <1>6 DEF cnt
<1>8. Range(symbols_v') = Range(symbols_v)
  <2>1. /\ Range(symbols_v') = {symbols_v'[i] : i \in 1 .. cnt}
        /\ Range(symbols_v) = {symbols_v[i] : i \in 1 .. cnt}
    BY <1>4, <1>6 DEF Range
  <2>2. \A i \in 1 .. cnt : \E k \in 1 .. cnt : symbols_v'[i] = symbols_v[k]
    BY <1>5, <1>6
  <2>3. \A k \in 1 .. cnt : \E i \in 1 .. cnt : symbols_v'[i] = symbols_v[k]
    BY <1>5, <1>6
  <2> QED
    BY <2>1, <2>2, <2>3, ZenonT(30)
<1>9. Named(source, strings, given)' /\ Cut(source, bpp)'
  BY <1>2, <1>3, <1>4, <1>6, <1>8, SameEntries
<1>10. SortedKeys(Keys(source)')
  <2>1. /\ Keys(symbols_v') \in Seq(Nat) /\ Len(Keys(symbols_v')) = cnt
        /\ \A i \in 1 .. cnt : Keys(symbols_v')[i] = symbols_v'[i].hash
    BY <1>6, KeysType
  <2>2. SortedKeys(Keys(symbols_v'))
    BY <1>2, <2>1 DEF SortedKeys
  <2> QED
    BY <1>4, <2>2
<1>11. BuilderTypes'
  BY <1>2, <1>3, <1>6 DEF BuilderTypes
<1>12. BuilderControl'
  BY <1>2, <1>3, <1>4, <1>7 DEF BuilderControl, Sorting
<1> QED
  BY <1>2, <1>9, <1>10, <1>11, <1>12 DEF BuilderInv

(* A pass sorts by the next digit what was sorted by the lower ones.       *)
LEMMA BuilderPassInv ==
    ASSUME BuilderInv, RadixPass
    PROVE  BuilderInv'
<1> DEFINE digit == [i \in 1 .. cnt |->
                        (source[i].hash \div 2^(pass * RadixBits)) % 2^RadixBits]
           moved == Distributed(source, digit)
<1>1. /\ phase = "radix" /\ phase' = phase /\ pass < passes /\ pass' = pass + 1
      /\ in_place' = ~in_place
      /\ IF in_place THEN temporary' = moved /\ symbols_v' = symbols_v
                     ELSE symbols_v' = moved /\ temporary' = temporary
      /\ open' = open /\ bpp' = bpp /\ strings' = strings /\ given' = given
  BY DEF RadixPass
<1>2. /\ BuilderTypes /\ BuilderControl /\ Named(source, strings, given)
      /\ Cut(source, bpp) /\ Sorting /\ SortedLow(Keys(source), pass * RadixBits)
  BY <1>1 DEF BuilderInv, Sorting
<1>3. source \in Seq(BuilderEntry) /\ Len(source) = cnt /\ cnt \in Nat
  BY <1>2, SourceType
<1>4. pass \in Nat /\ pass * RadixBits \in 0 .. 31 /\ RadixBits \in 1 .. 8 /\ passes \in Nat
  BY <1>1, <1>2, SortingBits DEF BuilderTypes
<1>5. /\ Keys(source) \in Seq(Nat) /\ Len(Keys(source)) = cnt
      /\ \A i \in 1 .. cnt : Keys(source)[i] = source[i].hash
  BY <1>3, KeysType
<1>6. digit = PassDigits(Keys(source), pass, RadixBits)
  BY <1>5 DEF PassDigits
<1>7. digit \in [1 .. cnt -> Nat]
  <2>1. PassDigits(Keys(source), pass, RadixBits) \in [1 .. Len(Keys(source)) -> Nat]
    BY <1>4, <1>5, PassDigitsType
  <2> HIDE DEF digit
  <2> QED
    BY <1>5, <1>6, <2>1
<1> HIDE DEF digit
<1>8. /\ moved \in Seq(BuilderEntry) /\ Len(moved) = cnt
      /\ \A k \in 1 .. cnt : moved[Rank(digit, cnt, k)] = source[k]
      /\ Range(moved) = Range(source)
  BY <1>3, <1>7, DistributedFacts, DistributedRange
<1> HIDE DEF moved
<1>9. source' = moved /\ cnt' = cnt
  <2>1. in_place \in BOOLEAN /\ Len(symbols_v) = cnt
    BY <1>2 DEF BuilderTypes, cnt
  <2> QED
    BY <1>1, <1>8, <2>1 DEF source, cnt
<1>10. Named(source, strings, given)' /\ Cut(source, bpp)'
  BY <1>1, <1>2, <1>3, <1>8, <1>9, SameEntries
<1>11. SortedLow(Keys(moved), (pass + 1) * RadixBits)
  <2>1. /\ Keys(moved) \in Seq(Nat) /\ Len(Keys(moved)) = cnt
        /\ \A i \in 1 .. cnt : Keys(moved)[i] = moved[i].hash
    BY <1>8, KeysType
  <2>2. \A k \in 1 .. cnt : Rank(digit, cnt, k) \in 1 .. cnt
    BY <1>3, <1>7, RankInRange
  <2>3. \A k \in 1 .. cnt : Keys(moved)[Rank(digit, cnt, k)] = Keys(source)[k]
    <3> SUFFICES ASSUME NEW k \in 1 .. cnt
                 PROVE  Keys(moved)[Rank(digit, cnt, k)] = Keys(source)[k]
      OBVIOUS
    <3>1. Keys(moved)[Rank(digit, cnt, k)] = moved[Rank(digit, cnt, k)].hash
      BY <2>1, <2>2
    <3>2. moved[Rank(digit, cnt, k)] = source[k] /\ Keys(source)[k] = source[k].hash
      BY <1>5, <1>8
    <3> QED
      BY <3>1, <3>2
  <2> QED
    BY <1>2, <1>4, <1>5, <1>6, <2>1, <2>3, PassSortsKeys
<1>12. BuilderTypes'
  BY <1>1, <1>2, <1>4, <1>8 DEF BuilderTypes
<1>13. BuilderControl'
  <2>1. passes' = passes /\ pass' <= passes
    BY <1>1, <1>4 DEF passes
  <2>2. ~in_place' => Len(temporary') = cnt'
    BY <1>1, <1>8, <1>9
  <2> QED
    BY <1>1, <1>2, <1>9, <2>1, <2>2 DEF BuilderControl, Sorting
<1>14. SortedLow(Keys(source)', (pass * RadixBits)')
  BY <1>1, <1>9, <1>11
<1> QED
  BY <1>1, <1>10, <1>12, <1>13, <1>14 DEF BuilderInv

(* After the last pass the array is sorted, wherever it ended.             *)
LEMMA BuilderCopyInv ==
    ASSUME BuilderInv, CopyBack
    PROVE  BuilderInv'
<1>1. /\ phase = "radix" /\ pass = passes /\ symbols_v' = source /\ temporary' = <<>>
      /\ in_place' = TRUE /\ pass' = 0 /\ phase' = "compact"
      /\ open' = open /\ bpp' = bpp /\ strings' = strings /\ given' = given
  BY DEF CopyBack
<1>2. /\ BuilderTypes /\ BuilderControl /\ Named(source, strings, given)
      /\ Cut(source, bpp) /\ Sorting /\ SortedLow(Keys(source), pass * RadixBits)
  BY <1>1 DEF BuilderInv, Sorting
<1>3. source \in Seq(BuilderEntry) /\ Len(source) = cnt /\ cnt \in Nat
  BY <1>2, SourceType
<1>4. source' = source /\ cnt' = cnt
  BY <1>1, <1>3 DEF source, cnt
<1>5. /\ Keys(source) \in Seq(Nat) /\ Len(Keys(source)) = cnt
      /\ \A i \in 1 .. cnt : Keys(source)[i] = source[i].hash
  BY <1>3, KeysType
<1>6. \A i \in 1 .. Len(Keys(source)) : Keys(source)[i] < 2^bpp
  <2>1. \A i \in 1 .. cnt : source[i].offset \in Nat /\ source[i].offset < Len(strings)
    BY <1>2, <1>3, EntryAt DEF Named
  <2>2. ASSUME NEW i \in 1 .. cnt PROVE source[i].hash < 2^bpp
    <3>1. strings \in Seq(Symbols \X Nat)
      BY <1>2 DEF BuilderTypes
    <3>2. NameIn(strings, source[i].offset) \in Symbols
      BY <2>1, <3>1, SymbolAt
    <3> DEFINE h == source[i].full_hash
    <3>3. h \in 0 .. 2^WORD - 1
      BY <1>2, <1>3, <3>2, HashType DEF Named
    <3>4. source[i].hash = IF bpp < WORD THEN h % 2^bpp ELSE h
      BY <1>2, <1>3 DEF Cut, Mask
    <3>5. bpp \in 1 .. WORD /\ WORD \in 1 .. 32
      BY <1>2, SortingBits
    <3> HIDE DEF h
    <3> QED
      BY <3>3, <3>4, <3>5, CutFits, Zenon
  <2> QED
    BY <1>5, <2>2
<1>7. SortedKeys(Keys(source))
  <2>1. bpp \in 1 .. 32 /\ RadixBits \in 1 .. 8
    BY <1>2, SortingBits
  <2>2. SortedLow(Keys(source), ((bpp + RadixBits - 1) \div RadixBits) * RadixBits)
    BY <1>1, <1>2 DEF passes
  <2> QED
    BY <1>5, <1>6, <2>1, <2>2, AllPassesSort
<1>8. BuilderTypes'
  <2>1. temporary' \in Seq(BuilderEntry)
    BY <1>1
  <2> QED
    BY <1>1, <1>2, <1>3, <2>1 DEF BuilderTypes
<1>9. BuilderControl'
  BY <1>1, <1>2, <1>4 DEF BuilderControl, Sorting
<1>10. Named(source, strings, given)' /\ Cut(source, bpp)' /\ SortedKeys(Keys(source)')
  BY <1>1, <1>2, <1>4, <1>7
<1> QED
  BY <1>1, <1>8, <1>9, <1>10 DEF BuilderInv

(* The distinct copies move to the front, and nothing else does.           *)
LEMMA UniqueCopies ==
    ASSUME BuilderInv, phase = "compact"
    PROVE  /\ unique \in Seq(Nat) /\ Len(unique) <= cnt /\ Ascending(unique)
           /\ Range(unique) = {symbols_v[i].hash : i \in 1 .. cnt}
<1>1. /\ in_place /\ source = symbols_v /\ SortedKeys(Keys(source))
      /\ symbols_v \in Seq(BuilderEntry) /\ Len(symbols_v) = cnt /\ cnt \in Nat
  BY DEF BuilderInv, BuilderControl, BuilderTypes, source, cnt
<1> DEFINE keys == Keys(symbols_v)
<1>2. /\ keys \in Seq(Nat) /\ Len(keys) = cnt
      /\ \A i \in 1 .. cnt : keys[i] = symbols_v[i].hash
      /\ SortedKeys(keys)
  BY <1>1, KeysType
<1>3. unique = Unique(keys)
  BY <1>1 DEF unique, Keys
<1> HIDE DEF keys
<1>4. /\ unique \in Seq(Nat) /\ Len(unique) <= cnt /\ Ascending(unique)
      /\ Range(unique) = Range(keys)
  BY <1>2, <1>3, UniqueCorrect
<1>5. Range(keys) = {symbols_v[i].hash : i \in 1 .. cnt}
  BY <1>2 DEF Range
<1> QED
  BY <1>4, <1>5

LEMMA BuilderCompactInv ==
    ASSUME BuilderInv, Compact
    PROVE  BuilderInv'
<1>1. /\ phase = "compact" /\ phase' = "idle" /\ symbols_v' = Compacted
      /\ open' = open /\ strings' = strings /\ given' = given
      /\ temporary' = temporary /\ in_place' = in_place /\ pass' = pass
  BY DEF Compact, sorting
<1>2. BuilderTypes /\ BuilderControl /\ Named(source, strings, given)
  BY DEF BuilderInv
<1>3. /\ in_place /\ pass = 0 /\ source = symbols_v /\ source' = symbols_v'
      /\ symbols_v \in Seq(BuilderEntry) /\ Len(symbols_v) = cnt /\ cnt \in Nat
  BY <1>1, <1>2 DEF BuilderControl, BuilderTypes, source, cnt
<1>4. unique \in Seq(Nat) /\ Len(unique) <= cnt
  BY <1>1, UniqueCopies
<1>5. ASSUME NEW i \in 1 .. cnt
      PROVE  /\ Compacted[i] \in BuilderEntry
             /\ Compacted[i].offset = symbols_v[i].offset
             /\ Compacted[i].full_hash = symbols_v[i].full_hash
  <2>1. symbols_v[i] \in BuilderEntry
    BY <1>3
  <2>2. CASE i <= Len(unique)
    <3>1. unique[i] \in Nat
      BY <1>3, <1>4, <2>2
    <3>2. Compacted[i] = [symbols_v[i] EXCEPT !.hash = unique[i]]
      BY <2>2 DEF Compacted
    <3> QED
      BY <2>1, <3>1, <3>2 DEF BuilderEntry
  <2>3. CASE ~(i <= Len(unique))
    BY <2>1, <2>3 DEF Compacted
  <2> QED
    BY <2>2, <2>3
<1>6. /\ symbols_v' \in Seq(BuilderEntry) /\ Len(symbols_v') = cnt
      /\ \A i \in 1 .. cnt : symbols_v'[i] = Compacted[i]
  <2>1. Compacted = [i \in 1 .. cnt |-> Compacted[i]]
    BY DEF Compacted
  <2> HIDE DEF Compacted
  <2> QED
    BY <1>1, <1>3, <1>5, <2>1
<1>7. Named(source, strings, given)'
  <2>1. \A i \in 1 .. cnt : symbols_v'[i].offset = symbols_v[i].offset
                          /\ symbols_v'[i].full_hash = symbols_v[i].full_hash
    BY <1>5, <1>6
  <2>2. Named(symbols_v, strings, given)
    BY <1>2, <1>3
  <2>3. Named(symbols_v', strings, given)
    BY <1>3, <1>6, <2>1, <2>2, NamedAgain
  <2> QED
    BY <1>1, <1>3, <2>3
<1>8. BuilderTypes'
  BY <1>1, <1>2, <1>6 DEF BuilderTypes
<1>9. BuilderControl' /\ ~Sorting'
  BY <1>1, <1>2, <1>3 DEF BuilderControl, Sorting
<1> QED
  BY <1>1, <1>7, <1>8, <1>9 DEF BuilderInv

LEMMA BuilderInvariance == BuilderSpec => []BuilderInv
<1>1. BuilderInv /\ UNCHANGED builder_vars => BuilderInv'
  <2> SUFFICES ASSUME BuilderInv, UNCHANGED builder_vars PROVE BuilderInv'
    OBVIOUS
  <2>1. /\ open' = open /\ symbols_v' = symbols_v /\ strings' = strings /\ phase' = phase
        /\ bpp' = bpp /\ temporary' = temporary /\ in_place' = in_place /\ pass' = pass
        /\ given' = given
    BY DEF builder_vars, set, sorting
  <2>2. source' = source /\ cnt' = cnt /\ passes' = passes /\ Sorting' = Sorting
    BY <2>1 DEF source, cnt, passes, Sorting
  <2>3. BuilderTypes' /\ BuilderControl'
    BY <2>1, <2>2 DEF BuilderInv, BuilderTypes, BuilderControl
  <2> QED
    BY <2>1, <2>2, <2>3 DEF BuilderInv
<1>2. BuilderInv /\ [BuilderNext]_builder_vars => BuilderInv'
  BY <1>1, BuilderEmptyInv, BuilderAddInv, BuilderFiniInv, BuilderQsortInv, BuilderPassInv,
     BuilderCopyInv, BuilderCompactInv DEF BuilderNext
<1> QED
  BY <1>2, BuilderInitInv, PTL DEF BuilderSpec

(* The warning about collisions prints the names the entries lead to: each *)
(* entry has carried its name and whole value along (hash_set.c:320-375).  *)
THEOREM BuilderNamesFollow == BuilderSpec => []NamesFollow
<1>1. ASSUME BuilderInv PROVE NamesFollow
  <2>1. /\ Len(source) = cnt /\ Named(source, strings, given)
        /\ source \in Seq(BuilderEntry)
    BY <1>1, SourceType DEF BuilderInv
  <2>2. /\ \A i \in 1 .. cnt : source[i].full_hash = Hash[StringAt(source[i].offset)]
        /\ given = {StringAt(source[i].offset) : i \in 1 .. cnt}
    BY <2>1 DEF Named, NamesOf, NameIn, StringAt
  <2> QED
    BY <2>2 DEF NamesFollow
<1> QED
  BY <1>1, BuilderInvariance, PTL

-----------------------------------------------------------------------------
(* The packed array is that of the added symbols, in ascending order.      *)
LEMMA CompactEncodes ==
    ASSUME BuilderInv, Compact
    PROVE  Symbol_Set!Encodes(encoded', given, bpp) /\ given # {}
<1>1. phase = "compact" /\ encoded' = unique
  BY DEF Compact
<1>2. /\ source = symbols_v /\ Len(symbols_v) = cnt /\ cnt \in Nat /\ cnt > 0
      /\ Named(symbols_v, strings, given) /\ Cut(symbols_v, bpp)
  BY <1>1 DEF BuilderInv, BuilderControl, BuilderTypes, Sorting, source, cnt
<1> DEFINE Name(i) == NameIn(strings, symbols_v[i].offset)
<1>3. /\ given = {Name(i) : i \in 1 .. cnt}
      /\ \A i \in 1 .. cnt : symbols_v[i].hash = Mask(Hash[Name(i)], bpp)
  BY <1>2 DEF Named, NamesOf, Cut
<1>4. \A h \in {Hash[sym] : sym \in given} : Mask(h, bpp) = Symbol_Set!Masked(h, bpp)
  BY DEF Mask, Symbol_Set!Masked
<1> HIDE DEF Name
<1>5. {symbols_v[i].hash : i \in 1 .. cnt} = {Symbol_Set!Masked(Hash[sym], bpp) : sym \in given}
  BY <1>3, <1>4
<1>6. /\ unique \in Seq(Nat) /\ Ascending(unique)
      /\ Range(unique) = {symbols_v[i].hash : i \in 1 .. cnt}
  BY <1>1, UniqueCopies
<1>7. Range(unique) = Symbol_Set!Range(unique) /\ (Ascending(unique) <=> Symbol_Set!Ascending(unique))
  BY DEF Range, Symbol_Set!Range, Ascending, Symbol_Set!Ascending
<1>8. 1 \in 1 .. cnt
  BY <1>2
<1> QED
  BY <1>1, <1>3, <1>5, <1>6, <1>7, <1>8 DEF Symbol_Set!Encodes

(* This builder is a set of symbols, too: however often set_fini left the  *)
(* copies in another order, the next string is of what was added.          *)
THEOREM DirectBuilderImplementsSet == BuilderSpec => ImplementsSymbolSet
<1>1. BuilderInit => Symbol_Set!Init
  BY DEF BuilderInit, Symbol_Set!Init
<1>2. ASSUME BuilderInv, [BuilderNext]_builder_vars
      PROVE  [Symbol_Set!Next]_Symbol_Set!svars
  <2>1. CASE set_new
    <3>1. ~open /\ open' = TRUE /\ encoded' = encoded /\ given' = {} /\ given = {}
      BY <1>2, <2>1 DEF set_new, BuilderInv, BuilderControl
    <3> QED
      BY <3>1 DEF Symbol_Set!New, Symbol_Set!Next
  <2>2. CASE set_free
    BY <2>2 DEF set_free, Symbol_Set!Free, Symbol_Set!Next
  <2>3. ASSUME NEW sym \in Symbols, set_add(sym)
        PROVE  Symbol_Set!Next
    <3>1. Symbol_Set!Add(sym)
      BY <2>3 DEF set_add, Symbol_Set!Add
    <3> QED
      BY <3>1 DEF Symbol_Set!Next
  <2>4. CASE Compact
    <3>1. Symbol_Set!Encodes(encoded', given, bpp) /\ given # {}
      BY <1>2, <2>4, CompactEncodes
    <3>2. open /\ open' = open /\ given' = given /\ bpp \in BPP
      BY <1>2, <2>4 DEF Compact, BuilderInv, BuilderControl, Sorting
    <3>3. Symbol_Set!Fini(bpp)
      BY <3>1, <3>2 DEF Symbol_Set!Fini
    <3> QED
      BY <3>2, <3>3 DEF Symbol_Set!Next
  <2>5. CASE (\E b \in BPP : set_fini(b)) \/ Qsort \/ RadixPass \/ CopyBack
             \/ UNCHANGED builder_vars
    BY <2>5 DEF set_fini, Qsort, RadixPass, CopyBack, builder_vars, set, Symbol_Set!svars
  <2> QED
    BY <1>2, <2>1, <2>2, <2>3, <2>4, <2>5 DEF BuilderNext
<1> QED
  BY <1>1, <1>2, BuilderInvariance, PTL DEF BuilderSpec, Symbol_Set!Spec, ImplementsSymbolSet
===============================================================================
