----------------------------- MODULE DecodedCache -----------------------------
(***************************************************************************)
(* The decoded-set caches of set9.c (cache_decode_set), pointer by         *)
(* pointer: one cache for each operand of rpmsetcmp, each a doubly linked  *)
(* list in order of use threaded through blocks that are also chained in   *)
(* hash buckets.  A call looks its key up in a bucket and moves what it    *)
(* finds to the front; otherwise it allocates a block, decodes into it,    *)
(* downsamples, makes room when the cache is full, and links the block in. *)
(* Between two calls the static data persists, and the caller of the first *)
(* cache keeps a pointer into a block of it.                               *)
(***************************************************************************)
EXTENDS SetStrings, FiniteSets, SequencesExt

CONSTANTS Addr,                \* addresses xmalloc can return
          NULL,                \* the null pointer, and the absence of a value
          CacheId,             \* 0 for the first operand, 1 for the second
          CACHE_SIZE,          \* entries a cache holds
          Bucket,              \* indices of the bucket array
          CacheBucket(_, _),   \* cache_bucket: fingerprint and target to bucket
          Decoded              \* Decoded[s][t]: string s decoded at t bits

ASSUME AddrAssumption == NULL \notin Addr
ASSUME FiniteAssumption == IsFiniteSet(Addr)
ASSUME SizeAssumption == CACHE_SIZE \in Nat \ {0}
ASSUME BucketAssumption ==
    \A s \in Str, t \in Precision : CacheBucket(Fingerprint(s), t) \in Bucket

(* Decoded is what a cached array is held against: the payload at the      *)
(* string's own precision, and one downsample_set for each bit less.       *)
ASSUME DecodedAssumption ==
    \A s \in Str : set_meta_init(s) =>
        /\ \A t \in SET_BPP_MIN .. s.bpp : Decoded[s][t] \in Seq(Nat)
        /\ Decoded[s][s.bpp] = s.values
        /\ \A t \in SET_BPP_MIN .. s.bpp - 1 :
              Decoded[s][t] = downsample_set(Decoded[s][t + 1], t)

VARIABLES
    (* static data *)
    block,        \* block[a]: status and contents of the block at a
    bucket_next,  \* the links of each block: its bucket chain ...
    newer, older, \* ... and its neighbours in order of use
    buckets,      \* buckets[id][b]: first block of a chain
    newest, oldest,
    cache_count,
    (* one activation of cache_decode_set *)
    phase,        \* where it stands; "idle" when there is none
    req,          \* its arguments [str, target_bpp, cache_id]
    ent,          \* the block under inspection or being filled
    current,      \* which buffer holds the array: "hash_arr" or "temporary"
    temporary,    \* the second buffer of the downsampling
    bpp,          \* the loop variable of the downsampling
    victim,       \* the block being evicted
    link,         \* the block whose bucket_next is examined, NULL: bucket head
    ret           \* what it returned: [cnt, hash_pt]

static == <<block, bucket_next, newer, older, buckets, newest, oldest, cache_count>>
locals == <<phase, req, ent, current, temporary, bpp, victim, link, ret>>
cvars == <<static, locals>>

Pointer == Addr \cup {NULL}

Blank == [status |-> "free", cache |-> NULL, str |-> NULL, target_bpp |-> NULL,
          hash_arr |-> <<>>, cnt |-> 0]

Idle == [str |-> NULL, target_bpp |-> NULL, cache_id |-> NULL]

IsLive(a) == a \in Addr /\ block[a].status = "linked"

BucketOf(s, t) == CacheBucket(Fingerprint(s), t)

-----------------------------------------------------------------------------
Init ==
    /\ block = [a \in Addr |-> Blank]
    /\ bucket_next = [a \in Addr |-> NULL]
    /\ newer = [a \in Addr |-> NULL]
    /\ older = [a \in Addr |-> NULL]
    /\ buckets = [id \in CacheId |-> [b \in Bucket |-> NULL]]
    /\ newest = [id \in CacheId |-> NULL]
    /\ oldest = [id \in CacheId |-> NULL]
    /\ cache_count = [id \in CacheId |-> 0]
    /\ phase = "idle"
    /\ req = Idle
    /\ ent = NULL
    /\ current = "hash_arr"
    /\ temporary = <<>>
    /\ bpp = 0
    /\ victim = NULL
    /\ link = NULL
    /\ ret = [cnt |-> 0, hash_pt |-> NULL]

(* The call: the bucket of the key is computed and its head read.          *)
cache_decode_set(s, target, id) ==
    /\ phase = "idle"
    /\ phase' = "lookup"
    /\ req' = [str |-> s, target_bpp |-> target, cache_id |-> id]
    /\ ent' = buckets[id][BucketOf(s, target)]
    /\ UNCHANGED <<static, current, temporary, bpp, victim, link, ret>>

(* Every return: the locals are dead, the caller has ret.                  *)
Return(cnt, hash_pt) ==
    /\ phase' = "idle"
    /\ ret' = [cnt |-> cnt, hash_pt |-> hash_pt]
    /\ req' = Idle
    /\ ent' = NULL
    /\ current' = "hash_arr"
    /\ temporary' = <<>>
    /\ bpp' = 0
    /\ victim' = NULL
    /\ link' = NULL

KeyMatchesAnyPrecision(a) == block[a].str = req.str    \* mutant: target_bpp not compared
KeyMatches(a) ==
    /\ block[a].target_bpp = req.target_bpp
    /\ Fingerprint(block[a].str) = Fingerprint(req.str)
    /\ block[a].str = req.str

(* An entry of the chain that has another key.                             *)
ProbeStuck ==          \* mutant: the loop does not advance
    /\ phase = "lookup"
    /\ ent # NULL
    /\ ~KeyMatches(ent)
    /\ UNCHANGED cvars
ProbeNext ==
    /\ phase = "lookup"
    /\ ent # NULL
    /\ ~KeyMatches(ent)
    /\ ent' = bucket_next[ent]
    /\ UNCHANGED <<static, phase, req, current, temporary, bpp, victim, link, ret>>

(* The end of the list once e is taken out of it.                          *)
OldestWithout(id, e) == IF oldest[id] = e THEN newer[e] ELSE oldest[id]

(* Unlink entry e from the list of cache id and put it at the front.       *)
KeepInPlace(id, e) == UNCHANGED <<newer, older, newest, oldest>>   \* mutant: first in, first out
MoveToFront(id, e) ==
    IF e = newest[id]
    THEN UNCHANGED <<newer, older, newest, oldest>>
    ELSE /\ older' = [a \in Addr |-> IF a = e THEN newest[id]
                                     ELSE IF a = newer[e] THEN older[e] ELSE older[a]]
         /\ newer' = [a \in Addr |-> IF a = e THEN NULL
                                     ELSE IF a = newest[id] THEN e
                                     ELSE IF a = older[e] THEN newer[e] ELSE newer[a]]
         /\ oldest' = [oldest EXCEPT ![id] = OldestWithout(id, e)]
         /\ newest' = [newest EXCEPT ![id] = e]

Hit ==
    /\ phase = "lookup"
    /\ ent # NULL
    /\ KeyMatches(ent)
    /\ MoveToFront(req.cache_id, ent)
    /\ Return(block[ent].cnt, ent)
    /\ UNCHANGED <<block, bucket_next, buckets, cache_count>>

(* A miss on a payload too short for one value.                            *)
RejectCapacity ==
    /\ phase = "lookup"
    /\ ent = NULL
    /\ value_capacity(req.str) < 1
    /\ Return(-1, NULL)
    /\ UNCHANGED static

(* A miss: xmalloc returns some block that is not in use.                  *)
Allocate ==
    /\ phase = "lookup"
    /\ ent = NULL
    /\ value_capacity(req.str) >= 1
    /\ \E a \in Addr :
          /\ block[a].status = "free"
          /\ block' = [block EXCEPT ![a] = [@ EXCEPT !.status = "private"]]
          /\ ent' = a
    /\ phase' = "decode"
    /\ UNCHANGED <<bucket_next, newer, older, buckets, newest, oldest, cache_count,
                   req, current, temporary, bpp, victim, link, ret>>

(* decode_set fails: the block is released and no cache changes.           *)
DecodeFails ==
    /\ phase = "decode"
    /\ req.str.values = <<>>
    /\ block' = [block EXCEPT ![ent] = Blank]
    /\ Return(-1, NULL)
    /\ UNCHANGED <<bucket_next, newer, older, buckets, newest, oldest, cache_count>>

DecodeSucceeds ==
    /\ phase = "decode"
    /\ req.str.values # <<>>
    /\ block' = [block EXCEPT ![ent] = [@ EXCEPT !.hash_arr = req.str.values,
                                                 !.cnt = Len(req.str.values)]]
    /\ phase' = "downsample"
    /\ bpp' = req.str.bpp - 1
    /\ UNCHANGED <<bucket_next, newer, older, buckets, newest, oldest, cache_count,
                   req, ent, current, temporary, victim, link, ret>>

(* One round of the downsampling: from the current buffer to the other.    *)
DownsampleOnce ==
    /\ phase = "downsample"
    /\ bpp >= req.target_bpp
    /\ bpp' = bpp - 1
    /\ IF current = "hash_arr"
       THEN /\ current' = "temporary"
            /\ temporary' = downsample_set(block[ent].hash_arr, bpp)
            /\ block' = [block EXCEPT ![ent] = [@ EXCEPT !.cnt = Len(temporary')]]
       ELSE LET reduced == downsample_set(temporary, bpp)
            IN  /\ current' = "hash_arr"
                /\ block' = [block EXCEPT ![ent] = [@ EXCEPT !.hash_arr = reduced,
                                                             !.cnt = Len(reduced)]]
                /\ UNCHANGED temporary
    /\ UNCHANGED <<bucket_next, newer, older, buckets, newest, oldest, cache_count,
                   phase, req, ent, victim, link, ret>>

(* An array left in the temporary buffer is copied back.                   *)
NotCopiedBack == block[ent].hash_arr     \* mutant: what is in the block stays there
FinalArray == IF current = "temporary" THEN temporary ELSE block[ent].hash_arr

(* The target is reached: the array and its key are stored.                *)
StoreKey ==
    /\ phase = "downsample"
    /\ bpp < req.target_bpp
    /\ block' = [block EXCEPT ![ent] = [@ EXCEPT !.hash_arr = FinalArray,
                                                 !.str = req.str,
                                                 !.target_bpp = req.target_bpp]]
    /\ phase' = "makeroom"
    /\ UNCHANGED <<bucket_next, newer, older, buckets, newest, oldest, cache_count,
                   req, ent, current, temporary, bpp, victim, link, ret>>

Full(id) == cache_count[id] = CACHE_SIZE

(* There is room: the cache grows by one.                                  *)
Grow ==
    /\ phase = "makeroom"
    /\ ~Full(req.cache_id)
    /\ cache_count' = [cache_count EXCEPT ![req.cache_id] = @ + 1]
    /\ phase' = "insert"
    /\ UNCHANGED <<block, bucket_next, newer, older, buckets, newest, oldest,
                   req, ent, current, temporary, bpp, victim, link, ret>>

(* The cache is full: its oldest entry leaves the list of use, and the     *)
(* search for it in its bucket starts at the bucket head.                  *)
Evict ==
    LET id == req.cache_id
        out == oldest[id]
    IN  /\ phase = "makeroom"
        /\ Full(id)
        /\ victim' = out
        /\ oldest' = [oldest EXCEPT ![id] = newer[out]]
        /\ older' = [a \in Addr |-> IF a = newer[out] THEN NULL ELSE older[a]]
        /\ newest' = [newest EXCEPT ![id] = IF @ = out THEN NULL ELSE @]
        /\ link' = NULL
        /\ phase' = "unlink"
        /\ UNCHANGED <<block, bucket_next, newer, buckets, cache_count,
                       req, ent, current, temporary, bpp, ret>>

(* The chain the victim was put in.                                        *)
VictimBucket == BucketOf(block[victim].str, block[victim].target_bpp)

(* *link: the pointer the unlinking loop is looking at.                    *)
LinkedTo == IF link = NULL THEN buckets[req.cache_id][VictimBucket] ELSE bucket_next[link]

WalkBucket ==
    /\ phase = "unlink"
    /\ LinkedTo # victim
    /\ link' = LinkedTo
    /\ UNCHANGED <<static, phase, req, ent, current, temporary, bpp, victim, ret>>

(* What the victim's predecessor in the chain is linked to instead.        *)
StillVictim == victim      \* mutant: freed and left in its chain
AfterVictim == bucket_next[victim]

(* The victim is found, taken out of its bucket and freed.                 *)
FreeVictim ==
    /\ phase = "unlink"
    /\ LinkedTo = victim
    /\ IF link = NULL
       THEN /\ buckets' = [buckets EXCEPT ![req.cache_id][VictimBucket] = AfterVictim]
            /\ bucket_next' = [bucket_next EXCEPT ![victim] = NULL]
       ELSE /\ bucket_next' = [bucket_next EXCEPT ![link] = AfterVictim,
                                                  ![victim] = NULL]
            /\ UNCHANGED buckets
    /\ block' = [block EXCEPT ![victim] = Blank]
    /\ newer' = [newer EXCEPT ![victim] = NULL]
    /\ older' = [older EXCEPT ![victim] = NULL]
    /\ phase' = "insert"
    /\ victim' = NULL
    /\ link' = NULL
    /\ UNCHANGED <<newest, oldest, cache_count, req, ent, current, temporary, bpp, ret>>

(* The chain of the key that is asked for.                                 *)
UnreducedBucket == BucketOf(req.str, req.str.bpp)      \* mutant: at its own precision
ReqBucket == BucketOf(req.str, req.target_bpp)

(* The filled block becomes the head of its bucket and the newest entry.   *)
Insert ==
    LET id == req.cache_id
        b == ReqBucket
    IN  /\ phase = "insert"
        /\ bucket_next' = [bucket_next EXCEPT ![ent] = buckets[id][b]]
        /\ buckets' = [buckets EXCEPT ![id][b] = ent]
        /\ older' = [older EXCEPT ![ent] = newest[id]]
        /\ newer' = [a \in Addr |-> IF a = ent THEN NULL
                                    ELSE IF a = newest[id] THEN ent ELSE newer[a]]
        /\ oldest' = [oldest EXCEPT ![id] = IF newest[id] = NULL THEN ent ELSE @]
        /\ newest' = [newest EXCEPT ![id] = ent]
        /\ block' = [block EXCEPT ![ent] = [@ EXCEPT !.status = "linked", !.cache = id]]
        /\ Return(block[ent].cnt, ent)
        /\ UNCHANGED cache_count

(* The steps of an activation, in the order the code takes them.           *)
CacheStep ==
    \/ ProbeNext \/ Hit
    \/ RejectCapacity \/ Allocate
    \/ DecodeFails \/ DecodeSucceeds \/ DownsampleOnce \/ StoreKey
    \/ Grow \/ Evict \/ WalkBucket \/ FreeVictim
    \/ Insert

(* Any caller: a string with a valid header, at its own precision or less. *)
CallAny ==
    \E s \in Str, id \in CacheId :
        /\ set_meta_init(s)
        /\ \E target \in SET_BPP_MIN .. s.bpp : cache_decode_set(s, target, id)

Next == CacheStep \/ CallAny

Spec == Init /\ [][Next]_cvars

(* An activation that was begun runs on: it is plain sequential code.      *)
FairSpec == Spec /\ WF_cvars(CacheStep)

-----------------------------------------------------------------------------
(* The blocks met when `next` is followed from `first`, in order (more of  *)
(* them than there are addresses when the links form a cycle).             *)
Trail(first, next) ==
    LET follow == [a \in Pointer |-> IF a = NULL THEN NULL ELSE next[a]]
        nth(n) == Iterate(follow, first, n)
        met == {n \in 0 .. Cardinality(Addr) : nth(n) # NULL}
    IN  [i \in 1 .. Cardinality(met) |-> nth(i - 1)]

Linked(id) == {a \in Addr : block[a].status = "linked" /\ block[a].cache = id}

Key(a) == <<block[a].str, block[a].target_bpp>>

Block == [status : {"free", "private", "linked"},
          cache : CacheId \cup {NULL},
          str : Str \cup {NULL},
          target_bpp : Precision \cup {NULL},
          hash_arr : Seq(Nat),
          cnt : Nat]

Request == [str : Str \cup {NULL},
            target_bpp : Precision \cup {NULL},
            cache_id : CacheId \cup {NULL}]

StaticTypeOK ==
    /\ block \in [Addr -> Block]
    /\ bucket_next \in [Addr -> Pointer]
    /\ newer \in [Addr -> Pointer]
    /\ older \in [Addr -> Pointer]
    /\ buckets \in [CacheId -> [Bucket -> Pointer]]
    /\ newest \in [CacheId -> Pointer]
    /\ oldest \in [CacheId -> Pointer]
    /\ cache_count \in [CacheId -> 0 .. CACHE_SIZE]

LocalTypeOK ==
    /\ phase \in {"idle", "lookup", "decode", "downsample", "makeroom", "unlink", "insert"}
    /\ req \in Request
    /\ ent \in Pointer
    /\ current \in {"hash_arr", "temporary"}
    /\ temporary \in Seq(Nat)
    /\ bpp \in Int
    /\ victim \in Pointer
    /\ link \in Pointer
    /\ ret \in [cnt : Int, hash_pt : Pointer]

(* The state is one the declarations of the code allow, and no cache holds *)
(* more than CACHE_SIZE entries.                                           *)
TypeOK == StaticTypeOK /\ LocalTypeOK

(* Every entry of a cache holds the array of its own key: the string       *)
(* decoded and reduced to exactly the target precision it is filed under.  *)
(* A lookup that matched the string but not the precision, or an array     *)
(* left in the wrong buffer of the downsampling (set9.c:626-637), would    *)
(* answer later comparisons from the wrong values.                         *)
CacheSound ==
    \A a \in Addr : block[a].status = "linked" =>
        /\ block[a].hash_arr = Decoded[block[a].str][block[a].target_bpp]
        /\ block[a].cnt = Len(block[a].hash_arr)

(* A successful call returns a block of the cache it asked, and that block *)
(* holds the array that was asked for (set9.c:602-604, 672-674).           *)
Answered ==
    phase # "idle" /\ phase' = "idle" /\ ret'.cnt >= 0 =>
        /\ ret'.hash_pt \in Addr
        /\ block'[ret'.hash_pt].status = "linked"
        /\ block'[ret'.hash_pt].cache = req.cache_id
        /\ block'[ret'.hash_pt].hash_arr = Decoded[req.str][req.target_bpp]
        /\ ret'.cnt = Len(Decoded[req.str][req.target_bpp])

ReturnsRequested == [][Answered]_cvars

(* Between calls the list of use of each cache, read from newest to oldest *)
(* and from oldest to newest, is the same list; it visits every entry of   *)
(* the cache exactly once and has cache_count entries.                     *)
ListIntact ==
    phase = "idle" => \A id \in CacheId :
        LET down == Trail(newest[id], older)
            up == Trail(oldest[id], newer)
        IN  /\ IsInjective(down)
            /\ ToSet(down) = Linked(id)
            /\ Len(down) = cache_count[id]
            /\ up = Reverse(down)

(* Between calls each bucket chain ends, and holds exactly the entries     *)
(* whose key hashes to it: an entry in another chain would be decoded      *)
(* again and could not be unlinked when evicted.                           *)
BucketsIntact ==
    phase = "idle" => \A id \in CacheId, b \in Bucket :
        LET chain == Trail(buckets[id][b], bucket_next)
        IN  /\ IsInjective(chain)
            /\ ToSet(chain) =
                  {a \in Linked(id) : BucketOf(block[a].str, block[a].target_bpp) = b}

(* The unlinking loop of an eviction never runs off the end of its chain   *)
(* (set9.c:653-655 dereferences *link without a test).                     *)
UnlinkFindsVictim == phase = "unlink" => LinkedTo # NULL

(* No block is lost: whatever is neither free nor being filled is an entry *)
(* of a cache, and between calls nothing is being filled.                  *)
NoLeak ==
    /\ \A a \in Addr : block[a].status = "private" => phase # "idle" /\ ent = a
    /\ \A a \in Addr : block[a].status = "linked" =>
          \/ \E id \in CacheId : a \in ToSet(Trail(newest[id], older))
          \/ a = victim

(* The pointer structures of both caches agree with each other and with    *)
(* what is allocated, after any history of hits, failures and evictions.   *)
StructuresIntact == ListIntact /\ BucketsIntact /\ UnlinkFindsVictim /\ NoLeak

(* Every call returns: neither the walk along a bucket chain nor the loop  *)
(* that searches a chain for the victim of an eviction (set9.c:587, 653)   *)
(* goes round for ever, in chains of several entries that earlier          *)
(* evictions have relinked.                                                *)
CallsReturn == (phase # "idle") ~> (phase = "idle")

(* The caches are least-recently-used lists of keys: the list read through *)
(* the older pointers, as LruCache describes it.                           *)
Recency(id) ==
    LET down == Trail(newest[id], older)
    IN  [i \in 1 .. Len(down) |-> Key(down[i])]

(* What a cache can be asked for.                                          *)
CacheKeys == UNION {{s} \X (SET_BPP_MIN .. s.bpp) : s \in Str}

HasValues(k) == value_capacity(k[1]) >= 1 /\ k[1].values # <<>>

Lru == INSTANCE LruCache
         WITH Caches <- CacheId, Capacity <- CACHE_SIZE, None <- NULL,
              Keys <- CacheKeys,
              Decodable <- HasValues,
              recency <- [id \in CacheId |-> Recency(id)],
              asked <- IF phase = "idle" THEN NULL
                       ELSE <<req.cache_id, <<req.str, req.target_bpp>>>>

ImplementsLru == Lru!Spec

(* The arrays the comparisons read are sets: set9.c:835-836 compares them  *)
(* as "sorted unique sets", and Docs/set9_ru.md:512 says they hold no       *)
(* duplicates.                                                             *)
NormalisedArrays ==
    \A a \in Addr : block[a].status = "linked" =>
        LET arr == block[a].hash_arr
        IN  \A i, j \in DOMAIN arr : i < j => arr[i] < arr[j]
=============================================================================
