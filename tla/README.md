# Set versions: a verification project

The repository holds several implementations of ALT Linux RPM *set versions*:
a package that provides a library lists the symbols it exports, a package that
needs the library lists the symbols it uses, and each list is turned into a
short string. The package manager decides from the two strings alone whether
one set includes the other. A string is `set:`, one character for the precision
(`bpp`, bits per hash value), one for the Golomb-Rice remainder width
(`Mshift`) and a payload: the ascending hash values, delta coded, packed in a
base-62 alphabet with an escape.

This directory holds TLA+ modules translated from that code, the TLC instances
that check them, and proofs for TLAPS. Line numbers below are those of
`src/reimplement/set9.c` unless a file is named.

## 1. The parts of the system

| part | source | state it keeps | operations |
|---|---|---|---|
| decoded-set caches | `reimplement/set9.c` 550-675 | static: two caches (one per operand) of 512 entries, a list in order of use and a hash table over the same blocks | `cache_decode_set` |
| comparison | set9.c 741-844 | none of its own; holds a pointer into a cache while it fetches from the other | `rpmsetcmp`, `sorted_subset`, `step_lower_bound` |
| reduction | set9.c 678-739 | none | `downsample_set` |
| decoder | set9.c 386-547 | a bit register, a quotient, the last value | `set_meta_init`, `set_meta_fini`, `decode_set` |
| encoder | set9.c 174-331 | a bit register, an owed escape | `encode_set`, size estimates |
| builder | set9.c 54-171, 333-384 | a growing array of symbols, a growing buffer of names | `set_new`, `set_add`, `set_fini`, `set_free` |
| newset | `reimplement/newset.c` | a builder that copies names; one cache of arrays keyed by string, for the first operand only (256 entries, insertion at 243) | the same interface, with a staged codec, a galloping search and a two-flag comparison |
| direct format | `new_version/direct_hash/hash_set.c` | a builder with two hash values to a symbol; two caches with entry identities, and in each entry of the first a memory of the last results of comparisons | fixed-width codec in base64, reduction by merging or by sorting, `rpmsetcmp` |
| roaring format | `new_version/roaring_bitmap/bitmap_set.c` | a bitmap, and the string returned last | wrapper of the CRoaring library |
| prototype | `reimplement/set.py` | a list of symbols | the algorithms of newset.c on Python integers |
| tools | `scripts/`, `hash_testing/`, benchmarks | counters | drivers, random comparison of binaries, a shell check of package relations |

How they interact. `set_fini` hashes, sorts and makes unique what `set_add`
collected and hands the values to `encode_set`. `rpmsetcmp` checks both
headers, asks the first cache for the array of the first operand *at the
precision of the coarser operand*, keeps the pointer, asks the second cache for
the other one, and compares the arrays where they lie. A cache that does not
hold the pair (string, precision) allocates a block, calls `decode_set` into
it, and `downsample_set` once for each bit the string is too precise. The direct
format does the same with entries that have an identity: after both fetches
the entry of the first operand is asked for a result it remembers for the
identity of the second. newset caches the first operand alone, undiminished,
and reduces both operands in buffers of the call. Nothing runs concurrently;
what is hard is history.

What is hard to test in it:

- **state between calls.** The caches are static. A mistake in relinking an
  entry shows many calls later, in another operand, and only when the cache is
  full (512 entries); a comparison holds memory of one cache across a call that
  evicts from the other.
- **what outlives what.** A result remembered in one entry names another that
  may be evicted, and its string decoded again under another name; a set of the
  roaring format owns the string that it returned last.
- **numeric edges.** Shifts of a 64-bit register that must never overflow,
  `size_t` subtraction, escapes and padding of the base-62 code, an output
  buffer sized by an estimate, radix passes that only run from 128 symbols on.
- **repeated use.** `set_fini` reorders and masks the set in place and may be
  called again, with another precision or after more symbols were added.
- **partial failure.** A string whose header is good and whose payload is not
  fails after its block was allocated.
- **endless loops.** The probes, the unlinking loop, the stepping search and
  the doubling of the buffer have no bound of their own.

`PROJECT.json` lists each at its line under `hazards`.

What makes each part correct: a cache is invisible, that is, every answer is
that of a computation from the arguments alone; the comparison answers set
inclusion at the coarser precision; the reduction yields the normalised set of
truncated values; decoder and encoder agree with the staged codec of newset.c
and are inverse to each other; the decoder of the direct format accepts what its
encoder writes and nothing else; a builder is a set of symbols: the string
depends on what was added and on nothing else. The four implementations share
two abstract specifications, `SetVersion` of the comparison and `SymbolSet` of the
builder: each of them is shown to implement both. The prototype implements
neither.

## 2. The modules

| module | models | abstracts |
|---|---|---|
| `ArrayAlgorithms` | `downsample_set`, `sorted_subset` and their helpers as operators on arrays: a loop is its round, a function, iterated | where the walk over two arrays jumps |
| `SetStrings` | a string as the cache sees it; `set_meta_init`, `set_meta_fini` | characters: a record of what the program tells apart, with the array the payload decodes to |
| `DecodedCache` | `cache_decode_set`, pointer by pointer: blocks, bucket chains, list of use, eviction, the two buffers of the reduction | the fingerprint is any function to buckets; addresses are model values |
| `LruCache` | what the caches promise: a list of keys in order of use | - |
| `RpmSetCmp` | `rpmsetcmp` over both caches (EXTENDS `DecodedCache`) | the `set:` prefix is a flag |
| `SetVersion` | what `rpmsetcmp` promises: an answer from its two arguments | - |
| `SortedSubset` | `sorted_subset` with `step_lower_bound`, one iteration a step | pointers are offsets |
| `Downsample` | `downsample_set`, one iteration a step | - |
| `SetFormat` | constants, `char_to_num`, the size estimates | - |
| `NewsetCodec` | the stages of newset.c as operators | assertions, buffer sizes |
| `StreamDecoder` | `decode_set` and `decode_chunk`, one refill, run of zeros or store a step | the width of `unsigned` is a constant |
| `StreamEncoder` | `encode_set` and the `encode_writer` functions, one put a step | - |
| `SetBuilder` | `set_new`, `set_add`, `set_fini`, `set_free`, `sort_symbols` | the hash is any function of the name; a byte is (symbol, index) |
| `SymbolSet` | what every builder promises: a set of symbols | - |
| `NewsetMerge` | the walk at the end of newset's `rpmsetcmp` with `gallop_lower_bound`, one iteration a step | pointers are offsets |
| `NewsetCmp` | newset's `rpmsetcmp` with its cache and both reductions (EXTENDS `NewsetMerge`) | the fingerprint; an entry is its string, array and place |
| `NewsetBuilder` | the builder of newset.c, every copied name on a heap | the sort is any that sorts |
| `DirectArrays` | sorting by radix passes and making unique, for arrays of records | - |
| `DirectBuilder` | the builder of hash_set.c, a radix pass a step | the warning |
| `DirectCodec` | `pack_symbol_hashes`, `base64_encode`, `decode_set_sized` in its three ways, bit by bit | header digits are a flag and a number |
| `DirectReduce` | `downsample_to`, `downsample_radix_to`: buffers that change roles, a round or pass a step | - |
| `DirectCmp` | `rpmsetcmp` of hash_set.c with `cache_decode_set`, identities and the memory of results | a list is the sequence it spells, a chain the set of its entries; an entry's identity is its address |
| `BitmapSet`, `BitmapCmp` | builder and `rpmsetcmp` of the roaring format, allocated strings included | CRoaring (outside the repository): a bitmap is the set of its values; its size is any function |
| `PyCmp` | `rpmsetcmp` of `set.py` | strings that do not decode |
| `HashArrays` | ascending arrays | - |
| `CommonFacts` | induction, arithmetic, sequences, ranks and radix passes, and what the loops of `ArrayAlgorithms` compute: the lemmas the proofs share | - |
| `MC*` | the instances | - |
| `*_proofs` | the theorems: of both caches and the comparison of set9.c (`RpmSetCmp_proofs`), of its two array loops and the reduction of the direct format (`ArrayLoops_proofs`), its codec (`Codecs_proofs`), its builder (`SetBuilder_proofs`), and of the other three implementations | - |

State and actions follow the code's names. In `DecodedCache` the variable
`block` is the heap (a block is free, private to a call, or linked), `newer`,
`older`, `bucket_next`, `buckets`, `newest`, `oldest` and `cache_count` are the
fields and static variables of the same names, and `phase` is the place in the
function: `lookup` (584-605), `decode` (607-620), `downsample` (622-641),
`makeroom` and `unlink` (646-658), `insert` (660-674). `xmalloc` returns any free
address and never fails (it exits the program when it does). In `SetBuilder`
`phase` is `grow` (84-98), `qsort` (138-142), `radix` and `scatter` (144-171)
and `unique` (357-373); the memory of the temporary array starts with values no
sort puts there. The comparison sort of the library is any permutation that
sorts. In `DirectCmp` `pc` is the place in `rpmsetcmp`; a call of
`cache_decode_set`, which calls nothing that could come back to the cache, is
one step. Entries of one string in the two caches are two. `given` in the builders
is a history variable: the names added since `set_new`, which the code keeps in
one form or another, or, in the roaring format, not at all; the refinements to
`SymbolSet` speak of it. `hits` of `NewsetCmp` is another. In `DirectCodec` a
value is the sequence of its bits, so that every packing is concatenation and
cutting, and memory that was not yet written is a value of its own, which
shows that the expansion in place, back to front, reads none of what it has
overwritten. In `StreamDecoder` and `StreamEncoder` the register is a number and its
shifts are products, remainders and quotients; `StreamDecoder` wraps values at
`WORD` bits where the code uses `unsigned`.

Each definition that models code is listed with its lines in `PROJECT.json`.
Definitions marked *mutant* are plausible mistakes; each property was seen to
fail when the definition after them is replaced by one.

## 3. What is checked

| run | question | bounds | distinct states |
|---|---|---|---|
| `cache` | do list, chains and heap stay consistent, does every call return the array asked for, and is the whole a least-recently-used list? | one cache of 3 entries, 10 keys of 5 strings, 2 buckets, 4 addresses | 107,890 |
| `cache_calls` | does every call of `cache_decode_set` return: do the walk of a chain and the unlinking loop end? | one cache of 3 entries, 5 keys of 2 strings, 4 of them in one bucket; no symmetry | 137,070 |
| `compare` | is caching invisible to `rpmsetcmp`, and does the pointer it keeps stay good? | two caches of one entry, 7 strings, malformed ones included | 90,922 |
| `array_loops` | `sorted_subset`: do merge and stepping search answer inclusion, without wrapping below zero, and end? `downsample_set`: is the result the normalised set of truncated values, with no head read past its half? does the direct format reach it by rounds and by sorting anew? | every pair of ascending arrays of values up to 8, the small one of at most 2; every ascending array of values up to 9, to 1, 2 and 3 bits; every non-empty subset of 7 values of 26 bits, to 5 precisions | 182,833 |
| `codecs` | decoder of set9: does it stay inside string, register and array, end, and agree with newset.c? encoder: do register and buffer suffice, and do the digits decode to the set? direct format: does the decoder accept the encoder's output and nothing else? | payloads of up to 5 of 6 kinds of characters, remainders of 7 and 12 bits, words of 14; subsets of 8 values of 14 bits, and a set with a quotient of 63 zeros; 6 widths, 9 arrays each, every text one change away | 124,595 |
| `builder` | is set9's builder a set of symbols, whatever the order of calls? | 4 symbols that collide at one precision, 4 additions, radix sort from 3 symbols on in digits of 2 bits | 356,073 |
| `newset_merge` | does the galloping search leave the bisection the right window, do the early exits keep the verdict, and does the walk end? | every pair of ascending arrays of values up to 8, the second of at most 3 | 518,966 |
| `newset` | is newset's cache invisible, and does what was hit survive what was not? is its builder a set of symbols? | 7 strings, 5 of which can be cached, 4 entries, pivot at 2; 3 of 4 symbols, an array that grows by 2 | 539,086 |
| `direct` | does a remembered result always belong to the pair, do held entries stay, do lists and chains agree, is all of it invisible? is the builder a set of symbols, and does each entry keep its name? | two caches of 2 entries, 2 results to an entry, 6 strings, 5 identities; 4 symbols, radix from 3 on in digits of 2 bits | 219,114 |
| `bitmap` | does a set own just the string returned last, is it a set of symbols, and does the comparison answer as `SetVersion`? | 5 additions of 4 symbols, 4 strings, one size too large; 11 strings, one for each way of being refused | 25,600 |
| `cache_repeats` | is a cached array free of duplicates, as the documents say? (it is not) | 1 entry, one string with a zero delta | - |
| `py_compare` | does the prototype compare at the coarser precision? (it does not) | every ascending array of one or two values of 2 and of 3 bits | - |

Functions that share no state of the program are checked side by side in one
module: `MCCodecs`, `MCArrayLoops`, `MCNewset`, `MCDirect` and `MCBitmap` choose
in the initial state which of them a behaviour runs (`interface`, `codec`), and leave
the variables of the others alone. The modules they extend therefore name their
specifications apart: `Spec` and `BuilderSpec`, `CmpSpec`, `ReduceSpec`, `EncodeSpec`. Nothing is lost by it: a builder reads and
writes only the set it is given, a comparison only its arguments and the caches.

Why the bounds are enough. Three entries and ten keys give a list with a first,
a middle and a last entry, hits on each, chains with several entries and an
eviction at any place of a chain; four addresses let a block be reused.
In `cache_calls` up to three entries share a bucket, so that a chain is walked to
its end, past several entries, and the victim is its first, its middle or its last
block; the freed address is the next that is allocated. Leaving out the one
assignment that relinks a chain (655) closes it to a cycle there, after a few
calls, and a later lookup never returns.
In `compare`, one-entry caches evict on every miss, the hardest case for a pointer
that is held, and empty the list on the way; chains of several entries are the
other two runs' matter. In `array_loops` the large array of `sorted_subset` is up to nine
elements long, which gives jumps up to nine and all their halvings. The
decoder's alphabet has a zero, a one, the largest plain digit, the escape, a
digit that may not follow an escape and a character outside the alphabet; five
of them cover an escape at each end, padding of every length, and a quotient
that crosses a character. The smaller constants of `builder` make every
boundary of growing and sorting happen with four symbols: an odd and an even
number of passes, runs of equal values at the end of the array, a name that
needs two doublings. The two `TypeOK` that runs check include the bounds that C
does not: the fill of the register and the capacity of the output array in the
decoder, the size of the buffers in the builder. The types of the other modules
are proved only.

In `newset_merge` a gap of eight elements makes the bound double three times and
meet the half of the array, its end, and neither. Four entries with a pivot at
two let an entry be hit, pushed towards the pivot and past it, and given up; five
strings that can be cached make the full cache work. In `direct` five identities
let an entry be evicted from a cache of two while another remembers it, and be
decoded again; two results to an entry let the third replace the first. The
codec's nine arrays leave one, two and three values over behind its blocks and
put bits on either side of each boundary of a byte and of a character; three of
them are not ascending, and every text has neighbours that are too long, too
short, not canonical in their last bits, and not in the alphabet. In
`array_loops` two radix passes end in the buffer the array came from and three in
the other one, as do one round and three.

`MCArrayLoops` also evaluates, over all its arrays, that the operator
`downsample_set` of `ArrayAlgorithms` meets the same contract as the loops: the
cache models compute with the right function. (`DownsampleCorrect` proves it.)

Symmetry. `cache` and `compare` take the addresses as interchangeable, which they
are: pointers are only compared and followed. `cache_calls` asks a liveness question
and does without, at smaller bounds.

Fairness. Weak fairness of the steps of a call that was made (`FairSpec`): the
code is sequential, and a function that was called keeps running. New calls are
never required. Five liveness properties use it: `CallsReturn` of the cache and of
the builder, and `Terminates` of the stepping search, of the decoder and of the walk
with the galloping search. `rpmsetcmp` has no loop beside those of the cache and of
`sorted_subset`: that both return is what its own return depends on.

The bounds in guards: `MaxSymbols` and `MaxAdded` cap the additions, `MaxStrings` the
strings allocated, `MaxIdentity` the identities given out.
`Returned` steps let a function that has returned stutter, so deadlock is
checked everywhere.

### Disagreements between code and documents

`cache_repeats`: `decode_set` adds every delta to the last value and stores the
sum (544-545), a delta of zero included. `Docs/set9_ru.md:512` says normalised
arrays hold no duplicates, and the comparison relies on it (836). For
`ecbg00`, which decodes to 5, 5, `rpmsetcmp("ecbg00", "edb0")` answers 1 (the
first includes more), although both describe {5}. `set_fini` never makes such a
string, so the inputs of the other runs exclude it.

`py_compare`: `set.py:274` passes the precision before it is decremented. The
values compared have one bit more than the coarser precision; the docstring of
`downsample_set` (197) and newset.c (697, 708) have it the other way round.

Met on the way and left without a run: `newset.c:487` speaks of LRU caching,
while a full cache gives up its last entry wherever that was last used (543-556;
`newset` shows what holds instead: the entries hit last are kept);
`newset.c:391` asserts of a character from the string that not both escape bits
are set, which an escape followed by a digit of 48 or more contradicts; and
`bitmap_set.c:99` compares the number of values with the number of calls of
`set_add`, so that a symbol that was added twice is announced as a collision.

## 4. What is proved

For every value of the constants: any cache size, any strings, any hash
function, arrays and sets of any size. The line of argument, from the bottom up:
the pure functions meet their contracts; each cache is sound; each `rpmsetcmp`
therefore implements `SetVersion`. Beside it stand the loops of set9.c one
iteration at a time, and the builders.

**The functions.** `CommonFacts` proves what the loops of `ArrayAlgorithms`
compute. A loop is a round that is iterated; `Induct`, induction over the
numbers, follows from the fact that a set of numbers has a least member, and
`LoopRule` turns an invariant of the round and a measure that falls into a
contract of the loop. From it: `LowCountCorrect` (the binary search finds the
first value with the high bit set), `MergeCorrect`, `DownsampleCorrect` (the
result is the ascending array of the truncated values), `SubsetCorrect`
(`sorted_subset` answers inclusion), `Retruncation` (truncating to fewer bits in two
rounds is truncating once). A pass of a radix sort is described once, too: the
*rank* of an entry is the place a stable counting sort gives it; ranks are distinct
and cover the array, so a pass is a permutation, and it sorts by one digit more
(`PassSortsKeys`); `UniqueCorrect` is about the removal of repetitions that follows.

- **`RpmSetCmp_proofs`**, the caches - `TypeCorrect`, `EntriesSound` (`CacheSound`),
  `UnlinkingSafe` (`UnlinkFindsVictim`: the eviction loop always has a block to
  look at), `CallsReturnRequested` (`ReturnsRequested`), `StructuresStayIntact`
  (`StructuresIntact`), `CachesAreLru` (`ImplementsLru`). The inductive invariant
  (`IInv`) adds what each phase knows of the block being filled, that no key is
  entered twice, that `cache_count` counts the entries, and that chains and list
  are sound. The last is said without reachability: each chain has an order of
  birth, one number to a block, such that the bucket's head is the youngest and
  every `bucket_next` leads to the next older one (`ChainOf`), and the list an
  order of use (`ListOf`). A lookup has not passed the entry it looks for and the
  unlinking loop has not passed the victim (`Ahead`), which is why the loop needs
  no end test. What an order of use describes is also spelled by a sequence of
  blocks (`ListThreaded`), which the walk of `Trail` finds; a step that relinks
  the list changes that sequence as `LruCache` changes its list of keys, so the
  pointers implement it.
- **`RpmSetCmp_proofs`**, the comparison - `PointersHold` (`HeldArrays`),
  `CmpTypeCorrect`, `CachingInvisible` (`ImplementsSetVersion`). `CmpInv` joins the
  invariant of the caches with what `rpmsetcmp` knows at each step; the second fetch
  works on the other cache and disturbs no linked block of the first. `RefineInv`
  adds when a fetch fails. So the arrays compared are those of the two strings at
  the coarser precision, and `SubsetCorrect` makes the answer inclusion.
- **`ArrayLoops_proofs`**, the loops themselves, position by position.
  `sorted_subset`: `SubsetTypeCorrect`, `SubtractionSafe` (`NoWrap`),
  `SearchCorrect` (merge and stepping search stop at the same element),
  `InclusionCorrect` (`AnswersInclusion`). The invariant says that
  what was passed in the small array was found, that nothing passed in the large
  one is still needed, and that the search stands on an element below the value
  and, once its step has vanished, just before one that is not.
  `downsample_set`: `TypeCorrect`, `ReadsCorrect` (`HeadsInside`),
  `SplitCorrect`, `ReductionCorrect` (`ReducesSet`). What has
  been written is ascending, is exactly the truncated values before the two
  heads, and is below both heads.
  `downsample_to` of hash_set.c: `DirectReductionCorrect` (`DirectReducesSet`). On the
  way by rounds the current buffer is the set at the precision reached
  (`DownsampleCorrect`, `Retruncation`); on the way by sorting it has the truncated
  values in some order, sorted by the digits that were passed, in whichever of the two
  buffers is the source, and as many passes run as the target has digits. Either way
  the buffer that is kept is the one that holds the result. This is what
  `DecodedAssumption` of `DirectCmp` asks of its reduction.
- **`Codecs_proofs`**, the codec of set9.c, for any payload and any set. The decoder:
  `DecoderTypeCorrect` (`TypeOK`), `DecoderReadsInside` (`ReadsInside`). The
  invariant keeps a budget (`BudgetInv`): a character brought at most six bits, every value
  stored took `Mshift` + 1 of them at least, and what is held, in register and
  quotient, has not been spent yet; so the array sized from the length of the string
  cannot be passed, and nothing in the register lies above the bits it counts. The
  encoder: `EncoderTypeCorrect`, `EncoderFitsBuffer` (`FitsBuffer`). What the writer used
  and what it may still owe, an escape included, are within what the puts so far
  allow (`SpentInv`): at most a digit for five bits, since a digit carries five or six.
  The quotients of an ascending set sum to at most twice its size
  (`MshiftFacts`, from the choice of `Mshift`), which bounds the bits of all puts; this
  is below the estimate of `encode_golomb_size` and `encode_base62_size`.
- **`SetBuilder_proofs`** - `TypeCorrect`, `NoSymbolLost` (`SymbolsKept`),
  `SortCorrect` (`SortedSoFar`), `RoomCorrect` (`RoomForDigits`), and
  `BuilderImplementsSet`: the refinement `Spec => ImplementsSymbolSet`. The
  invariant of a pass says that what was scattered lies at its rank and that the
  offset of a digit is where its next symbol goes.
- **`NewsetCmp_proofs`**, from the inside out - the walk: `WindowCorrect`
  (`WindowHolds`), `VerdictCorrect` (`AnswersVerdict`). The invariant (`IInv`) says
  that a flag that stands vouches for all that was passed and one that fell has a
  witness, and that what was passed in either array is below all that is left of
  the other; so an array that has not ended when the other has, or when both
  flags fell, decides. Of the search it says that the doubling has an element
  below the value behind it and stays within the array. The cache: `HitsKept`
  (`RecentHitsKept`), by `CacheInv`: the strings hit last lead the cache and no
  string has two entries, through hits, insertions at the pivot and evictions.
  The whole: `CachingInvisible` (`ImplementsSetVersion`), by `ReduceInv`: each array
  is that of its string at the precision reached so far, neither is reduced past
  the coarser one, and the walk starts at both heads. The builder:
  `NewsetBuilderImplementsSet` (`ImplementsSymbolSet`); the room is a multiple of the
  block the array grows by and never less than what was added, and `set_fini` works
  on truncated copies of the hash values, so that nothing of the set is lost to a
  later call.
- **`DirectCmp_proofs`** - `MemoryCorrect` (`MemorySound`), `HeldCorrect`
  (`HeldEntries`), `StructuresCorrect` (`StructuresAgree`), `RememberingInvisible`
  (`ImplementsSetVersion`). The invariant adds that
  whatever a memory names was given out before (`Sound`), which with the fact that a
  new entry takes a number nobody has makes a name either dead for good or that
  of the entry it was stored for; that an entry holds the array of its own key;
  and that the entries a comparison holds are of one cache each (`Holds`), so that
  the fetch of the second cannot evict the first. Lists are proved to stay free
  of repetitions when an entry is moved to the front, entered or given up. A
  result, remembered or computed, is then the relation of the two arrays, and
  `LengthsDecide` is why comparing counts first loses nothing. The builder:
  `BuilderNamesFollow` (`NamesFollow`), `DirectBuilderImplementsSet`
  (`ImplementsSymbolSet`). Each entry has the offset of a name and this name's
  whole value, and every name added has an entry (`Named`); that survives
  the growth of either array, both sorts, and compaction, which overwrites the
  truncated values of entries and never the whole ones, so the next `set_fini` starts
  afresh.
- **`BitmapSet_proofs`** - `StringsOwned` (`OneStringOwned`), `BuilderImplementsSet`
  (`ImplementsSymbolSet`). The invariant: the bitmap is that of the names added, nothing
  was added when the count is zero, and the strings allocated are the one the set
  holds. `BoundedArray` and `SortedCorrect` show that every set of numbers below a
  bound has an ascending array and that serialising loses none of its values.
  The comparison: `BitmapAnswers` (`ImplementsSetVersion`), by `CallInv`: both bitmaps
  stand at the coarser precision when the inclusions are asked for, because truncation
  to a set's own precision changes nothing, which is why only the finer one is copied.

Assumptions on the constants, each named where it is declared and evaluated by
TLC for the constants of the runs: `NULL` is no address and there are finitely many
addresses (`FiniteAssumption`: `NoLeak` counts on each being free, held or linked);
the bucket functions have values in `Bucket`; caches and memories have at least one
place; `Decoded` is what decoder and reduction deliver (in `DecodedCache`, one
`downsample_set` for each bit less; in `DirectCmp`, whose reduction is the subject of
`DirectReduce`, the ascending array of the truncated values, which
`DirectReductionCorrect` proves of it). `WrittenAssumption`, of `RpmSetCmp`
and of `NewsetCmp`: the strings compared were written by `set_fini`, so their values
ascend and are below 2^bpp, and in newset the estimate of the capacity of a string
with values is not zero, because a value takes a bit at least and a character
brings six at most. The refinements need it, for a string with a zero delta is
answered wrongly (see above); cache properties do not. `BitmapArgAssumption` says the same of the bitmaps compared: `set_fini` truncates
before it serialises (bitmap_set.c:104-133), and `decode_bitmap` does not look.
`ReduceAssumption`: what `downsample_to` gets is ascending and of the precision its header
names, which the decoder checks. `EncoderAssumption`: sets are ascending and below
2^bpp, with bpp in 10..32, which is what `set_fini` accepts and makes; the decoder's
`Mshift` is one that `set_meta_init` accepts. The `BuilderAssumption` of either builder:
values are of at most 32 bits, and arrays grow by something.
Precisions are at most 32,
digits of the radix sort at most 8 bits, names at least one byte, the terminator.
Nothing is assumed of the hash functions but that their values are numbers.

Only model-checked:

- liveness (`CallsReturn`, `Terminates`), out of the prover's reach;
- what the codecs compute for every input: `StreamedAsStaged`, `RoundTrip`,
  `AcceptsCanonical`. The stages of `NewsetCodec` the first two compare with are
  recursive functions and folds over their data, and so is the direct format's
  encoder: what they compute for every input is an induction over data. What is
  proved of the codecs is what does not depend on it: their types, and that they
  read and write inside their buffers;
- the two runs that end in a violation, which are about particular strings.

## 5. What is not modelled, and what comes next

Not to be modelled: the hash functions' arithmetic (they enter as any function),
messages, `main` functions, benchmarks, plots, and the CRoaring library, which
is not part of the repository. The command-line tools read lines, call the
library and print; the check of package relations (`scripts/`) is a shell
pipeline over a repository of packages: neither keeps a state of its own that
outlives a call. Left out of modelled parts: the sizes of newset's bit buffers
(its codec is modelled stage by stage, by results), the codec of the prototype,
its builder (`set.py:365-369` replaces the labels by those that were kept for one
precision, so a second `set_fini` works on another set: it is no `SymbolSet`),
the padding of heap memory, and what a caller does with the string `set_fini`
returned: that nothing the roaring format owns may be freed by a caller, as the
strings of the other implementations are, is outside the model.

What could come next:

1. The bit buffers of newset's staged codec: `encode_base62_size` and
   `decode_base62_size` against what the stages write.
2. The codec of the direct format for every text: `AcceptsCanonical` with packing
   and unpacking stated by positions instead of by folds, so that the three ways
   of its decoder can be proved to read the same bits.
