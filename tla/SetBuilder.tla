------------------------------- MODULE SetBuilder ------------------------------
(***************************************************************************)
(* The builder of set9.c: set_new, set_add, set_fini and set_free on one   *)
(* set.  Symbols are copied into one growing buffer and known by offset    *)
(* and hash; set_fini hashes, sorts and makes them unique in place, so it  *)
(* leaves the set in another order, and may be called again.               *)
(***************************************************************************)
EXTENDS Integers, Sequences, FiniteSets, Functions

CONSTANTS Symbols,       \* what is added
          Length,        \* their lengths, terminator included
          Hash,          \* the function hash
          BPP,           \* the precisions asked for
          WORD,          \* the width of an unsigned: 32
          SymbolsStep,   \* by how much the array grows: 1024
          StringsFirst,  \* the first size of the buffer: 4096
          RadixFrom,     \* from how many symbols on the radix sort is used: 128
          RadixBits,     \* the bits of one pass: 8
          MaxSymbols,    \* bound: the most symbols that are added
          NoSymbol

ASSUME LengthAssumption == Length \in [Symbols -> Nat \ {0}]
ASSUME BppAssumption == WORD \in 1 .. 32 /\ BPP \subseteq 1 .. WORD
ASSUME HashAssumption == Hash \in [Symbols -> 0 .. 2^WORD - 1]
ASSUME SizesAssumption ==
    /\ SymbolsStep \in Nat \ {0}
    /\ StringsFirst \in Nat \ {0}
    /\ RadixFrom \in Nat
    /\ RadixBits \in 1 .. 8
ASSUME NoSymbolAssumption == NoSymbol \notin Symbols

VARIABLES open,                  \* the set exists
          symbols_v, symbols_cap,  \* the array of symbols and its size
          strings, strings_cap,  \* the bytes of their names and the buffer's size
          phase,                 \* what is under way
          sym, capacity,         \* set_add: the argument, the size tried
          bpp,                   \* set_fini: the argument
          temporary, in_place,   \* the second array; the first is the source
          pass, offsets, next,   \* pass, positions of the digits, next symbol
          unique_hash,           \* the distinct values found
          result                 \* what was encoded last

set == <<open, symbols_v, symbols_cap, strings, strings_cap>>
adding == <<sym, capacity>>
sorting == <<temporary, in_place, pass, offsets, next>>
vars == <<set, phase, adding, bpp, sorting, unique_hash, result>>

cnt == Len(symbols_v)
strings_len == Len(strings)

(* A byte of the buffer: the k-th of a symbol.                             *)
Cells == Symbols \X (Nat \ {0})

Bytes(s) == [k \in 1 .. Length[s] |-> <<s, k>>]

(* The symbol that is read at an offset.                                   *)
StringAt(offset) == strings[offset + 1][1]

(* A symbol in the array; on the stack, there is anything before it is     *)
(* written.                                                                *)
Entries == [offset : Int, hash : Nat]

Unwritten == [offset |-> -1, hash |-> 0]

-----------------------------------------------------------------------------
(* The locals of set_add and set_fini when neither runs.                   *)
NoLocals ==
    /\ sym = NoSymbol
    /\ capacity = 0
    /\ bpp = 0
    /\ temporary = <<>>
    /\ in_place = TRUE
    /\ pass = 0
    /\ offsets = <<>>
    /\ next = 1
    /\ unique_hash = <<>>

Init ==
    /\ open = FALSE
    /\ symbols_v = <<>>
    /\ symbols_cap = 0
    /\ strings = <<>>
    /\ strings_cap = 0
    /\ phase = "idle"
    /\ NoLocals
    /\ result = <<>>

(* No symbols, and no memory for any.                                      *)
Empty ==
    /\ symbols_v' = <<>>
    /\ symbols_cap' = 0
    /\ strings' = <<>>
    /\ strings_cap' = 0

set_new ==
    /\ phase = "idle"
    /\ ~open
    /\ open' = TRUE
    /\ Empty
    /\ UNCHANGED <<phase, adding, bpp, sorting, unique_hash, result>>

set_free ==
    /\ phase = "idle"
    /\ open
    /\ open' = FALSE
    /\ Empty
    /\ UNCHANGED <<phase, adding, bpp, sorting, unique_hash, result>>

-----------------------------------------------------------------------------
(* set_add: the array is enlarged when it is full; the size of the buffer  *)
(* is doubled until the symbol fits.                                       *)
CurrentSize == strings_cap        \* mutant: an empty buffer is doubled, too
StartSize == IF strings_cap = 0 THEN StringsFirst ELSE strings_cap

required == strings_len + Length[sym]

set_add(s) ==
    /\ phase = "idle"
    /\ open
    /\ cnt < MaxSymbols
    /\ symbols_cap' = symbols_cap + (IF cnt = symbols_cap THEN SymbolsStep ELSE 0)
    /\ sym' = s
    /\ capacity' = IF strings_len + Length[s] > strings_cap THEN StartSize ELSE strings_cap
    /\ phase' = "grow"
    /\ UNCHANGED <<open, symbols_v, strings, strings_cap, bpp, sorting, unique_hash, result>>

EnoughOnce == capacity > StringsFirst \/ capacity >= required   \* mutant: doubled once
Enough == capacity >= required

Double ==
    /\ phase = "grow"
    /\ ~Enough
    /\ capacity' = capacity * 2
    /\ UNCHANGED <<set, phase, sym, bpp, sorting, unique_hash, result>>

Store ==
    /\ phase = "grow"
    /\ Enough
    /\ strings_cap' = capacity
    /\ symbols_v' = Append(symbols_v, [offset |-> strings_len, hash |-> 0])
    /\ strings' = strings \o Bytes(sym)
    /\ sym' = NoSymbol
    /\ capacity' = 0
    /\ phase' = "idle"
    /\ UNCHANGED <<open, symbols_cap, bpp, sorting, unique_hash, result>>

-----------------------------------------------------------------------------
Masked(h, b) == IF b < WORD THEN h % 2^b ELSE h

(* A symbol with its hash value cut to the precision.                      *)
HashedOnce(entry, b) ==          \* mutant: a value that is there is cut again
    [entry EXCEPT !.hash =
        Masked(IF entry.hash = 0 THEN Hash[StringAt(entry.offset)] ELSE entry.hash, b)]
Hashed(entry, b) ==
    [entry EXCEPT !.hash = Masked(Hash[StringAt(entry.offset)], b)]

set_fini(b) ==
    /\ phase = "idle"
    /\ open
    /\ cnt > 0
    /\ bpp' = b
    /\ symbols_v' = [i \in 1 .. cnt |-> Hashed(symbols_v[i], b)]
    /\ phase' = IF cnt < RadixFrom THEN "qsort" ELSE "radix"
    /\ temporary' = IF cnt < RadixFrom THEN <<>> ELSE [i \in 1 .. cnt |-> Unwritten]
    /\ UNCHANGED <<open, symbols_cap, strings, strings_cap, adding,
                   in_place, pass, offsets, next, unique_hash, result>>

SortedBy(seq, key(_)) == \A i, j \in 1 .. Len(seq) : i < j => key(seq[i]) <= key(seq[j])

HashOf(entry) == entry.hash

(* qsort leaves symbols of equal value in any order.                       *)
Qsort ==
    /\ phase = "qsort"
    /\ \E perm \in Bijection(1 .. cnt, 1 .. cnt) :
           symbols_v' = [i \in 1 .. cnt |-> symbols_v[perm[i]]]
    /\ SortedBy(symbols_v', HashOf)
    /\ phase' = "unique"
    /\ UNCHANGED <<open, symbols_cap, strings, strings_cap, adding, bpp, sorting, unique_hash, result>>

-----------------------------------------------------------------------------
(* The radix sort: stable passes from the lowest digit on, to and fro      *)
(* between the array and a temporary one.                                  *)
WholeDigits == bpp \div RadixBits          \* mutant: the last digit is cut off
passes == (bpp + RadixBits - 1) \div RadixBits

source == IF in_place THEN symbols_v ELSE temporary
destination == IF in_place THEN temporary ELSE symbols_v

DigitOf(entry) == (entry.hash \div 2^(pass * RadixBits)) % 2^RadixBits

(* Counting, and summing up the counts: where each digit starts.           *)
StartPass ==
    /\ phase = "radix"
    /\ pass < passes
    /\ offsets' = [d \in 0 .. 2^RadixBits - 1 |->
                      Cardinality({i \in 1 .. cnt : DigitOf(source[i]) < d})]
    /\ next' = 1
    /\ phase' = "scatter"
    /\ UNCHANGED <<set, adding, bpp, temporary, in_place, pass, unique_hash, result>>

Stay(position) == position           \* mutant: the next one overwrites it
Advance(position) == position + 1

Scatter ==
    LET digit == DigitOf(source[next])
        moved == [destination EXCEPT ![offsets[digit] + 1] = source[next]]
    IN  /\ phase = "scatter"
        /\ next <= cnt
        /\ IF in_place
           THEN temporary' = moved /\ UNCHANGED symbols_v
           ELSE symbols_v' = moved /\ UNCHANGED temporary
        /\ offsets' = [offsets EXCEPT ![digit] = Advance(@)]
        /\ next' = next + 1
        /\ UNCHANGED <<open, symbols_cap, strings, strings_cap, adding, bpp,
                       in_place, pass, phase, unique_hash, result>>

EndPass ==
    /\ phase = "scatter"
    /\ next > cnt
    /\ in_place' = ~in_place
    /\ pass' = pass + 1
    /\ offsets' = <<>>
    /\ next' = 1
    /\ phase' = "radix"
    /\ UNCHANGED <<set, adding, bpp, temporary, unique_hash, result>>

(* After an odd number of passes the result is in the temporary array.     *)
CopyBack ==
    /\ phase = "radix"
    /\ pass = passes
    /\ symbols_v' = source
    /\ in_place' = TRUE
    /\ temporary' = <<>>
    /\ pass' = 0
    /\ phase' = "unique"
    /\ UNCHANGED <<open, symbols_cap, strings, strings_cap, adding, bpp,
                   offsets, next, unique_hash, result>>

-----------------------------------------------------------------------------
(* Of symbols with one value the last is kept.                             *)
LastOfRun == next < cnt => symbols_v[next].hash # symbols_v[next + 1].hash

SkipEqual ==
    /\ phase = "unique"
    /\ next <= cnt
    /\ ~LastOfRun
    /\ next' = next + 1
    /\ UNCHANGED <<set, phase, adding, bpp, temporary, in_place, pass, offsets, unique_hash, result>>

KeepLast ==
    /\ phase = "unique"
    /\ next <= cnt
    /\ LastOfRun
    /\ unique_hash' = Append(unique_hash, symbols_v[next].hash)
    /\ next' = next + 1
    /\ UNCHANGED <<set, phase, adding, bpp, temporary, in_place, pass, offsets, result>>

(* The values are handed to encode_set, and the string to the caller.      *)
Return ==
    /\ phase = "unique"
    /\ next > cnt
    /\ result' = unique_hash
    /\ unique_hash' = <<>>
    /\ next' = 1
    /\ bpp' = 0
    /\ phase' = "idle"
    /\ UNCHANGED <<set, adding, temporary, in_place, pass, offsets>>

Call ==
    \/ set_new
    \/ set_free
    \/ \E s \in Symbols : set_add(s)
    \/ \E b \in BPP : set_fini(b)

Step ==
    \/ Double \/ Store
    \/ Qsort \/ StartPass \/ Scatter \/ EndPass \/ CopyBack
    \/ SkipEqual \/ KeepLast \/ Return

Next == Call \/ Step

Spec == Init /\ [][Next]_vars

(* Sequential code that is called runs.                                    *)
FairSpec == Spec /\ WF_vars(Step)

-----------------------------------------------------------------------------
(* Types, and room: neither the array nor the buffer is written past its   *)
(* size, whatever was added (set9.c:79-97), and there are no more distinct *)
(* values than symbols (set9.c:357).                                       *)
TypeOK ==
    /\ open \in BOOLEAN
    /\ symbols_v \in Seq(Entries)
    /\ symbols_cap \in Nat
    /\ cnt <= symbols_cap
    /\ strings \in Seq(Cells)
    /\ strings_cap \in Nat
    /\ strings_len <= strings_cap
    /\ phase \in {"idle", "grow", "qsort", "radix", "scatter", "unique"}
    /\ sym \in Symbols \cup {NoSymbol}
    /\ capacity \in Nat
    /\ bpp \in BPP \cup {0}
    /\ temporary \in Seq(Entries)
    /\ in_place \in BOOLEAN
    /\ pass \in Nat
    /\ next \in Nat \ {0}
    /\ unique_hash \in Seq(Nat)
    /\ Len(unique_hash) <= cnt
    /\ result \in Seq(Nat)

(* Through growing, sorting and rehashing every symbol that was added is   *)
(* in the array once, and found at its offset: no name is lost, torn or    *)
(* found twice.                                                            *)
SymbolsKept ==
    /\ \A i \in 1 .. cnt :
           LET offset == source[i].offset
           IN  /\ offset \in 0 .. strings_len - 1
               /\ offset + Length[StringAt(offset)] <= strings_len
               /\ \A k \in 1 .. Length[StringAt(offset)] :
                      strings[offset + k] = <<StringAt(offset), k>>
    /\ \A i, j \in 1 .. cnt : i # j => source[i].offset # source[j].offset
    /\ Cardinality({o \in 1 .. strings_len : strings[o][2] = 1}) = cnt

(* Each pass sorts by one digit more because it keeps the order of the     *)
(* last ones; when the passes are through, so is the sorting (set9.c:151). *)
LowDigits(entry) == entry.hash % 2^(pass * RadixBits)

SortedSoFar ==
    /\ phase = "radix" => SortedBy(source, LowDigits)
    /\ phase = "unique" => SortedBy(symbols_v, HashOf)

(* The pass writes every position of the destination, and each once: the   *)
(* counts it starts with leave each digit exactly its room.                *)
RoomForDigits ==
    phase = "scatter" =>
        \A d \in 0 .. 2^RadixBits - 1 :
            LET left == Cardinality({i \in next .. cnt : DigitOf(source[i]) = d})
                end == Cardinality({i \in 1 .. cnt : DigitOf(source[i]) <= d})
            IN  offsets[d] + left = end

(* The builder is a set of symbols.                                        *)
Symbol_Set == INSTANCE SymbolSet WITH
    members <- {StringAt(source[i].offset) : i \in 1 .. cnt}

ImplementsSymbolSet == Symbol_Set!Spec

(* Every call returns.                                                     *)
CallsReturn == phase # "idle" ~> phase = "idle"
=============================================================================
