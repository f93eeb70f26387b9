----------------------------- MODULE DirectBuilder ------------------------------
(***************************************************************************)
(* The builder of hash_set.c.  A symbol's hash value is computed when it   *)
(* is added and kept whole; set_fini masks a second copy of it, sorts by   *)
(* this copy and compacts the copies alone, so that it may be called again *)
(* although it leaves the copies in another order than their symbols.      *)
(***************************************************************************)
EXTENDS DirectArrays, SequencesExt

CONSTANTS Symbols,       \* what is added
          Length,        \* their lengths, terminator included
          Hash,          \* the function hash
          BPP,           \* the precisions asked for
          WORD,          \* the width of an unsigned: 32
          SymbolsStep,   \* by how much the array grows: 1024
          StringsFirst,  \* the first size of the buffer of names: 4096
          RadixFrom,     \* from how many symbols on the radix sort is used: 128
          RadixBits,     \* the bits of one pass: 8
          MaxSymbols     \* bound: the most symbols that are added

ASSUME BuilderAssumption ==
    /\ Length \in [Symbols -> Nat \ {0}]
    /\ WORD \in 1 .. 32 /\ BPP \subseteq 1 .. WORD
    /\ Hash \in [Symbols -> 0 .. 2^WORD - 1]
    /\ {SymbolsStep, StringsFirst} \subseteq Nat \ {0}
    /\ RadixBits \in 1 .. 8
    /\ {RadixFrom, MaxSymbols} \subseteq Nat

VARIABLES open,                     \* the set exists
          symbols_v, symbols_cap,   \* [offset, full_hash, hash], and the array's size
          strings, strings_cap,     \* the bytes of the names, and the buffer's size
          phase,                    \* what set_fini is at
          bpp,
          temporary, in_place,      \* the second array; whether the first is the source
          pass,
          encoded,                  \* the values encoded last
          given                     \* history: the names set_add was called with

set == <<open, symbols_v, symbols_cap, strings, strings_cap>>
sorting == <<temporary, in_place, pass>>
builder_vars == <<set, phase, bpp, sorting, encoded, given>>

cnt == Len(symbols_v)
strings_len == Len(strings)

(* A name is the sequence of its bytes, and read from an offset.           *)
Bytes(sym) == [k \in 1 .. Length[sym] |-> <<sym, k>>]
StringAt(offset) == strings[offset + 1][1]

BuilderInit ==
    /\ open = FALSE
    /\ symbols_v = <<>> /\ symbols_cap = 0
    /\ strings = <<>> /\ strings_cap = 0
    /\ phase = "idle"
    /\ bpp = 0
    /\ temporary = <<>> /\ in_place = TRUE /\ pass = 0
    /\ encoded = <<>>
    /\ given = {}

Empty ==
    /\ symbols_v' = <<>> /\ symbols_cap' = 0
    /\ strings' = <<>> /\ strings_cap' = 0

set_new ==
    /\ phase = "idle"
    /\ ~open
    /\ open' = TRUE
    /\ given' = {}
    /\ Empty
    /\ UNCHANGED <<phase, bpp, sorting, encoded>>

set_free ==
    /\ phase = "idle"
    /\ open
    /\ open' = FALSE
    /\ given' = {}
    /\ Empty
    /\ UNCHANGED <<phase, bpp, sorting, encoded>>

(* The buffer is doubled as often as the name needs to fit.                *)
Room(required) ==
    IF required <= strings_cap THEN strings_cap
    ELSE LET first == IF strings_cap = 0 THEN StringsFirst ELSE strings_cap
             doublings == CHOOSE j \in 0 .. required :
                 required <= first * 2^j /\ \A i \in 0 .. j - 1 : first * 2^i < required
         IN  first * 2^doublings

set_add(sym) ==
    /\ phase = "idle"
    /\ open
    /\ cnt < MaxSymbols
    /\ symbols_cap' = symbols_cap + (IF cnt = symbols_cap THEN SymbolsStep ELSE 0)
    /\ strings_cap' = Room(strings_len + Length[sym])
    /\ symbols_v' = Append(symbols_v,
           [offset |-> strings_len, full_hash |-> Hash[sym], hash |-> Hash[sym]])
    /\ strings' = strings \o Bytes(sym)
    /\ given' = given \cup {sym}
    /\ UNCHANGED <<open, phase, bpp, sorting, encoded>>

-----------------------------------------------------------------------------
Mask(h, b) == IF b < WORD THEN h % 2^b ELSE h

MaskedAgain(entry, b) == [entry EXCEPT !.hash = Mask(entry.hash, b)]   \* mutant: the copy is masked
Masked(entry, b) == [entry EXCEPT !.hash = Mask(entry.full_hash, b)]

set_fini(b) ==
    /\ phase = "idle"
    /\ open
    /\ cnt > 0
    /\ bpp' = b
    /\ symbols_v' = [i \in 1 .. cnt |-> Masked(symbols_v[i], b)]
    /\ phase' = IF cnt < RadixFrom THEN "qsort" ELSE "radix"
    /\ UNCHANGED <<open, symbols_cap, strings, strings_cap, sorting, encoded, given>>

(* qsort leaves symbols of equal value in any order.                       *)
Qsort ==
    /\ phase = "qsort"
    /\ \E perm \in Bijection(1 .. cnt, 1 .. cnt) :
           symbols_v' = [i \in 1 .. cnt |-> symbols_v[perm[i]]]
    /\ \A i, j \in 1 .. cnt : i < j => symbols_v'[i].hash <= symbols_v'[j].hash
    /\ phase' = "compact"
    /\ UNCHANGED <<open, symbols_cap, strings, strings_cap, bpp, sorting, encoded, given>>

passes == (bpp + RadixBits - 1) \div RadixBits

source == IF in_place THEN symbols_v ELSE temporary

RadixPass ==
    LET digit == [i \in 1 .. cnt |-> (source[i].hash \div 2^(pass * RadixBits)) % 2^RadixBits]
        moved == Distributed(source, digit)
    IN  /\ phase = "radix"
        /\ pass < passes
        /\ IF in_place
           THEN temporary' = moved /\ UNCHANGED symbols_v
           ELSE symbols_v' = moved /\ UNCHANGED temporary
        /\ in_place' = ~in_place
        /\ pass' = pass + 1
        /\ UNCHANGED <<open, symbols_cap, strings, strings_cap, phase, bpp, encoded, given>>

(* After an odd number of passes the result is in the temporary array.     *)
CopyBack ==
    /\ phase = "radix"
    /\ pass = passes
    /\ symbols_v' = source
    /\ temporary' = <<>>
    /\ in_place' = TRUE
    /\ pass' = 0
    /\ phase' = "compact"
    /\ UNCHANGED <<open, symbols_cap, strings, strings_cap, bpp, encoded, given>>

(* The distinct values move to the front, into the entries of whichever    *)
(* symbols stand there, and are packed from there.                         *)
unique == Unique([i \in 1 .. cnt |-> symbols_v[i].hash])

WholeEntries ==      \* mutant: the entries move, not their values alone
    LET last == SetToSortSeq({i \in 1 .. cnt :
                    i < cnt => symbols_v[i].hash # symbols_v[i + 1].hash}, <)
    IN  [i \in 1 .. cnt |-> symbols_v[IF i <= Len(last) THEN last[i] ELSE i]]
Compacted ==
    [i \in 1 .. cnt |-> IF i <= Len(unique) THEN [symbols_v[i] EXCEPT !.hash = unique[i]]
                        ELSE symbols_v[i]]

Compact ==
    /\ phase = "compact"
    /\ symbols_v' = Compacted
    /\ encoded' = unique
    /\ bpp' = 0
    /\ phase' = "idle"
    /\ UNCHANGED <<open, symbols_cap, strings, strings_cap, sorting, given>>

BuilderNext ==
    \/ set_new \/ set_free
    \/ \E sym \in Symbols : set_add(sym)
    \/ \E b \in BPP : set_fini(b)
    \/ Qsort \/ RadixPass \/ CopyBack \/ Compact

BuilderSpec == BuilderInit /\ [][BuilderNext]_builder_vars

-----------------------------------------------------------------------------
(* However often and for whichever precisions set_fini was called before,  *)
(* its string is the one of the symbols that were added (hash_set.c:86-133 *)
(* and 293-318).                                                           *)
Symbol_Set == INSTANCE SymbolSet WITH members <- given, result <- encoded

ImplementsSymbolSet == Symbol_Set!Spec

(* Each entry still leads to its name by the offset it has carried along,  *)
(* which the warning about collisions prints, and holds its whole value.   *)
NamesFollow ==
    \A sym \in Symbols : sym \in given <=> \E i \in 1 .. cnt :
        StringAt(source[i].offset) = sym /\ source[i].full_hash = Hash[sym]
=============================================================================
