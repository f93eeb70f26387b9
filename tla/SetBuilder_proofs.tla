--------------------------- MODULE SetBuilder_proofs ---------------------------
(***************************************************************************)
(* For any names, hash values and sizes, and however often it is used: the *)
(* builder stays inside its buffers, its radix sort loses no symbol and    *)
(* sorts, and what it encodes is the array of the set of added symbols.    *)
(***************************************************************************)
EXTENDS SetBuilder, CommonFacts, FiniteSetTheorems

-----------------------------------------------------------------------------
(* Where the calls stand, and which locals are in use.                     *)
Running == phase \in {"qsort", "radix", "scatter", "unique"}

ControlInv ==
    /\ ~open => phase = "idle" /\ symbols_v = <<>>
    /\ phase = "grow" => sym \in Symbols /\ cnt < symbols_cap
    /\ phase # "unique" => unique_hash = <<>>
    /\ phase \in {"idle", "grow", "qsort", "radix"} => next = 1
    /\ next <= cnt + 1
    /\ phase \notin {"radix", "scatter"} => in_place /\ pass = 0
    /\ phase \in {"radix", "scatter"} => Len(temporary) = cnt
    /\ Running => bpp \in BPP /\ cnt > 0
    /\ phase = "radix" => pass <= passes
    /\ phase = "scatter" => pass < passes

(* The name at an offset of a buffer, and that it is whole.                *)
NameAt(str, offset) == str[offset + 1][1]

Whole(str, offset) ==
    /\ offset \in 0 .. Len(str) - 1
    /\ offset + Length[NameAt(str, offset)] <= Len(str)
    /\ \A k \in 1 .. Length[NameAt(str, offset)] :
           str[offset + k] = <<NameAt(str, offset), k>>

(* Every name of the buffer has its entry, and one only.                   *)
Starts(str) == {o \in 1 .. Len(str) : str[o][2] = 1}

Kept(src, str) ==
    /\ \A i \in 1 .. Len(src) : Whole(str, src[i].offset)
    /\ \A i, j \in 1 .. Len(src) : i # j => src[i].offset # src[j].offset
    /\ Cardinality(Starts(str)) = Len(src)

(* The values are those of the names, cut to the precision.                *)
Values(src, str, b) ==
    \A i \in 1 .. Len(src) : src[i].hash = Masked(Hash[NameAt(str, src[i].offset)], b)

(* Sorted by the lowest bits.                                              *)
SortedTo(src, bits) ==
    \A i, j \in 1 .. Len(src) : i < j => src[i].hash % 2^bits <= src[j].hash % 2^bits

Sorted(src) == \A i, j \in 1 .. Len(src) : i < j => src[i].hash <= src[j].hash

SortedInv ==
    /\ phase \in {"radix", "scatter"} => SortedTo(source, pass * RadixBits)
    /\ phase = "unique" => Sorted(source)

(* The digits of a pass.                                                   *)
Digits(src, p) ==
    [i \in 1 .. Len(src) |-> (src[i].hash \div 2^(p * RadixBits)) % 2^RadixBits]

(* Each entry seen is at its rank, and the next of each digit goes to its. *)
Scattered(src, dst, off, nx, dig) ==
    /\ off \in [0 .. 2^RadixBits - 1 -> Nat]
    /\ \A d \in 0 .. 2^RadixBits - 1 :
           off[d] = Less(dig, Len(src), d) + Seen(dig, nx - 1, d)
    /\ \A k \in 1 .. nx - 1 : dst[Rank(dig, Len(src), k)] = src[k]

ScatterInv ==
    phase = "scatter" => Scattered(source, destination, offsets, next, Digits(source, pass))

(* What is kept are the values seen, the one of an unfinished run excepted. *)
Uniques(src, kept, nx) ==
    /\ Ascending(kept)
    /\ Len(kept) < nx
    /\ \A x \in 1 .. Len(kept) : \E k \in 1 .. nx - 1 : kept[x] = src[k].hash
    /\ \A k \in 1 .. nx - 1 :
           \/ src[k].hash \in Range(kept)
           \/ nx <= Len(src) /\ src[k].hash = src[nx].hash
    /\ nx <= Len(src) => \A x \in 1 .. Len(kept) : kept[x] < src[nx].hash

UniqueInv == phase = "unique" => Uniques(source, unique_hash, next)

IInv == /\ TypeOK
        /\ ControlInv
        /\ Kept(source, strings)
        /\ Running => Values(source, strings, bpp)
        /\ SortedInv
        /\ ScatterInv
        /\ UniqueInv

-----------------------------------------------------------------------------
(* The passes reach the highest bit of a precision.                        *)
Passes(b) == (b + RadixBits - 1) \div RadixBits

LEMMA PassBits ==
    ASSUME NEW b \in BPP
    PROVE  /\ Passes(b) \in Nat
           /\ b \in 1 .. WORD /\ b \in 1 .. 32
           /\ \A p \in Nat : p < Passes(b) => p * RadixBits \in 0 .. 31
           /\ Passes(b) * RadixBits \in b .. b + RadixBits - 1
<1>1. b \in 1 .. WORD /\ WORD \in 1 .. 32 /\ RadixBits \in 1 .. 8 /\ b \in 1 .. 32
  BY BppAssumption, SizesAssumption
<1> QED
  BY <1>1, PassesReach DEF Passes

(* Cutting leaves no more bits than asked for.                             *)
LEMMA MaskedFits ==
    ASSUME NEW s \in Symbols, NEW b \in BPP
    PROVE  Masked(Hash[s], b) \in Nat /\ Masked(Hash[s], b) < 2^b
<1>1. b \in 1 .. WORD /\ WORD \in 1 .. 32 /\ Hash[s] \in 0 .. 2^WORD - 1
  BY BppAssumption, HashAssumption
<1> QED
  BY <1>1, CutFits DEF Masked

(* The entry that is read next always is one.                              *)
LEMMA Typing ==
    ASSUME TypeOK, ControlInv
    PROVE  /\ cnt \in Nat /\ strings_len \in Nat
           /\ source \in Seq(Entries) /\ Len(source) = cnt
           /\ phase \notin {"radix", "scatter"} => source = symbols_v
           /\ phase \in {"radix", "scatter"} =>
                 /\ destination \in Seq(Entries) /\ Len(destination) = cnt
<1>1. source \in Seq(Entries) /\ Len(source) = cnt
  BY DEF TypeOK, ControlInv, source, cnt
<1>2. cnt \in Nat /\ strings_len \in Nat
  BY DEF TypeOK, cnt, strings_len
<1>3. phase \notin {"radix", "scatter"} => source = symbols_v
  BY DEF ControlInv, source
<1>4. ASSUME phase \in {"radix", "scatter"}
      PROVE  destination \in Seq(Entries) /\ Len(destination) = cnt
  BY <1>4 DEF TypeOK, ControlInv, destination, cnt
<1> QED
  BY <1>1, <1>2, <1>3, <1>4

LEMMA EntryType ==
    ASSUME NEW src \in Seq(Entries), NEW i \in 1 .. Len(src)
    PROVE  src[i] \in Entries /\ src[i].offset \in Int /\ src[i].hash \in Nat
<1>1. src[i] \in Entries
  OBVIOUS
<1> QED
  BY <1>1 DEF Entries

LEMMA NameType ==
    ASSUME NEW str \in Seq(Cells), NEW o \in 0 .. Len(str) - 1
    PROVE  NameAt(str, o) \in Symbols
<1>1. o + 1 \in 1 .. Len(str)
  OBVIOUS
<1>2. str[o + 1] \in Cells
  BY <1>1
<1> QED
  BY <1>2 DEF NameAt, Cells

-----------------------------------------------------------------------------
(* The parts of the invariant when there is no symbol.                     *)
LEMMA NoneKept ==
    ASSUME NEW src, src = <<>>, NEW str, str = <<>>
    PROVE  Kept(src, str)
<1>1. Len(src) = 0 /\ Len(str) = 0
  OBVIOUS
<1>2. Starts(str) = {}
  BY <1>1 DEF Starts
<1> QED
  BY <1>1, <1>2, FS_EmptySet DEF Kept

(* The builder starts with the invariant.                                  *)
LEMMA InitInv == Init => IInv
<1> SUFFICES ASSUME Init PROVE IInv
  OBVIOUS
<1>1. cnt = 0 /\ strings_len = 0 /\ source = <<>> /\ phase = "idle" /\ ~Running
  BY DEF Init, cnt, strings_len, source, NoLocals, Running
<1>2. TypeOK
  <2>1. /\ symbols_v = <<>> /\ temporary = <<>> /\ strings = <<>>
        /\ unique_hash = <<>> /\ result = <<>>
    BY DEF Init, NoLocals
  <2>2. /\ symbols_v \in Seq(Entries) /\ temporary \in Seq(Entries)
        /\ strings \in Seq(Cells)
    BY <2>1
  <2>3. unique_hash \in Seq(Nat) /\ result \in Seq(Nat) /\ Len(unique_hash) = 0
    BY <2>1
  <2>4. open \in BOOLEAN /\ in_place \in BOOLEAN
    BY DEF Init, NoLocals
  <2>5. /\ symbols_cap = 0 /\ strings_cap = 0 /\ sym = NoSymbol
        /\ capacity = 0 /\ bpp = 0 /\ pass = 0 /\ next = 1
    BY DEF Init, NoLocals
  <2> QED
    BY <1>1, <2>2, <2>3, <2>4, <2>5 DEF TypeOK
<1>3. ControlInv
  BY <1>1 DEF Init, NoLocals, ControlInv
<1>4. Kept(source, strings)
  BY <1>1, NoneKept DEF Init
<1> QED
  BY <1>1, <1>2, <1>3, <1>4 DEF IInv, SortedInv, ScatterInv, UniqueInv

(* A set is made, or given back: there is no symbol.                       *)
LEMMA EmptyInv ==
    ASSUME IInv, set_new \/ set_free
    PROVE  IInv'
<1>1. /\ open' \in BOOLEAN /\ symbols_v' = <<>> /\ symbols_cap' = 0
      /\ strings' = <<>> /\ strings_cap' = 0
      /\ phase = "idle" /\ phase' = phase /\ adding' = adding /\ bpp' = bpp
      /\ sorting' = sorting /\ unique_hash' = unique_hash /\ result' = result
  BY DEF set_new, set_free, Empty, vars
<1>2. /\ sym' = sym /\ capacity' = capacity
      /\ temporary' = temporary /\ in_place' = in_place /\ pass' = pass
      /\ offsets' = offsets /\ next' = next
  BY <1>1 DEF adding, sorting
<1>3. TypeOK /\ ControlInv
  BY DEF IInv
<1>4. unique_hash = <<>> /\ next = 1 /\ in_place /\ pass = 0
  BY <1>1, <1>3 DEF ControlInv
<1>5. cnt' = 0 /\ strings_len' = 0 /\ source' = <<>> /\ phase' = "idle" /\ ~Running'
  BY <1>1, <1>2, <1>4 DEF cnt, strings_len, source, Running
<1>6. TypeOK'
  <2>1. symbols_v' \in Seq(Entries) /\ strings' \in Seq(Cells)
    BY <1>1
  <2>2. Len(unique_hash') = 0
    BY <1>1, <1>4
  <2> QED
    BY <1>1, <1>2, <1>3, <1>5, <2>1, <2>2 DEF TypeOK
<1>7. ControlInv'
  BY <1>1, <1>2, <1>4, <1>5 DEF ControlInv
<1>8. Kept(source, strings)'
  BY <1>1, <1>5, NoneKept
<1> QED
  BY <1>5, <1>6, <1>7, <1>8 DEF IInv, SortedInv, ScatterInv, UniqueInv

(* set_add finds room for the entry, and looks for room for the name.      *)
LEMMA AddInv ==
    ASSUME IInv, NEW s \in Symbols, set_add(s)
    PROVE  IInv'
<1>1. TypeOK /\ ControlInv /\ Kept(source, strings)
  BY DEF IInv
<1>2. /\ phase = "idle" /\ open /\ phase' = "grow"
      /\ symbols_cap' = symbols_cap + (IF cnt = symbols_cap THEN SymbolsStep ELSE 0)
      /\ sym' = s
      /\ capacity' = IF strings_len + Length[s] > strings_cap THEN StartSize ELSE strings_cap
  BY DEF set_add
<1>3. /\ open' = open /\ symbols_v' = symbols_v /\ strings' = strings
      /\ strings_cap' = strings_cap /\ bpp' = bpp /\ unique_hash' = unique_hash
      /\ result' = result /\ temporary' = temporary /\ in_place' = in_place
      /\ pass' = pass /\ offsets' = offsets /\ next' = next
  BY DEF set_add, sorting
<1>4. /\ cnt' = cnt /\ strings_len' = strings_len /\ source' = source /\ ~Running'
      /\ cnt \in Nat
  BY <1>1, <1>2, <1>3, Typing DEF cnt, strings_len, source, Running
<1>5. symbols_cap' \in Nat /\ cnt < symbols_cap' /\ capacity' \in Nat
  <2>1. symbols_cap \in Nat /\ strings_cap \in Nat /\ cnt <= symbols_cap
    BY <1>1 DEF TypeOK
  <2> QED
    BY <1>2, <1>4, <2>1, SizesAssumption DEF StartSize
<1>6. TypeOK'
  BY <1>1, <1>2, <1>3, <1>4, <1>5 DEF TypeOK
<1>7. ControlInv'
  BY <1>1, <1>2, <1>3, <1>4, <1>5 DEF ControlInv
<1> QED
  BY <1>1, <1>2, <1>3, <1>4, <1>6, <1>7 DEF IInv, SortedInv, ScatterInv, UniqueInv

LEMMA DoubleInv ==
    ASSUME IInv, Double
    PROVE  IInv'
<1>1. TypeOK /\ ControlInv /\ Kept(source, strings)
  BY DEF IInv
<1>2. phase = "grow" /\ capacity' = capacity * 2 /\ phase' = phase /\ sym' = sym
  BY DEF Double
<1>3. /\ open' = open /\ symbols_v' = symbols_v /\ symbols_cap' = symbols_cap
      /\ strings' = strings /\ strings_cap' = strings_cap /\ bpp' = bpp
      /\ unique_hash' = unique_hash /\ result' = result /\ temporary' = temporary
      /\ in_place' = in_place /\ pass' = pass /\ offsets' = offsets /\ next' = next
  BY DEF Double, sorting, set
<1>4. cnt' = cnt /\ strings_len' = strings_len /\ source' = source /\ ~Running'
  BY <1>2, <1>3 DEF cnt, strings_len, source, Running
<1>5. capacity' \in Nat
  BY <1>1, <1>2 DEF TypeOK
<1>6. TypeOK'
  BY <1>1, <1>2, <1>3, <1>4, <1>5 DEF TypeOK
<1>7. ControlInv'
  BY <1>1, <1>2, <1>3, <1>4 DEF ControlInv
<1> QED
  BY <1>1, <1>2, <1>3, <1>4, <1>6, <1>7 DEF IInv, SortedInv, ScatterInv, UniqueInv

-----------------------------------------------------------------------------
(* The name of a symbol is added to a buffer.                              *)
LEMMA BytesAdded ==
    ASSUME NEW str \in Seq(Cells), NEW s \in Symbols
    PROVE  /\ str \o Bytes(s) \in Seq(Cells)
           /\ Length[s] \in Nat \ {0}
           /\ Len(str \o Bytes(s)) = Len(str) + Length[s]
           /\ \A o \in 1 .. Len(str) : (str \o Bytes(s))[o] = str[o]
           /\ \A k \in 1 .. Length[s] : (str \o Bytes(s))[Len(str) + k] = <<s, k>>
<1>1. Length[s] \in Nat \ {0}
  BY LengthAssumption
<1>2. ASSUME NEW k \in 1 .. Length[s] PROVE <<s, k>> \in Cells
  BY <1>1, <1>2 DEF Cells
<1>3. /\ Bytes(s) \in Seq(Cells) /\ Len(Bytes(s)) = Length[s]
      /\ \A k \in 1 .. Length[s] : Bytes(s)[k] = <<s, k>>
  BY <1>1, <1>2 DEF Bytes
<1>4. Len(str) \in Nat
  OBVIOUS
<1>5. str \o Bytes(s) \in Seq(Cells) /\ Len(str \o Bytes(s)) = Len(str) + Length[s]
  BY <1>3
<1>6. \A o \in 1 .. Len(str) : (str \o Bytes(s))[o] = str[o]
  BY <1>3
<1>7. ASSUME NEW k \in 1 .. Length[s] PROVE (str \o Bytes(s))[Len(str) + k] = <<s, k>>
  <2>1. (str \o Bytes(s))[Len(str) + k] = Bytes(s)[k]
    BY <1>1, <1>3, <1>4, <1>7
  <2> QED
    BY <1>3, <2>1
<1> QED
  BY <1>1, <1>5, <1>6, <1>7

(* A name that is whole stays whole, and the new one is.                   *)
LEMMA WholeAdded ==
    ASSUME NEW str \in Seq(Cells), NEW s \in Symbols
    PROVE  /\ \A o \in Int : Whole(str, o) =>
                 Whole(str \o Bytes(s), o) /\ NameAt(str \o Bytes(s), o) = NameAt(str, o)
           /\ Whole(str \o Bytes(s), Len(str)) /\ NameAt(str \o Bytes(s), Len(str)) = s
<1> DEFINE longer == str \o Bytes(s)
<1>1. /\ Length[s] \in Nat \ {0} /\ Len(str) \in Nat
      /\ Len(longer) = Len(str) + Length[s]
      /\ \A o \in 1 .. Len(str) : longer[o] = str[o]
      /\ \A k \in 1 .. Length[s] : longer[Len(str) + k] = <<s, k>>
  BY BytesAdded
<1> HIDE DEF longer
<1>2. ASSUME NEW o \in Int, Whole(str, o)
      PROVE  Whole(longer, o) /\ NameAt(longer, o) = NameAt(str, o)
  <2>1. o \in 0 .. Len(str) - 1 /\ o + 1 \in 1 .. Len(str)
    BY <1>1, <1>2 DEF Whole
  <2>2. NameAt(longer, o) = NameAt(str, o)
    BY <1>1, <2>1 DEF NameAt
  <2>3. Length[NameAt(str, o)] \in Nat /\ o + Length[NameAt(str, o)] <= Len(str)
    BY <1>2, <2>1, NameType, LengthAssumption DEF Whole
  <2>4. ASSUME NEW k \in 1 .. Length[NameAt(str, o)]
        PROVE  longer[o + k] = <<NameAt(str, o), k>>
    <3>1. o + k \in 1 .. Len(str)
      BY <1>1, <2>1, <2>3, <2>4
    <3> QED
      BY <1>1, <1>2, <3>1 DEF Whole
  <2>5. o \in 0 .. Len(longer) - 1 /\ o + Length[NameAt(longer, o)] <= Len(longer)
    BY <1>1, <2>1, <2>2, <2>3
  <2>6. \A k \in 1 .. Length[NameAt(longer, o)] : longer[o + k] = <<NameAt(longer, o), k>>
    BY <2>2, <2>4, Zenon
  <2> QED
    BY <2>2, <2>5, <2>6, Zenon DEF Whole
<1>3. Whole(longer, Len(str)) /\ NameAt(longer, Len(str)) = s
  <2>1. longer[Len(str) + 1] = <<s, 1>>
    BY <1>1
  <2>2. NameAt(longer, Len(str)) = s
    BY <2>1 DEF NameAt
  <2> QED
    BY <1>1, <2>2 DEF Whole
<1> QED
  BY <1>2, <1>3 DEF longer

(* One name more starts in the buffer.                                     *)
LEMMA StartsAdded ==
    ASSUME NEW str \in Seq(Cells), NEW s \in Symbols
    PROVE  Cardinality(Starts(str \o Bytes(s))) = Cardinality(Starts(str)) + 1
<1> DEFINE longer == str \o Bytes(s)
<1>1. /\ Length[s] \in Nat \ {0} /\ Len(str) \in Nat
      /\ Len(longer) = Len(str) + Length[s]
      /\ \A o \in 1 .. Len(str) : longer[o] = str[o]
      /\ \A k \in 1 .. Length[s] : longer[Len(str) + k] = <<s, k>>
  BY BytesAdded
<1> HIDE DEF longer
<1>2. Starts(longer) = Starts(str) \cup {Len(str) + 1}
  <2>1. ASSUME NEW o \in Starts(longer) PROVE o \in Starts(str) \cup {Len(str) + 1}
    <3>1. o \in 1 .. Len(str) + Length[s] /\ longer[o][2] = 1
      BY <1>1, <2>1 DEF Starts
    <3>2. CASE o \in 1 .. Len(str)
      BY <1>1, <3>1, <3>2 DEF Starts
    <3>3. CASE o \notin 1 .. Len(str)
      <4>1. o - Len(str) \in 1 .. Length[s] /\ Len(str) + (o - Len(str)) = o
        BY <1>1, <3>1, <3>3
      <4>2. longer[Len(str) + (o - Len(str))] = <<s, o - Len(str)>>
        BY <1>1, <4>1
      <4>4. longer[o] = <<s, o - Len(str)>>
        BY <4>1, <4>2, Zenon
      <4>3. o - Len(str) = 1
        BY <3>1, <4>4
      <4> QED
        BY <1>1, <3>1, <4>3
    <3> QED
      BY <3>2, <3>3
  <2>2. ASSUME NEW o \in Starts(str) PROVE o \in Starts(longer)
    <3>1. o \in 1 .. Len(str) /\ str[o][2] = 1
      BY <2>2, Zenon DEF Starts
    <3>2. o \in 1 .. Len(longer) /\ longer[o] = str[o]
      BY <1>1, <3>1
    <3> QED
      BY <3>1, <3>2, Zenon DEF Starts
  <2>3. Len(str) + 1 \in Starts(longer)
    <3>1. longer[Len(str) + 1] = <<s, 1>>
      BY <1>1
    <3>2. longer[Len(str) + 1][2] = 1
      BY <3>1
    <3> QED
      BY <1>1, <3>2 DEF Starts
  <2> QED
    BY <2>1, <2>2, <2>3
<1>3. IsFiniteSet(Starts(str)) /\ Len(str) + 1 \notin Starts(str)
  <2>1. IsFiniteSet(1 .. Len(str))
    BY <1>1, FS_Interval
  <2>2. Starts(str) \in SUBSET (1 .. Len(str))
    BY DEF Starts
  <2>3. Len(str) + 1 \notin 1 .. Len(str)
    BY <1>1
  <2> QED
    BY <2>1, <2>2, <2>3, FS_Subset
<1> QED
  BY <1>2, <1>3, FS_AddElement DEF longer

(* The entry of a new name.                                                *)
LEMMA KeptAdded ==
    ASSUME NEW src \in Seq(Entries), NEW str \in Seq(Cells), NEW s \in Symbols,
           Kept(src, str)
    PROVE  Kept(Append(src, [offset |-> Len(str), hash |-> 0]), str \o Bytes(s))
<1> DEFINE entry == [offset |-> Len(str), hash |-> 0]
           more == Append(src, entry)
           longer == str \o Bytes(s)
<1>1. entry.offset = Len(str) /\ Len(src) \in Nat
  OBVIOUS
<1>2. /\ Len(more) = Len(src) + 1 /\ more[Len(src) + 1] = entry
      /\ \A i \in 1 .. Len(src) : more[i] = src[i]
  OBVIOUS
<1>3. \A i \in 1 .. Len(src) : src[i].offset \in Int /\ Whole(str, src[i].offset)
  BY EntryType DEF Kept
<1> HIDE DEF entry, more, longer
<1>4. /\ \A o \in Int : Whole(str, o) => Whole(longer, o)
      /\ Whole(longer, Len(str))
  BY WholeAdded DEF longer
<1>5. ASSUME NEW i \in 1 .. Len(more) PROVE Whole(longer, more[i].offset)
  <2>1. CASE i \in 1 .. Len(src)
    BY <1>2, <1>3, <1>4, <2>1
  <2>2. CASE i = Len(src) + 1
    BY <1>1, <1>2, <1>4, <2>2
  <2> QED
    BY <1>1, <1>2, <2>1, <2>2
<1>6. \A i \in 1 .. Len(src) : src[i].offset # Len(str)
  BY <1>3 DEF Whole
<1>7. ASSUME NEW i \in 1 .. Len(more), NEW j \in 1 .. Len(more), i # j
      PROVE  more[i].offset # more[j].offset
  <2>1. CASE i \in 1 .. Len(src) /\ j \in 1 .. Len(src)
    BY <1>2, <1>7, <2>1 DEF Kept
  <2>2. CASE i \in 1 .. Len(src) /\ j = Len(src) + 1
    BY <1>1, <1>2, <1>6, <2>2
  <2>3. CASE j \in 1 .. Len(src) /\ i = Len(src) + 1
    BY <1>1, <1>2, <1>6, <2>3
  <2> QED
    BY <1>1, <1>2, <1>7, <2>1, <2>2, <2>3
<1>8. Cardinality(Starts(longer)) = Len(more)
  BY <1>2, StartsAdded DEF Kept, longer
<1>9. Kept(more, longer)
  BY <1>5, <1>7, <1>8 DEF Kept
<1> QED
  BY <1>9 DEF entry, more, longer

(* set_add writes the name where there is room.                            *)
LEMMA StoreInv ==
    ASSUME IInv, Store
    PROVE  IInv'
<1>1. TypeOK /\ ControlInv /\ Kept(source, strings)
  BY DEF IInv
<1>2. /\ phase = "grow" /\ capacity >= required /\ strings_cap' = capacity
      /\ symbols_v' = Append(symbols_v, [offset |-> strings_len, hash |-> 0])
      /\ strings' = strings \o Bytes(sym)
      /\ sym' = NoSymbol /\ capacity' = 0 /\ phase' = "idle"
  BY DEF Store, Enough
<1>3. /\ open' = open /\ symbols_cap' = symbols_cap /\ bpp' = bpp
      /\ unique_hash' = unique_hash /\ result' = result /\ temporary' = temporary
      /\ in_place' = in_place /\ pass' = pass /\ offsets' = offsets /\ next' = next
  BY DEF Store, sorting
<1>4. /\ sym \in Symbols /\ cnt < symbols_cap /\ open /\ in_place /\ pass = 0 /\ next = 1
      /\ unique_hash = <<>>
  BY <1>1, <1>2 DEF ControlInv
<1>5. symbols_v \in Seq(Entries) /\ strings \in Seq(Cells) /\ source = symbols_v
  BY <1>1, <1>4 DEF TypeOK, source
<1>6. [offset |-> strings_len, hash |-> 0] \in Entries
  BY <1>5 DEF Entries, strings_len
<1>7. /\ symbols_v' \in Seq(Entries) /\ cnt \in Nat /\ cnt' = cnt + 1
      /\ source' = symbols_v'
  BY <1>2, <1>3, <1>4, <1>5, <1>6 DEF cnt, source
<1>8. strings' \in Seq(Cells) /\ strings_len' <= strings_cap'
  <2>1. strings' \in Seq(Cells) /\ strings_len' = strings_len + Length[sym]
    BY <1>2, <1>4, <1>5, BytesAdded DEF strings_len
  <2>2. strings_len \in Nat /\ Length[sym] \in Nat /\ capacity \in Nat
    BY <1>1, <1>4, <1>5, LengthAssumption DEF TypeOK, strings_len
  <2> QED
    BY <1>2, <2>1, <2>2 DEF required
<1>9. Kept(source', strings')
  BY <1>1, <1>2, <1>4, <1>5, <1>7, KeptAdded DEF strings_len
<1>10. TypeOK'
  <2>1. symbols_cap \in Nat /\ capacity \in Nat
    BY <1>1 DEF TypeOK
  <2>2. cnt' <= symbols_cap' /\ symbols_cap' \in Nat /\ strings_cap' \in Nat
    BY <1>2, <1>3, <1>4, <1>7, <2>1
  <2>3. Len(unique_hash') = 0
    BY <1>3, <1>4
  <2> QED
    BY <1>1, <1>2, <1>3, <1>7, <1>8, <2>2, <2>3 DEF TypeOK
<1>11. ControlInv'
  BY <1>2, <1>3, <1>4, <1>7 DEF ControlInv, Running
<1> QED
  BY <1>2, <1>9, <1>10, <1>11 DEF IInv, SortedInv, ScatterInv, UniqueInv, Running

-----------------------------------------------------------------------------
(* Whatever happens to the values, the names stay.                         *)
LEMMA KeptAlike ==
    ASSUME NEW src \in Seq(Entries), NEW dst \in Seq(Entries), NEW str,
           Len(dst) = Len(src), \A i \in 1 .. Len(src) : dst[i].offset = src[i].offset,
           Kept(src, str)
    PROVE  Kept(dst, str)
<1>1. \A i \in 1 .. Len(dst) : Whole(str, dst[i].offset)
  BY DEF Kept
<1>2. \A i, j \in 1 .. Len(dst) : i # j => dst[i].offset # dst[j].offset
  BY DEF Kept
<1> QED
  BY <1>1, <1>2 DEF Kept

(* The symbols with the values of their names.                             *)
Rehash(src, str, b) ==
    [i \in 1 .. Len(src) |->
        [src[i] EXCEPT !.hash = Masked(Hash[NameAt(str, src[i].offset)], b)]]

LEMMA Rehashed ==
    ASSUME NEW src \in Seq(Entries), NEW str \in Seq(Cells), NEW b \in BPP, Kept(src, str)
    PROVE  /\ Rehash(src, str, b) \in Seq(Entries) /\ Len(Rehash(src, str, b)) = Len(src)
           /\ Kept(Rehash(src, str, b), str)
           /\ Values(Rehash(src, str, b), str, b)
<1> DEFINE dst == Rehash(src, str, b)
           V(i) == Masked(Hash[NameAt(str, src[i].offset)], b)
<1>1. ASSUME NEW i \in 1 .. Len(src)
      PROVE  /\ src[i] \in Entries /\ V(i) \in Nat
  <2>1. src[i].offset \in 0 .. Len(str) - 1
    BY <1>1 DEF Kept, Whole
  <2> QED
    BY <1>1, <2>1, EntryType, NameType, MaskedFits
<1>2. dst = [i \in 1 .. Len(src) |-> [src[i] EXCEPT !.hash = V(i)]]
  BY DEF Rehash
<1> HIDE DEF dst, V
<1>3. ASSUME NEW i \in 1 .. Len(src)
      PROVE  dst[i] \in Entries /\ dst[i].offset = src[i].offset /\ dst[i].hash = V(i)
  BY <1>1, <1>2, <1>3 DEF Entries
<1>4. Len(src) \in Nat
  OBVIOUS
<1>5. dst \in Seq(Entries) /\ Len(dst) = Len(src)
  <2>1. dst \in [1 .. Len(src) -> Entries]
    BY <1>2, <1>3
  <2> QED
    BY <1>4, <2>1
<1>6. Kept(dst, str)
  BY <1>3, <1>5, KeptAlike
<1>7. Values(dst, str, b)
  BY <1>3, <1>5 DEF Values, V
<1> QED
  BY <1>5, <1>6, <1>7 DEF dst

LEMMA NoBits ==
    ASSUME NEW src \in Seq(Entries)
    PROVE  SortedTo(src, 0)
<1>1. 2^0 = 1
  BY SMT
<1>2. \A i \in 1 .. Len(src) : src[i].hash \in Nat
  BY EntryType
<1>3. \A i \in 1 .. Len(src) : src[i].hash % 1 = 0
  BY <1>2
<1> QED
  BY <1>1, <1>3 DEF SortedTo

(* set_fini hashes, and chooses how to sort.                               *)
LEMMA FiniInv ==
    ASSUME IInv, NEW b \in BPP, set_fini(b)
    PROVE  IInv'
<1>1. TypeOK /\ ControlInv /\ Kept(source, strings)
  BY DEF IInv
<1>2. /\ phase = "idle" /\ open /\ bpp' = b /\ cnt > 0
      /\ symbols_v' = [i \in 1 .. cnt |-> Hashed(symbols_v[i], b)]
      /\ phase' = IF cnt < RadixFrom THEN "qsort" ELSE "radix"
      /\ temporary' = IF cnt < RadixFrom THEN <<>> ELSE [i \in 1 .. cnt |-> Unwritten]
  BY DEF set_fini
<1>3. /\ open' = open /\ symbols_cap' = symbols_cap /\ strings' = strings
      /\ strings_cap' = strings_cap /\ sym' = sym /\ capacity' = capacity
      /\ in_place' = in_place /\ pass' = pass /\ offsets' = offsets /\ next' = next
      /\ unique_hash' = unique_hash /\ result' = result
  BY DEF set_fini, adding
<1>4. /\ in_place /\ pass = 0 /\ next = 1 /\ unique_hash = <<>>
  BY <1>1, <1>2 DEF ControlInv
<1>5. /\ symbols_v \in Seq(Entries) /\ strings \in Seq(Cells) /\ source = symbols_v
      /\ cnt \in Nat
  BY <1>1, <1>4 DEF TypeOK, source, cnt
<1>6. /\ symbols_v' \in Seq(Entries) /\ Len(symbols_v') = cnt
      /\ Kept(symbols_v', strings) /\ Values(symbols_v', strings, b)
  <2>1. symbols_v' = Rehash(symbols_v, strings, b)
    BY <1>2 DEF Hashed, StringAt, NameAt, cnt, Rehash
  <2>2. Kept(symbols_v, strings)
    BY <1>1, <1>5
  <2> QED
    BY <1>5, <2>1, <2>2, Rehashed DEF cnt
<1>7. cnt' = cnt /\ source' = symbols_v' /\ strings_len' = strings_len
  BY <1>3, <1>4, <1>6 DEF cnt, source, strings_len
<1>8. temporary' \in Seq(Entries) /\ (phase' = "radix" => Len(temporary') = cnt)
  <2>1. Unwritten \in Entries
    BY DEF Unwritten, Entries
  <2>2. CASE cnt < RadixFrom
    <3>1. temporary' = <<>> /\ phase' = "qsort"
      BY <1>2, <2>2
    <3> QED
      BY <3>1
  <2>3. CASE ~(cnt < RadixFrom)
    <3>1. temporary' = [i \in 1 .. cnt |-> Unwritten]
      BY <1>2, <2>3
    <3>2. temporary' \in [1 .. cnt -> Entries]
      BY <2>1, <3>1
    <3> QED
      BY <1>5, <3>2
  <2> QED
    BY <2>2, <2>3
<1>9. phase' \in {"qsort", "radix"}
  BY <1>2
<1>10. TypeOK'
  <2>1. Len(unique_hash') = 0
    BY <1>3, <1>4
  <2> QED
    BY <1>1, <1>2, <1>3, <1>5, <1>6, <1>7, <1>8, <1>9, <2>1 DEF TypeOK
<1>11. ControlInv'
  <2>1. passes' = Passes(b) /\ Passes(b) \in Nat
    BY <1>2, PassBits DEF passes, Passes
  <2> QED
    BY <1>2, <1>3, <1>4, <1>5, <1>7, <1>8, <1>9, <2>1 DEF ControlInv, Running
<1>12. SortedInv'
  <2>1. pass' * RadixBits = 0
    BY <1>3, <1>4, SizesAssumption
  <2>2. SortedTo(source', pass' * RadixBits)
    BY <1>6, <1>7, <2>1, NoBits
  <2> QED
    BY <1>9, <2>2 DEF SortedInv
<1> QED
  BY <1>2, <1>3, <1>6, <1>7, <1>9, <1>10, <1>11, <1>12 DEF IInv, ScatterInv, UniqueInv

-----------------------------------------------------------------------------
(* Changing the order of the entries loses no name and no value.           *)
LEMMA Permuted ==
    ASSUME NEW src \in Seq(Entries), NEW dst \in Seq(Entries), NEW str, NEW b,
           Len(dst) = Len(src),
           NEW f \in [1 .. Len(src) -> 1 .. Len(src)],
           \A i, j \in 1 .. Len(src) : i # j => f[i] # f[j],
           \A i \in 1 .. Len(src) : dst[i] = src[f[i]],
           Kept(src, str), Values(src, str, b)
    PROVE  Kept(dst, str) /\ Values(dst, str, b)
<1>1. \A i \in 1 .. Len(src) : f[i] \in 1 .. Len(src)
  OBVIOUS
<1>2. \A i \in 1 .. Len(dst) : Whole(str, dst[i].offset)
  BY <1>1 DEF Kept
<1>3. ASSUME NEW i \in 1 .. Len(dst), NEW j \in 1 .. Len(dst), i # j
      PROVE  dst[i].offset # dst[j].offset
  <2>1. f[i] \in 1 .. Len(src) /\ f[j] \in 1 .. Len(src) /\ f[i] # f[j]
    BY <1>1, <1>3
  <2>2. src[f[i]].offset # src[f[j]].offset
    BY <2>1 DEF Kept
  <2> QED
    BY <2>2
<1>4. Values(dst, str, b)
  BY <1>1 DEF Values
<1> QED
  BY <1>2, <1>3, <1>4 DEF Kept

LEMMA NoneUnique ==
    ASSUME NEW src \in Seq(Entries)
    PROVE  Uniques(src, <<>>, 1)
<1>1. Len(<<>>) = 0
  OBVIOUS
<1> QED
  BY <1>1 DEF Uniques, Ascending

(* The library's sort permutes.                                            *)
LEMMA QsortInv ==
    ASSUME IInv, Qsort
    PROVE  IInv'
<1>1. TypeOK /\ ControlInv /\ Kept(source, strings)
  BY DEF IInv
<1>2. /\ phase = "qsort" /\ phase' = "unique"
      /\ SortedBy(symbols_v', HashOf)
  BY DEF Qsort
<1>3. /\ open' = open /\ symbols_cap' = symbols_cap /\ strings' = strings
      /\ strings_cap' = strings_cap /\ sym' = sym /\ capacity' = capacity /\ bpp' = bpp
      /\ temporary' = temporary /\ in_place' = in_place /\ pass' = pass
      /\ offsets' = offsets /\ next' = next
      /\ unique_hash' = unique_hash /\ result' = result
  BY DEF Qsort, adding, sorting
<1>4. /\ open /\ in_place /\ pass = 0 /\ next = 1 /\ unique_hash = <<>>
      /\ bpp \in BPP /\ Values(source, strings, bpp)
  BY <1>1, <1>2 DEF ControlInv, Running, IInv
<1>5. symbols_v \in Seq(Entries) /\ source = symbols_v /\ cnt = Len(symbols_v) /\ cnt \in Nat
  BY <1>1, <1>4 DEF TypeOK, source, cnt
<1>6. PICK perm \in Bijection(1 .. cnt, 1 .. cnt) :
              symbols_v' = [i \in 1 .. cnt |-> symbols_v[perm[i]]]
  BY DEF Qsort
<1>7. perm \in [1 .. cnt -> 1 .. cnt]
  BY <1>6 DEF Bijection, Injection
<1>8. \A i, j \in 1 .. cnt : i # j => perm[i] # perm[j]
  BY <1>6 DEF Bijection, Injection, IsInjective
<1>9. /\ symbols_v' \in Seq(Entries) /\ Len(symbols_v') = cnt
      /\ \A i \in 1 .. cnt : symbols_v'[i] = symbols_v[perm[i]]
  <2>1. symbols_v' \in [1 .. cnt -> Entries]
    BY <1>5, <1>6, <1>7
  <2> QED
    BY <1>5, <1>6, <2>1
<1>10. cnt' = cnt /\ source' = symbols_v' /\ strings_len' = strings_len
  BY <1>3, <1>4, <1>9 DEF cnt, source, strings_len
<1>11. Kept(symbols_v', strings) /\ Values(symbols_v', strings, bpp)
  <2>1. Kept(symbols_v, strings) /\ Values(symbols_v, strings, bpp)
    BY <1>1, <1>4, <1>5
  <2>2. /\ perm \in [1 .. Len(symbols_v) -> 1 .. Len(symbols_v)]
        /\ \A i, j \in 1 .. Len(symbols_v) : i # j => perm[i] # perm[j]
        /\ \A i \in 1 .. Len(symbols_v) : symbols_v'[i] = symbols_v[perm[i]]
        /\ Len(symbols_v') = Len(symbols_v)
    BY <1>5, <1>7, <1>8, <1>9
  <2>3. symbols_v \in Seq(Entries) /\ symbols_v' \in Seq(Entries)
    BY <1>5, <1>9
  <2> QED
    BY <2>1, <2>2, <2>3, Permuted
<1>12. Sorted(symbols_v')
  BY <1>2 DEF Sorted, SortedBy, HashOf
<1>13. TypeOK'
  BY <1>1, <1>2, <1>3, <1>9, <1>10 DEF TypeOK
<1>14. ControlInv'
  BY <1>1, <1>2, <1>3, <1>4, <1>5, <1>10 DEF ControlInv, Running
<1>15. Uniques(source', unique_hash', next')
  BY <1>3, <1>4, <1>9, <1>10, NoneUnique
<1> QED
  BY <1>2, <1>3, <1>10, <1>11, <1>12, <1>13, <1>14, <1>15
  DEF IInv, SortedInv, ScatterInv, UniqueInv

-----------------------------------------------------------------------------
LEMMA DigitsType ==
    ASSUME NEW src \in Seq(Entries), NEW p \in Nat, p * RadixBits \in 0 .. 31
    PROVE  /\ 2^RadixBits \in Nat \ {0} /\ 2^(p * RadixBits) \in Nat \ {0}
           /\ Digits(src, p) \in [1 .. Len(src) -> 0 .. 2^RadixBits - 1]
           /\ Digits(src, p) \in [1 .. Len(src) -> Nat]
<1>1. RadixBits \in 0 .. 38 /\ p * RadixBits \in 0 .. 38
  BY SizesAssumption
<1>2. 2^RadixBits \in Nat \ {0} /\ 2^(p * RadixBits) \in Nat \ {0}
  BY <1>1, Powers, Zenon
<1>3. ASSUME NEW i \in 1 .. Len(src)
      PROVE  (src[i].hash \div 2^(p * RadixBits)) % 2^RadixBits \in 0 .. 2^RadixBits - 1
  <2>1. src[i].hash \in Nat
    BY EntryType
  <2>2. src[i].hash \div 2^(p * RadixBits) \in Nat
    BY <1>2, <2>1, Division
  <2> QED
    BY <1>2, <2>2, Division
<1>4. Digits(src, p) \in [1 .. Len(src) -> 0 .. 2^RadixBits - 1]
  BY <1>3 DEF Digits
<1> QED
  BY <1>2, <1>4

LEMMA DigitsOfSource ==
    ASSUME TypeOK, ControlInv
    PROVE  \A i \in 1 .. cnt : Digits(source, pass)[i] = DigitOf(source[i])
  BY Typing DEF Digits, DigitOf

(* Before the first entry is placed the digits go to their starts.         *)
LEMMA NoneScattered ==
    ASSUME NEW src \in Seq(Entries), NEW dst, NEW p \in Nat, p * RadixBits \in 0 .. 31,
           NEW off, off = [d \in 0 .. 2^RadixBits - 1 |-> Less(Digits(src, p), Len(src), d)]
    PROVE  Scattered(src, dst, off, 1, Digits(src, p))
<1> DEFINE dig == Digits(src, p)
<1>1. Len(src) \in Nat
  OBVIOUS
<1> HIDE DEF dig
<1>2. \A d \in 0 .. 2^RadixBits - 1 : Less(dig, Len(src), d) \in Nat
  BY <1>1, LessType
<1>3. off = [d \in 0 .. 2^RadixBits - 1 |-> Less(dig, Len(src), d)]
  BY DEF dig
<1>4. off \in [0 .. 2^RadixBits - 1 -> Nat]
  BY <1>2, <1>3
<1>5. ASSUME NEW d \in 0 .. 2^RadixBits - 1
      PROVE  off[d] = Less(dig, Len(src), d) + Seen(dig, 1 - 1, d)
  <2>1. {j \in 1 .. 1 - 1 : dig[j] = d} = {}
    OBVIOUS
  <2>2. Seen(dig, 1 - 1, d) = 0
    BY <2>1, FS_EmptySet DEF Seen
  <2> QED
    BY <1>2, <1>3, <2>2
<1>6. \A k \in 1 .. 1 - 1 : dst[Rank(dig, Len(src), k)] = src[k]
  OBVIOUS
<1>7. Scattered(src, dst, off, 1, dig)
  BY <1>4, <1>5, <1>6 DEF Scattered
<1> QED
  BY <1>7 DEF dig

LEMMA StartPassInv ==
    ASSUME IInv, StartPass
    PROVE  IInv'
<1>1. TypeOK /\ ControlInv /\ Kept(source, strings) /\ SortedInv
  BY DEF IInv
<1>2. /\ phase = "radix" /\ pass < passes /\ phase' = "scatter" /\ next' = 1
      /\ offsets' = [d \in 0 .. 2^RadixBits - 1 |->
                        Cardinality({i \in 1 .. cnt : DigitOf(source[i]) < d})]
  BY DEF StartPass
<1>3. /\ open' = open /\ symbols_v' = symbols_v /\ symbols_cap' = symbols_cap
      /\ strings' = strings /\ strings_cap' = strings_cap /\ sym' = sym
      /\ capacity' = capacity /\ bpp' = bpp /\ temporary' = temporary
      /\ in_place' = in_place /\ pass' = pass
      /\ unique_hash' = unique_hash /\ result' = result
  BY DEF StartPass, set, adding
<1>4. /\ cnt' = cnt /\ strings_len' = strings_len /\ source' = source
      /\ passes' = passes /\ destination' = destination
  BY <1>3 DEF cnt, strings_len, source, passes, destination
<1>5. bpp \in BPP /\ cnt > 0 /\ Values(source, strings, bpp) /\ unique_hash = <<>> /\ open
      /\ Len(temporary) = cnt
  BY <1>1, <1>2 DEF ControlInv, Running, IInv
<1>6. TypeOK'
  BY <1>1, <1>2, <1>3, <1>4 DEF TypeOK
<1>7. ControlInv'
  <2>1. cnt \in Nat
    BY <1>1, Typing
  <2> QED
    BY <1>2, <1>3, <1>4, <1>5, <2>1 DEF ControlInv, Running
<1>8. Scattered(source, destination, offsets', 1, Digits(source, pass))
  <2>1. pass \in Nat /\ pass * RadixBits \in 0 .. 31
    <3>1. passes = Passes(bpp)
      BY DEF passes, Passes
    <3> QED
      BY <1>1, <1>2, <1>5, <3>1, PassBits DEF TypeOK
  <2>2. source \in Seq(Entries) /\ Len(source) = cnt
    BY <1>1, Typing
  <2>3. \A i \in 1 .. cnt : Digits(source, pass)[i] = DigitOf(source[i])
    BY <1>1, DigitsOfSource
  <2>4. ASSUME NEW d \in 0 .. 2^RadixBits - 1
        PROVE  Cardinality({i \in 1 .. cnt : DigitOf(source[i]) < d}) =
                   Less(Digits(source, pass), Len(source), d)
    <3>1. {i \in 1 .. cnt : DigitOf(source[i]) < d} =
              {i \in 1 .. Len(source) : Digits(source, pass)[i] < d}
      BY <2>2, <2>3
    <3> QED
      BY <3>1 DEF Less
  <2>5. offsets' = [d \in 0 .. 2^RadixBits - 1 |->
                       Less(Digits(source, pass), Len(source), d)]
    BY <1>2, <2>4
  <2> QED
    BY <2>1, <2>2, <2>5, NoneScattered
<1> QED
  BY <1>1, <1>2, <1>3, <1>4, <1>5, <1>6, <1>7, <1>8
  DEF IInv, SortedInv, ScatterInv, UniqueInv

(* The destination and the counters when one more entry is placed.         *)
Placed(src, dst, off, nx, digit) == [dst EXCEPT ![off[digit] + 1] = src[nx]]

Counted(off, digit) == [off EXCEPT ![digit] = @ + 1]

(* One more entry goes to its rank, and takes no place that is taken.      *)
LEMMA OneScattered ==
    ASSUME NEW src \in Seq(Entries), NEW dst \in Seq(Entries), Len(dst) = Len(src),
           NEW dig \in [1 .. Len(src) -> 0 .. 2^RadixBits - 1], 2^RadixBits \in Nat,
           NEW nx \in 1 .. Len(src), NEW off,
           Scattered(src, dst, off, nx, dig)
    PROVE  /\ off[dig[nx]] + 1 \in 1 .. Len(src)
           /\ Placed(src, dst, off, nx, dig[nx]) \in Seq(Entries)
           /\ Len(Placed(src, dst, off, nx, dig[nx])) = Len(src)
           /\ Scattered(src, Placed(src, dst, off, nx, dig[nx]), Counted(off, dig[nx]),
                        nx + 1, dig)
<1> DEFINE n == Len(src)
           D == 0 .. 2^RadixBits - 1
           place == off[dig[nx]] + 1
           dst2 == [dst EXCEPT ![place] = src[nx]]
           off2 == [off EXCEPT ![dig[nx]] = @ + 1]
<1>1. /\ n \in Nat /\ nx \in 1 .. n /\ nx \in Nat
      /\ dig \in [1 .. n -> Nat] /\ dig \in [1 .. n -> D] /\ dig[nx] \in D
  OBVIOUS
<1>2. /\ off \in [D -> Nat]
      /\ \A d \in D : off[d] = Less(dig, n, d) + Seen(dig, nx - 1, d)
      /\ \A k \in 1 .. nx - 1 : dst[Rank(dig, n, k)] = src[k]
  BY DEF Scattered
<1>3. place = Rank(dig, n, nx) /\ place \in 1 .. n
  <2>1. Rank(dig, n, nx) = Less(dig, n, dig[nx]) + Seen(dig, nx - 1, dig[nx]) + 1
    BY <1>1, RankSum
  <2>2. Rank(dig, n, nx) \in 1 .. n
    BY <1>1, RankInRange
  <2>3. place = Less(dig, n, dig[nx]) + Seen(dig, nx - 1, dig[nx]) + 1
    BY <1>1, <1>2
  <2> QED
    BY <2>1, <2>2, <2>3
<1>4. dst2 \in Seq(Entries) /\ Len(dst2) = n
  <2>1. src[nx] \in Entries
    BY EntryType
  <2> HIDE DEF place
  <2>2. dst \in [1 .. n -> Entries]
    OBVIOUS
  <2>3. dst2 \in [1 .. n -> Entries]
    BY <1>3, <2>1, <2>2
  <2> QED
    BY <1>1, <2>3
<1>5. off2 \in [D -> Nat]
  BY <1>1, <1>2
<1>6. ASSUME NEW d \in D
      PROVE  off2[d] = Less(dig, n, d) + Seen(dig, nx + 1 - 1, d)
  <2>1. d \in Nat /\ nx + 1 - 1 = nx
    BY <1>1
  <2>2. /\ Seen(dig, nx - 1, d) \in Nat
        /\ Seen(dig, nx, d) = Seen(dig, nx - 1, d) + (IF dig[nx] = d THEN 1 ELSE 0)
    BY <1>1, <2>1, SeenMore
  <2>3. off2[d] = off[d] + (IF dig[nx] = d THEN 1 ELSE 0)
    BY <1>1, <1>2
  <2>4. off[d] = Less(dig, n, d) + Seen(dig, nx - 1, d) /\ off[d] \in Nat
    BY <1>2
  <2>5. Less(dig, n, d) \in Nat
    BY <1>1, LessType
  <2>6. Seen(dig, nx + 1 - 1, d) = Seen(dig, nx, d)
    BY <2>1
  <2> HIDE DEF off2
  <2> QED
    BY <2>2, <2>3, <2>4, <2>5, <2>6
<1>7. ASSUME NEW k \in 1 .. nx + 1 - 1
      PROVE  dst2[Rank(dig, n, k)] = src[k]
  <2>0. k \in 1 .. n
    BY <1>1, <1>7
  <2>1. Rank(dig, n, k) \in 1 .. n /\ k \in 1 .. n
    BY <1>1, <2>0, RankInRange
  <2>2. CASE k = nx
    <3> HIDE DEF place
    <3> QED
      BY <1>3, <2>1, <2>2
  <2>3. CASE k # nx
    <3>1. k \in 1 .. nx - 1 /\ k < nx /\ ~(nx < k)
      BY <1>1, <2>3
    <3>2. Rank(dig, n, k) # Rank(dig, n, nx)
      <4>1. dig[k] \in Nat /\ dig[nx] \in Nat
        BY <1>1, <2>1
      <4>2. \/ dig[k] < dig[nx] \/ (dig[k] = dig[nx] /\ k < nx)
            \/ dig[nx] < dig[k]
        BY <3>1, <4>1
      <4>3. Rank(dig, n, k) < Rank(dig, n, nx) \/ Rank(dig, n, nx) < Rank(dig, n, k)
        BY <1>1, <2>1, <4>2, RankOrder
      <4>4. Rank(dig, n, nx) \in 1 .. n
        BY <1>3
      <4> QED
        BY <2>1, <4>3, <4>4
    <3> HIDE DEF place
    <3>3. dst2[Rank(dig, n, k)] = dst[Rank(dig, n, k)]
      BY <1>3, <2>1, <3>2
    <3> QED
      BY <1>2, <3>1, <3>3
  <2> QED
    BY <2>2, <2>3
<1> HIDE DEF place, dst2, off2
<1>8. Scattered(src, dst2, off2, nx + 1, dig)
  BY <1>5, <1>6, <1>7 DEF Scattered
<1> QED
  BY <1>3, <1>4, <1>8 DEF place, dst2, off2, Placed, Counted

LEMMA ScatterStepInv ==
    ASSUME IInv, Scatter
    PROVE  IInv'
<1> DEFINE digit == DigitOf(source[next])
           moved == [destination EXCEPT ![offsets[digit] + 1] = source[next]]
           dig == Digits(source, pass)
<1>1. TypeOK /\ ControlInv /\ Kept(source, strings) /\ SortedInv
  BY DEF IInv
<1>2. /\ phase = "scatter" /\ next <= cnt /\ phase' = phase /\ next' = next + 1
      /\ IF in_place
         THEN temporary' = moved /\ UNCHANGED symbols_v
         ELSE symbols_v' = moved /\ UNCHANGED temporary
      /\ offsets' = [offsets EXCEPT ![digit] = @ + 1]
  BY DEF Scatter, Advance
<1>3. /\ open' = open /\ symbols_cap' = symbols_cap
      /\ strings' = strings /\ strings_cap' = strings_cap /\ sym' = sym
      /\ capacity' = capacity /\ bpp' = bpp
      /\ in_place' = in_place /\ pass' = pass
      /\ unique_hash' = unique_hash /\ result' = result
  BY DEF Scatter, adding
<1>4. /\ bpp \in BPP /\ cnt > 0 /\ Values(source, strings, bpp) /\ unique_hash = <<>> /\ open
      /\ Len(temporary) = cnt /\ pass < passes
      /\ Scattered(source, destination, offsets, next, dig)
  BY <1>1, <1>2 DEF ControlInv, Running, IInv, ScatterInv
<1>5. /\ cnt \in Nat /\ next \in 1 .. cnt /\ pass \in Nat /\ in_place \in BOOLEAN
      /\ source \in Seq(Entries) /\ Len(source) = cnt
      /\ destination \in Seq(Entries) /\ Len(destination) = cnt
  BY <1>1, <1>2, Typing DEF TypeOK
<1>6. pass * RadixBits \in 0 .. 31
  <2>1. passes = Passes(bpp)
    BY DEF passes, Passes
  <2> QED
    BY <1>4, <1>5, <2>1, PassBits
<1>7. /\ 2^RadixBits \in Nat /\ dig \in [1 .. Len(source) -> 0 .. 2^RadixBits - 1]
      /\ digit = dig[next]
  <2>1. digit = dig[next]
    BY <1>1, <1>5, DigitsOfSource
  <2> QED
    BY <1>5, <1>6, <2>1, DigitsType
<1> HIDE DEF dig, digit
<1>8. /\ moved \in Seq(Entries) /\ Len(moved) = cnt
      /\ Scattered(source, moved, [offsets EXCEPT ![digit] = @ + 1], next + 1, dig)
  <2>1. next \in 1 .. Len(source) /\ Len(destination) = Len(source)
    BY <1>5
  <2>2. /\ source \in Seq(Entries) /\ destination \in Seq(Entries)
        /\ dig \in [1 .. Len(source) -> 0 .. 2^RadixBits - 1] /\ 2^RadixBits \in Nat
        /\ Scattered(source, destination, offsets, next, dig)
    BY <1>4, <1>5, <1>7, Zenon
  <2>3. /\ Placed(source, destination, offsets, next, dig[next]) \in Seq(Entries)
        /\ Len(Placed(source, destination, offsets, next, dig[next])) = Len(source)
        /\ Scattered(source, Placed(source, destination, offsets, next, dig[next]),
                     Counted(offsets, dig[next]), next + 1, dig)
    BY <2>1, <2>2, OneScattered, SMTT(30)
  <2> QED
    BY <1>5, <1>7, <2>3 DEF Placed, Counted
<1> HIDE DEF moved
<1>9. /\ source' = source /\ destination' = moved /\ cnt' = cnt
      /\ symbols_v' \in Seq(Entries) /\ temporary' \in Seq(Entries) /\ Len(temporary') = cnt
  <2>1. symbols_v \in Seq(Entries) /\ temporary \in Seq(Entries)
    BY <1>1 DEF TypeOK
  <2>2. CASE in_place
    BY <1>2, <1>3, <1>4, <1>8, <2>1, <2>2 DEF source, destination, cnt
  <2>3. CASE ~in_place
    BY <1>2, <1>3, <1>4, <1>8, <2>1, <2>3 DEF source, destination, cnt
  <2> QED
    BY <1>5, <2>2, <2>3
<1>10. strings_len' = strings_len /\ passes' = passes
  BY <1>3 DEF strings_len, passes
<1>11. TypeOK'
  <2>1. next' \in Nat \ {0}
    BY <1>2, <1>5
  <2> QED
    BY <1>1, <1>2, <1>3, <1>9, <1>10, <2>1 DEF TypeOK
<1>12. ControlInv'
  <2>1. next' <= cnt' + 1
    BY <1>2, <1>5, <1>9
  <2> QED
    BY <1>2, <1>3, <1>4, <1>9, <1>10, <2>1 DEF ControlInv, Running
<1>13. Digits(source, pass)' = dig
  BY <1>3, <1>9 DEF Digits, dig
<1>14. ScatterInv'
  BY <1>2, <1>8, <1>9, <1>13 DEF ScatterInv
<1>15. SortedInv'
  BY <1>1, <1>2, <1>3, <1>9 DEF SortedInv
<1> QED
  BY <1>1, <1>2, <1>3, <1>4, <1>9, <1>11, <1>12, <1>14, <1>15
  DEF IInv, UniqueInv

-----------------------------------------------------------------------------
(* The hash values by themselves.                                          *)
Hashes(src) == [i \in 1 .. Len(src) |-> src[i].hash]

LEMMA HashesType ==
    ASSUME NEW src \in Seq(Entries)
    PROVE  /\ Hashes(src) \in Seq(Nat) /\ Len(Hashes(src)) = Len(src)
           /\ \A i \in 1 .. Len(src) : Hashes(src)[i] = src[i].hash
<1>1. \A i \in 1 .. Len(src) : src[i].hash \in Nat
  BY EntryType
<1> QED
  BY <1>1 DEF Hashes

(* A pass through: what was sorted by the lower digits is by this, too.    *)
LEMMA PassSorts ==
    ASSUME NEW src \in Seq(Entries), NEW dst \in Seq(Entries), Len(dst) = Len(src),
           NEW p \in Nat, p * RadixBits \in 0 .. 31,
           SortedTo(src, p * RadixBits),
           \A k \in 1 .. Len(src) : dst[Rank(Digits(src, p), Len(src), k)] = src[k]
    PROVE  SortedTo(dst, (p + 1) * RadixBits)
<1>1. /\ Hashes(src) \in Seq(Nat) /\ Len(Hashes(src)) = Len(src)
      /\ \A i \in 1 .. Len(src) : Hashes(src)[i] = src[i].hash
  BY HashesType
<1>2. /\ Hashes(dst) \in Seq(Nat) /\ Len(Hashes(dst)) = Len(src)
      /\ \A i \in 1 .. Len(src) : Hashes(dst)[i] = dst[i].hash
  BY HashesType
<1>3. PassDigits(Hashes(src), p, RadixBits) = Digits(src, p)
  BY <1>1 DEF PassDigits, Digits
<1>4. SortedLow(Hashes(src), p * RadixBits)
  BY <1>1 DEF SortedTo, SortedLow
<1>5. Digits(src, p) \in [1 .. Len(src) -> Nat]
  BY DigitsType
<1>6. \A k \in 1 .. Len(src) :
          Hashes(dst)[Rank(Digits(src, p), Len(src), k)] = Hashes(src)[k]
  <2> DEFINE n == Len(src)
             dig == Digits(src, p)
  <2>0. n \in Nat /\ dig \in [1 .. n -> Nat]
    BY <1>5
  <2>1. \A k \in 1 .. Len(src) : Rank(Digits(src, p), Len(src), k) \in 1 .. Len(src)
    <3> HIDE DEF n, dig
    <3>1. \A k \in 1 .. n : Rank(dig, n, k) \in 1 .. n
      BY <2>0, RankInRange
    <3> QED
      BY <3>1 DEF n, dig
  <2>2. \A k \in 1 .. Len(src) : dst[Rank(Digits(src, p), Len(src), k)] = src[k]
    OBVIOUS
  <2>3. ASSUME NEW k \in 1 .. Len(src)
        PROVE  Hashes(dst)[Rank(Digits(src, p), Len(src), k)] = Hashes(src)[k]
    <3> DEFINE m == Rank(Digits(src, p), Len(src), k)
    <3>1. m \in 1 .. Len(src) /\ dst[m] = src[k]
      BY <2>1, <2>2
    <3> HIDE DEF m, n, dig
    <3>2. Hashes(dst)[m] = dst[m].hash /\ Hashes(src)[k] = src[k].hash
      BY <1>1, <1>2, <3>1
    <3> QED
      BY <3>1, <3>2 DEF m
  <2> QED
    BY <2>3
<1>7. SortedLow(Hashes(dst), (p + 1) * RadixBits)
  BY <1>1, <1>2, <1>3, <1>4, <1>6, PassSortsKeys, SizesAssumption
<1> QED
  BY <1>2, <1>7 DEF SortedTo, SortedLow

(* A pass through: the entries are those of the source in another order.   *)
LEMMA PassKeeps ==
    ASSUME NEW src \in Seq(Entries), NEW dst \in Seq(Entries), Len(dst) = Len(src),
           NEW str, NEW b, NEW dig \in [1 .. Len(src) -> Nat],
           Kept(src, str), Values(src, str, b),
           \A k \in 1 .. Len(src) : dst[Rank(dig, Len(src), k)] = src[k]
    PROVE  Kept(dst, str) /\ Values(dst, str, b)
<1>1. Reordered(Len(src), src, dst)
  <2> DEFINE n == Len(src)
  <2>1. n \in Nat /\ dig \in [1 .. n -> Nat] /\ \A k \in 1 .. n : dst[Rank(dig, n, k)] = src[k]
    OBVIOUS
  <2> HIDE DEF n
  <2>2. Reordered(n, src, dst)
    BY <2>1, RankPermutes
  <2> QED
    BY <2>2 DEF n
<1>2. PICK f \in [1 .. Len(src) -> 1 .. Len(src)] :
          /\ \A i, j \in 1 .. Len(src) : i # j => f[i] # f[j]
          /\ \A i \in 1 .. Len(src) : dst[i] = src[f[i]]
  BY <1>1 DEF Reordered
<1> QED
  BY <1>2, Permuted

(* The roles of the arrays are exchanged after a pass.                     *)
LEMMA EndPassInv ==
    ASSUME IInv, EndPass
    PROVE  IInv'
<1> DEFINE dig == Digits(source, pass)
<1>1. TypeOK /\ ControlInv /\ Kept(source, strings) /\ SortedInv
  BY DEF IInv
<1>2. /\ phase = "scatter" /\ ~(next <= cnt) /\ phase' = "radix" /\ next' = 1
      /\ in_place' = ~in_place /\ pass' = pass + 1
  <2>1. cnt \in Nat /\ next \in Nat
    BY <1>1, Typing DEF TypeOK
  <2> QED
    BY <2>1 DEF EndPass
<1>3. /\ open' = open /\ symbols_v' = symbols_v /\ symbols_cap' = symbols_cap
      /\ strings' = strings /\ strings_cap' = strings_cap /\ sym' = sym
      /\ capacity' = capacity /\ bpp' = bpp /\ temporary' = temporary
      /\ unique_hash' = unique_hash /\ result' = result
  BY DEF EndPass, set, adding
<1>4. /\ bpp \in BPP /\ cnt > 0 /\ Values(source, strings, bpp) /\ unique_hash = <<>> /\ open
      /\ Len(temporary) = cnt /\ pass < passes /\ next <= cnt + 1
      /\ Scattered(source, destination, offsets, next, dig)
      /\ SortedTo(source, pass * RadixBits)
  BY <1>1, <1>2 DEF ControlInv, Running, IInv, ScatterInv, SortedInv
<1>5. /\ cnt \in Nat /\ next = cnt + 1 /\ pass \in Nat /\ in_place \in BOOLEAN
      /\ source \in Seq(Entries) /\ Len(source) = cnt
      /\ destination \in Seq(Entries) /\ Len(destination) = cnt
  BY <1>1, <1>2, <1>4, Typing DEF TypeOK
<1>6. pass * RadixBits \in 0 .. 31 /\ passes \in Nat
  <2>1. passes = Passes(bpp)
    BY DEF passes, Passes
  <2> QED
    BY <1>4, <1>5, <2>1, PassBits
<1>7. dig \in [1 .. Len(source) -> Nat]
  BY <1>5, <1>6, DigitsType
<1>8. \A k \in 1 .. Len(source) : destination[Rank(dig, Len(source), k)] = source[k]
  <2>1. next - 1 = Len(source)
    BY <1>5
  <2> QED
    BY <1>4, <2>1 DEF Scattered
<1>9. SortedTo(destination, (pass + 1) * RadixBits)
  BY <1>4, <1>5, <1>6, <1>8, PassSorts
<1> HIDE DEF dig
<1>10. Kept(destination, strings) /\ Values(destination, strings, bpp)
  <2>1. Len(destination) = Len(source)
    BY <1>5
  <2> QED
    BY <1>1, <1>4, <1>5, <1>7, <1>8, <2>1, PassKeeps
<1>11. source' = destination /\ cnt' = cnt /\ strings_len' = strings_len /\ passes' = passes
  BY <1>2, <1>3, <1>5 DEF source, destination, cnt, strings_len, passes
<1>12. TypeOK'
  <2>1. pass' \in Nat /\ next' \in Nat \ {0} /\ in_place' \in BOOLEAN
    BY <1>2, <1>5
  <2> QED
    BY <1>1, <1>2, <1>3, <1>11, <2>1 DEF TypeOK
<1>13. ControlInv'
  <2>1. pass' <= passes'
    BY <1>2, <1>4, <1>5, <1>6, <1>11
  <2> QED
    BY <1>2, <1>3, <1>4, <1>5, <1>11, <2>1 DEF ControlInv, Running
<1>14. SortedInv'
  BY <1>2, <1>9, <1>11 DEF SortedInv
<1> QED
  BY <1>2, <1>3, <1>10, <1>11, <1>12, <1>13, <1>14 DEF IInv, ScatterInv, UniqueInv

(* All digits: the values themselves are sorted.                           *)
LEMMA AllBits ==
    ASSUME NEW src \in Seq(Entries), NEW str \in Seq(Cells), NEW b \in BPP,
           Kept(src, str), Values(src, str, b), SortedTo(src, Passes(b) * RadixBits)
    PROVE  Sorted(src)
<1>1. b \in 1 .. 32 /\ RadixBits \in 1 .. 8
  BY PassBits, SizesAssumption
<1>2. /\ Hashes(src) \in Seq(Nat) /\ Len(Hashes(src)) = Len(src)
      /\ \A i \in 1 .. Len(src) : Hashes(src)[i] = src[i].hash
  BY HashesType
<1>3. ASSUME NEW i \in 1 .. Len(src)
      PROVE  Hashes(src)[i] < 2^b
  <2>1. src[i].offset \in 0 .. Len(str) - 1
    BY <1>3 DEF Kept, Whole
  <2>2. NameAt(str, src[i].offset) \in Symbols
    BY <2>1, NameType
  <2>3. src[i].hash < 2^b
    BY <2>2, MaskedFits DEF Values
  <2> QED
    BY <1>2, <2>3
<1>4. SortedLow(Hashes(src), ((b + RadixBits - 1) \div RadixBits) * RadixBits)
  BY <1>2 DEF SortedTo, SortedLow, Passes
<1>5. SortedKeys(Hashes(src))
  BY <1>1, <1>2, <1>3, <1>4, AllPassesSort
<1> QED
  BY <1>2, <1>5 DEF Sorted, SortedKeys

LEMMA CopyBackInv ==
    ASSUME IInv, CopyBack
    PROVE  IInv'
<1>1. TypeOK /\ ControlInv /\ Kept(source, strings) /\ SortedInv
  BY DEF IInv
<1>2. /\ phase = "radix" /\ pass = passes /\ phase' = "unique" /\ symbols_v' = source
      /\ in_place' = TRUE /\ temporary' = <<>> /\ pass' = 0
  BY DEF CopyBack
<1>3. /\ open' = open /\ symbols_cap' = symbols_cap
      /\ strings' = strings /\ strings_cap' = strings_cap /\ sym' = sym
      /\ capacity' = capacity /\ bpp' = bpp /\ offsets' = offsets /\ next' = next
      /\ unique_hash' = unique_hash /\ result' = result
  BY DEF CopyBack, adding
<1>4. /\ bpp \in BPP /\ cnt > 0 /\ Values(source, strings, bpp) /\ unique_hash = <<>> /\ open
      /\ next = 1 /\ SortedTo(source, pass * RadixBits)
  BY <1>1, <1>2 DEF ControlInv, Running, IInv, SortedInv
<1>5. /\ cnt \in Nat /\ source \in Seq(Entries) /\ Len(source) = cnt
      /\ strings \in Seq(Cells)
  BY <1>1, Typing DEF TypeOK
<1>6. /\ source' = source /\ cnt' = cnt /\ strings_len' = strings_len
  BY <1>2, <1>3, <1>5 DEF source, cnt, strings_len
<1>7. Sorted(source)
  <2>1. SortedTo(source, Passes(bpp) * RadixBits)
    BY <1>2, <1>4 DEF passes, Passes
  <2> QED
    BY <1>1, <1>4, <1>5, <2>1, AllBits
<1>8. TypeOK'
  <2>1. temporary' \in Seq(Entries) /\ symbols_v' \in Seq(Entries)
    BY <1>2, <1>5
  <2>2. pass' \in Nat /\ in_place' \in BOOLEAN
    BY <1>2
  <2> QED
    BY <1>1, <1>2, <1>3, <1>6, <2>1, <2>2 DEF TypeOK
<1>9. ControlInv'
  <2>1. next' <= cnt' + 1 /\ in_place' /\ pass' = 0
    BY <1>2, <1>3, <1>4, <1>5, <1>6
  <2> QED
    BY <1>2, <1>3, <1>4, <1>6, <2>1 DEF ControlInv, Running
<1>10. Uniques(source', unique_hash', next')
  BY <1>3, <1>4, <1>5, <1>6, NoneUnique
<1> QED
  BY <1>1, <1>2, <1>3, <1>4, <1>6, <1>7, <1>8, <1>9, <1>10
  DEF IInv, SortedInv, ScatterInv, UniqueInv

-----------------------------------------------------------------------------
(* A value that comes again is left for its last entry.                    *)
LEMMA SkipUniques ==
    ASSUME NEW src \in Seq(Entries), NEW kept \in Seq(Nat), NEW nx \in 1 .. Len(src),
           nx < Len(src), src[nx].hash = src[nx + 1].hash,
           Uniques(src, kept, nx)
    PROVE  Uniques(src, kept, nx + 1)
<1>1. nx \in Nat /\ nx + 1 <= Len(src) /\ nx + 1 - 1 = nx /\ Len(kept) \in Nat
  OBVIOUS
<1>2. Ascending(kept) /\ Len(kept) < nx + 1
  BY <1>1 DEF Uniques
<1>3. \A x \in 1 .. Len(kept) : \E k \in 1 .. nx + 1 - 1 : kept[x] = src[k].hash
  <2>1. \A k \in 1 .. nx - 1 : k \in 1 .. nx + 1 - 1
    BY <1>1
  <2> QED
    BY <2>1 DEF Uniques
<1>4. ASSUME NEW k \in 1 .. nx + 1 - 1
      PROVE  src[k].hash \in Range(kept) \/ src[k].hash = src[nx + 1].hash
  <2>1. k \in 1 .. nx - 1 \/ k = nx
    BY <1>1
  <2> QED
    BY <2>1 DEF Uniques
<1>5. \A x \in 1 .. Len(kept) : kept[x] < src[nx + 1].hash
  BY <1>1 DEF Uniques
<1> QED
  BY <1>1, <1>2, <1>3, <1>4, <1>5 DEF Uniques

(* The last entry of a value adds it.                                      *)
LEMMA KeepUniques ==
    ASSUME NEW src \in Seq(Entries), NEW kept \in Seq(Nat), NEW nx \in 1 .. Len(src),
           nx < Len(src) => src[nx].hash # src[nx + 1].hash,
           Sorted(src), Uniques(src, kept, nx)
    PROVE  /\ Append(kept, src[nx].hash) \in Seq(Nat)
           /\ Len(Append(kept, src[nx].hash)) = Len(kept) + 1
           /\ Uniques(src, Append(kept, src[nx].hash), nx + 1)
<1> DEFINE h == src[nx].hash
           more == Append(kept, h)
<1>1. nx \in Nat /\ nx <= Len(src) /\ nx + 1 - 1 = nx /\ Len(kept) \in Nat
  OBVIOUS
<1>2. h \in Nat
  BY EntryType
<1>3. /\ Ascending(kept) /\ Len(kept) < nx
      /\ \A x \in 1 .. Len(kept) : kept[x] < h
      /\ \A x \in 1 .. Len(kept) : \E k \in 1 .. nx - 1 : kept[x] = src[k].hash
      /\ \A k \in 1 .. nx - 1 : src[k].hash \in Range(kept) \/ src[k].hash = h
  BY <1>1 DEF Uniques
<1> HIDE DEF h, more
<1>4. /\ more \in Seq(Nat) /\ Len(more) = Len(kept) + 1
      /\ Ascending(more) /\ Range(more) = Range(kept) \cup {h}
      /\ \A y \in Nat : h < y => \A k \in 1 .. Len(more) : more[k] < y
  BY <1>2, <1>3, AppendGreatest DEF more
<1>5. /\ \A x \in 1 .. Len(kept) : more[x] = kept[x]
      /\ more[Len(kept) + 1] = h
  BY <1>2 DEF more
<1>6. ASSUME NEW x \in 1 .. Len(more)
      PROVE  \E k \in 1 .. nx + 1 - 1 : more[x] = src[k].hash
  <2>1. x \in 1 .. Len(kept) \/ x = Len(kept) + 1
    BY <1>1, <1>4
  <2>2. CASE x \in 1 .. Len(kept)
    <3>1. PICK k \in 1 .. nx - 1 : kept[x] = src[k].hash
      BY <1>3, <2>2
    <3>2. k \in 1 .. nx + 1 - 1
      BY <1>1
    <3> QED
      BY <1>5, <2>2, <3>1, <3>2
  <2>3. CASE x = Len(kept) + 1
    <3>1. nx \in 1 .. nx + 1 - 1
      BY <1>1
    <3> QED
      BY <1>5, <2>3, <3>1 DEF h
  <2> QED
    BY <2>1, <2>2, <2>3
<1>7. ASSUME NEW k \in 1 .. nx + 1 - 1
      PROVE  src[k].hash \in Range(more)
  <2>1. k \in 1 .. nx - 1 \/ k = nx
    BY <1>1
  <2>2. src[nx].hash = h
    BY DEF h
  <2> QED
    BY <1>3, <1>4, <2>1, <2>2
<1>8. ASSUME nx + 1 <= Len(src)
      PROVE  \A x \in 1 .. Len(more) : more[x] < src[nx + 1].hash
  <2>1. nx + 1 \in 1 .. Len(src) /\ nx < nx + 1 /\ nx < Len(src)
    BY <1>1, <1>8
  <2>2. src[nx + 1].hash \in Nat
    BY <2>1, EntryType
  <2>3. h <= src[nx + 1].hash /\ h # src[nx + 1].hash
    BY <2>1 DEF Sorted, h
  <2>4. h < src[nx + 1].hash
    BY <1>2, <2>2, <2>3
  <2> QED
    BY <1>4, <2>2, <2>4
<1>9. Uniques(src, more, nx + 1)
  <2>1. Len(more) < nx + 1
    BY <1>1, <1>3, <1>4
  <2> QED
    BY <1>4, <1>6, <1>7, <1>8, <2>1 DEF Uniques
<1> QED
  BY <1>4, <1>9 DEF more, h

(* One turn of the loop, with or without a value.                          *)
LEMMA UniqueStepInv ==
    ASSUME IInv, SkipEqual \/ KeepLast
    PROVE  IInv'
<1>1. TypeOK /\ ControlInv /\ Kept(source, strings) /\ SortedInv
  BY DEF IInv
<1>2. /\ phase = "unique" /\ next <= cnt /\ phase' = "unique" /\ next' = next + 1
      /\ \/ ~LastOfRun /\ unique_hash' = unique_hash
         \/ LastOfRun /\ unique_hash' = Append(unique_hash, symbols_v[next].hash)
  BY DEF SkipEqual, KeepLast
<1>3. /\ open' = open /\ symbols_v' = symbols_v /\ symbols_cap' = symbols_cap
      /\ strings' = strings /\ strings_cap' = strings_cap /\ sym' = sym
      /\ capacity' = capacity /\ bpp' = bpp /\ temporary' = temporary
      /\ in_place' = in_place /\ pass' = pass /\ offsets' = offsets /\ result' = result
  BY DEF SkipEqual, KeepLast, set, adding
<1>4. /\ bpp \in BPP /\ cnt > 0 /\ Values(source, strings, bpp) /\ open
      /\ in_place /\ pass = 0 /\ Sorted(source) /\ Uniques(source, unique_hash, next)
  BY <1>1, <1>2 DEF ControlInv, Running, IInv, SortedInv, UniqueInv
<1>5. /\ cnt \in Nat /\ source \in Seq(Entries) /\ Len(source) = cnt /\ source = symbols_v
      /\ next \in 1 .. Len(source) /\ next \in Nat /\ unique_hash \in Seq(Nat)
  BY <1>1, <1>2, Typing DEF TypeOK
<1>6. source' = source /\ cnt' = cnt /\ strings_len' = strings_len
  BY <1>3 DEF source, cnt, strings_len
<1>7. unique_hash' \in Seq(Nat) /\ Uniques(source, unique_hash', next + 1)
  <2>1. CASE ~LastOfRun /\ unique_hash' = unique_hash
    <3>1. next < Len(source) /\ source[next].hash = source[next + 1].hash
      BY <1>5, <2>1 DEF LastOfRun
    <3> QED
      BY <1>4, <1>5, <2>1, <3>1, SkipUniques
  <2>2. CASE LastOfRun /\ unique_hash' = Append(unique_hash, symbols_v[next].hash)
    <3>1. next < Len(source) => source[next].hash # source[next + 1].hash
      BY <1>5, <2>2 DEF LastOfRun
    <3> QED
      BY <1>4, <1>5, <2>2, <3>1, KeepUniques
  <2> QED
    BY <1>2, <2>1, <2>2
<1>8. Len(unique_hash') <= cnt
  <2>1. Len(unique_hash') < next + 1 /\ Len(unique_hash') \in Nat
    BY <1>7 DEF Uniques
  <2> QED
    BY <1>2, <1>5, <2>1
<1>9. TypeOK'
  <2>1. next' \in Nat \ {0}
    BY <1>2, <1>5
  <2> QED
    BY <1>1, <1>2, <1>3, <1>6, <1>7, <1>8, <2>1 DEF TypeOK
<1>10. ControlInv'
  <2>1. next' <= cnt' + 1
    BY <1>2, <1>5, <1>6
  <2> QED
    BY <1>2, <1>3, <1>4, <1>6, <2>1 DEF ControlInv, Running
<1> QED
  BY <1>1, <1>2, <1>3, <1>4, <1>6, <1>7, <1>9, <1>10
  DEF IInv, SortedInv, ScatterInv, UniqueInv

LEMMA ReturnInv ==
    ASSUME IInv, Return
    PROVE  IInv'
<1>1. TypeOK /\ ControlInv /\ Kept(source, strings)
  BY DEF IInv
<1>2. /\ phase = "unique" /\ phase' = "idle" /\ next' = 1 /\ bpp' = 0
      /\ result' = unique_hash /\ unique_hash' = <<>>
  BY DEF Return
<1>3. /\ open' = open /\ symbols_v' = symbols_v /\ symbols_cap' = symbols_cap
      /\ strings' = strings /\ strings_cap' = strings_cap /\ sym' = sym
      /\ capacity' = capacity /\ temporary' = temporary
      /\ in_place' = in_place /\ pass' = pass /\ offsets' = offsets
  BY DEF Return, set, adding
<1>4. open /\ in_place /\ pass = 0
  BY <1>1, <1>2 DEF ControlInv
<1>5. source' = source /\ cnt' = cnt /\ strings_len' = strings_len /\ cnt \in Nat
  BY <1>1, <1>3, Typing DEF source, cnt, strings_len
<1>6. TypeOK'
  <2>1. unique_hash' \in Seq(Nat) /\ Len(unique_hash') <= cnt /\ result' \in Seq(Nat)
    BY <1>1, <1>2, <1>5 DEF TypeOK
  <2> QED
    BY <1>1, <1>2, <1>3, <1>5, <2>1 DEF TypeOK
<1>7. ControlInv'
  <2>1. next' <= cnt' + 1
    BY <1>2, <1>5
  <2> QED
    BY <1>2, <1>3, <1>4, <2>1 DEF ControlInv, Running
<1> QED
  BY <1>1, <1>2, <1>3, <1>5, <1>6, <1>7
  DEF IInv, Running, SortedInv, ScatterInv, UniqueInv

-----------------------------------------------------------------------------
LEMMA NextInv ==
    ASSUME IInv, [Next]_vars
    PROVE  IInv'
<1>1. CASE Call
  <2>1. CASE set_new
    BY <2>1, EmptyInv
  <2>2. CASE set_free
    BY <2>2, EmptyInv
  <2>3. ASSUME NEW s \in Symbols, set_add(s) PROVE IInv'
    BY <2>3, AddInv
  <2>4. ASSUME NEW b \in BPP, set_fini(b) PROVE IInv'
    BY <2>4, FiniInv
  <2> QED
    BY <1>1, <2>1, <2>2, <2>3, <2>4 DEF Call
<1>2. CASE Step
  BY <1>2, DoubleInv, StoreInv, QsortInv, StartPassInv, ScatterStepInv, EndPassInv,
     CopyBackInv, UniqueStepInv, ReturnInv DEF Step
<1>3. CASE UNCHANGED vars
  BY <1>3 DEF vars, set, adding, sorting, IInv, TypeOK, ControlInv, SortedInv, ScatterInv,
     UniqueInv, Running, source, destination, cnt, strings_len, passes
<1> QED
  BY <1>1, <1>2, <1>3 DEF Next

(* The strengthening holds in every state the builder reaches.             *)
THEOREM Invariance == Spec => []IInv
<1>1. Init => IInv
  BY InitInv
<1>2. IInv /\ [Next]_vars => IInv'
  BY NextInv
<1> QED
  BY <1>1, <1>2, PTL DEF Spec

(* The state keeps its types, and the buffers hold what is written.        *)
THEOREM TypeCorrect == Spec => []TypeOK
<1>1. IInv => TypeOK
  BY DEF IInv
<1> QED
  BY <1>1, Invariance, PTL

(* Every symbol that was added is in the array once, and its name whole.   *)
THEOREM NoSymbolLost == Spec => []SymbolsKept
<1>1. ASSUME IInv PROVE SymbolsKept
  <2>1. TypeOK /\ ControlInv /\ Kept(source, strings)
    BY <1>1 DEF IInv
  <2>2. Len(source) = cnt
    BY <2>1, Typing
  <2>3. \A i \in 1 .. cnt :
           LET offset == source[i].offset
           IN  /\ offset \in 0 .. strings_len - 1
               /\ offset + Length[StringAt(offset)] <= strings_len
               /\ \A k \in 1 .. Length[StringAt(offset)] :
                      strings[offset + k] = <<StringAt(offset), k>>
    BY <2>1, <2>2, Zenon DEF Kept, Whole, NameAt, StringAt, strings_len
  <2>4. \A i, j \in 1 .. cnt : i # j => source[i].offset # source[j].offset
    BY <2>1, <2>2, Zenon DEF Kept
  <2>5. Cardinality({o \in 1 .. strings_len : strings[o][2] = 1}) = cnt
    BY <2>1, <2>2, Zenon DEF Kept, Starts, strings_len
  <2> QED
    BY <2>3, <2>4, <2>5, Zenon DEF SymbolsKept
<1> QED
  BY <1>1, Invariance, PTL

(* The passes of the radix sort add up to sorting; so does the library's.  *)
THEOREM SortCorrect == Spec => []SortedSoFar
<1>1. ASSUME IInv PROVE SortedSoFar
  <2>1. TypeOK /\ ControlInv /\ SortedInv
    BY <1>1 DEF IInv
  <2>2. CASE phase = "radix"
    BY <2>1, <2>2 DEF SortedInv, SortedTo, SortedSoFar, SortedBy, LowDigits
  <2>3. CASE phase = "unique"
    <3>1. source = symbols_v /\ Sorted(source)
      BY <2>1, <2>3, Typing DEF SortedInv
    <3> QED
      BY <2>3, <3>1 DEF Sorted, SortedSoFar, SortedBy, HashOf
  <2>4. CASE phase \notin {"radix", "unique"}
    BY <2>4 DEF SortedSoFar
  <2> QED
    BY <2>2, <2>3, <2>4
<1> QED
  BY <1>1, Invariance, PTL

(* The entries still to come of a digit are just those it has room for.    *)
Left(dig, nx, n, d) == Cardinality({i \in nx .. n : dig[i] = d})

UpTo(dig, n, d) == Cardinality({i \in 1 .. n : dig[i] <= d})

LEMMA RoomLeft ==
    ASSUME NEW n \in Nat, NEW dig \in [1 .. n -> Nat], NEW nx \in Nat \ {0}, nx <= n + 1,
           NEW d \in Nat
    PROVE  Less(dig, n, d) + Seen(dig, nx - 1, d) + Left(dig, nx, n, d) = UpTo(dig, n, d)
<1> DEFINE A == {i \in 1 .. n : dig[i] < d}
           B == {i \in 1 .. nx - 1 : dig[i] = d}
           C == {i \in nx .. n : dig[i] = d}
           E == {i \in 1 .. n : dig[i] <= d}
<1>1. IsFiniteSet(1 .. n)
  BY FS_Interval
<1>2. A \in SUBSET (1 .. n) /\ B \in SUBSET (1 .. n) /\ C \in SUBSET (1 .. n)
  OBVIOUS
<1>3. A \cap B = {} /\ (A \cup B) \cap C = {} /\ E = (A \cup B) \cup C
  OBVIOUS
<1>4. /\ Less(dig, n, d) = Cardinality(A)
      /\ Seen(dig, nx - 1, d) = Cardinality(B)
  BY DEF Less, Seen
<1> HIDE DEF A, B, C, E
<1>5. IsFiniteSet(A) /\ IsFiniteSet(B) /\ IsFiniteSet(C) /\ IsFiniteSet(A \cup B)
  BY <1>1, <1>2, FS_Subset, FS_Union
<1>6. /\ Cardinality(A \cup B) = Cardinality(A) + Cardinality(B) - Cardinality(A \cap B)
      /\ Cardinality((A \cup B) \cup C) =
            Cardinality(A \cup B) + Cardinality(C) - Cardinality((A \cup B) \cap C)
  BY <1>5, FS_Union
<1>7. Cardinality(A \cap B) = 0 /\ Cardinality((A \cup B) \cap C) = 0
  BY <1>3, FS_EmptySet
<1>8. Cardinality(A) \in Nat /\ Cardinality(B) \in Nat /\ Cardinality(C) \in Nat
  BY <1>5, FS_CardinalityType
<1>9. Cardinality(A) + Cardinality(B) + Cardinality(C) = Cardinality(E)
  BY <1>3, <1>6, <1>7, <1>8
<1> QED
  BY <1>4, <1>9 DEF C, E, Left, UpTo

(* No digit runs into the room of the next one.                            *)
THEOREM RoomCorrect == Spec => []RoomForDigits
<1>1. ASSUME IInv, phase = "scatter", NEW d \in 0 .. 2^RadixBits - 1
      PROVE  offsets[d] + Cardinality({i \in next .. cnt : DigitOf(source[i]) = d})
             = Cardinality({i \in 1 .. cnt : DigitOf(source[i]) <= d})
  <2> DEFINE dig == Digits(source, pass)
  <2>1. /\ TypeOK /\ ControlInv /\ bpp \in BPP /\ pass < passes
        /\ Scattered(source, destination, offsets, next, dig)
    BY <1>1 DEF IInv, ControlInv, ScatterInv, Running
  <2>2. /\ cnt \in Nat /\ source \in Seq(Entries) /\ Len(source) = cnt
        /\ next \in Nat \ {0} /\ next <= cnt + 1 /\ pass \in Nat
    BY <2>1, Typing DEF TypeOK, ControlInv
  <2>3. pass * RadixBits \in 0 .. 31
    <3>1. passes = Passes(bpp)
      BY DEF passes, Passes
    <3> QED
      BY <2>1, <2>2, <3>1, PassBits
  <2>4. dig \in [1 .. cnt -> Nat] /\ 2^RadixBits \in Nat
    BY <2>2, <2>3, DigitsType
  <2>5. \A i \in 1 .. cnt : dig[i] = DigitOf(source[i])
    BY <2>1, DigitsOfSource
  <2> HIDE DEF dig
  <2>6. offsets[d] = Less(dig, cnt, d) + Seen(dig, next - 1, d)
    BY <2>1, <2>2, Zenon DEF Scattered
  <2>7. d \in Nat
    BY <2>4
  <2>8. offsets[d] + Left(dig, next, cnt, d) = UpTo(dig, cnt, d)
    BY <2>2, <2>4, <2>6, <2>7, RoomLeft
  <2>9. {i \in next .. cnt : dig[i] = d} = {i \in next .. cnt : DigitOf(source[i]) = d}
    <3>1. \A i \in next .. cnt : i \in 1 .. cnt
      BY <2>2
    <3> QED
      BY <2>5, <3>1
  <2>10. {i \in 1 .. cnt : dig[i] <= d} = {i \in 1 .. cnt : DigitOf(source[i]) <= d}
    BY <2>5
  <2> QED
    BY <2>8, <2>9, <2>10, Zenon DEF Left, UpTo
<1>2. IInv => RoomForDigits
  BY <1>1, Zenon DEF RoomForDigits
<1> QED
  BY <1>2, Invariance, PTL

-----------------------------------------------------------------------------
(* The names that the entries stand for.                                   *)
Names(src, str) == {NameAt(str, src[i].offset) : i \in 1 .. Len(src)}

LEMMA NamesAlike ==
    ASSUME NEW src \in Seq(Entries), NEW dst \in Seq(Entries), NEW str,
           Len(dst) = Len(src), \A i \in 1 .. Len(src) : dst[i].offset = src[i].offset
    PROVE  Names(dst, str) = Names(src, str)
BY DEF Names

LEMMA NamesPermuted ==
    ASSUME NEW src \in Seq(Entries), NEW dst \in Seq(Entries), NEW str, Len(dst) = Len(src),
           \A i \in 1 .. Len(src) : \E k \in 1 .. Len(src) : dst[i] = src[k],
           \A k \in 1 .. Len(src) : \E i \in 1 .. Len(src) : dst[i] = src[k]
    PROVE  Names(dst, str) = Names(src, str)
<1>1. ASSUME NEW i \in 1 .. Len(src)
      PROVE  /\ NameAt(str, dst[i].offset) \in Names(src, str)
             /\ NameAt(str, src[i].offset) \in Names(dst, str)
  <2>1. PICK k \in 1 .. Len(src) : dst[i] = src[k]
    OBVIOUS
  <2>2. PICK m \in 1 .. Len(src) : dst[m] = src[i]
    OBVIOUS
  <2> QED
    BY <2>1, <2>2 DEF Names
<1> QED
  BY <1>1 DEF Names

(* A new entry adds its name.                                              *)
LEMMA NamesAdded ==
    ASSUME NEW src \in Seq(Entries), NEW str \in Seq(Cells), NEW s \in Symbols,
           Kept(src, str)
    PROVE  Names(Append(src, [offset |-> Len(str), hash |-> 0]), str \o Bytes(s))
             = Names(src, str) \cup {s}
<1> DEFINE more == Append(src, [offset |-> Len(str), hash |-> 0])
           longer == str \o Bytes(s)
           n == Len(src)
<1>1. /\ n \in Nat /\ Len(more) = n + 1 /\ more[n + 1].offset = Len(str)
      /\ \A i \in 1 .. n : more[i] = src[i]
  OBVIOUS
<1>2. \A i \in 1 .. n : src[i].offset \in Int /\ Whole(str, src[i].offset)
  BY EntryType DEF Kept
<1> HIDE DEF more, longer
<1>3. /\ NameAt(longer, Len(str)) = s
      /\ \A i \in 1 .. n : NameAt(longer, src[i].offset) = NameAt(str, src[i].offset)
  BY <1>2, WholeAdded DEF longer
<1>4. /\ \A i \in 1 .. n : NameAt(longer, more[i].offset) = NameAt(str, src[i].offset)
      /\ NameAt(longer, more[n + 1].offset) = s
  BY <1>1, <1>3
<1>5. 1 .. n + 1 = (1 .. n) \cup {n + 1}
  BY <1>1
<1>6. Names(more, longer) = Names(src, str) \cup {s}
  <2>1. Names(more, longer) = {NameAt(longer, more[i].offset) : i \in (1 .. n) \cup {n + 1}}
    BY <1>1, <1>5, Zenon DEF Names
  <2>2. Names(src, str) = {NameAt(str, src[i].offset) : i \in 1 .. n}
    BY DEF Names
  <2> QED
    BY <1>4, <2>1, <2>2
<1> QED
  BY <1>6 DEF more, longer

(* What the builder holds, seen as a set.                                  *)
LEMMA MembersAre ==
    ASSUME IInv
    PROVE  {StringAt(source[i].offset) : i \in 1 .. cnt} = Names(source, strings)
<1>1. Len(source) = cnt
  BY Typing DEF IInv
<1> QED
  BY <1>1 DEF Names, NameAt, StringAt

(* Only set_new, set_free and set_add change it.                           *)
LEMMA NamesStay ==
    ASSUME IInv,
           \/ Double \/ (\E s \in Symbols : set_add(s)) \/ (\E b \in BPP : set_fini(b))
           \/ Qsort \/ StartPass \/ Scatter \/ EndPass \/ CopyBack
           \/ SkipEqual \/ KeepLast \/ Return
    PROVE  Names(source, strings)' = Names(source, strings)
<1>1. TypeOK /\ ControlInv /\ Kept(source, strings)
  BY DEF IInv
<1>2. /\ symbols_v \in Seq(Entries) /\ source \in Seq(Entries) /\ Len(source) = cnt
      /\ cnt \in Nat /\ strings \in Seq(Cells)
  BY <1>1, Typing DEF TypeOK
<1>3. CASE \/ Double \/ (\E s \in Symbols : set_add(s))
           \/ StartPass \/ SkipEqual \/ KeepLast \/ Return
  <2>1. /\ strings' = strings /\ symbols_v' = symbols_v
        /\ temporary' = temporary /\ in_place' = in_place
    BY <1>3 DEF Double, set_add, StartPass, SkipEqual, KeepLast, Return, set, sorting
  <2> QED
    BY <2>1 DEF source, Names, NameAt
<1>4. ASSUME NEW b \in BPP, set_fini(b)
      PROVE  Names(source, strings)' = Names(source, strings)
  <2>1. /\ phase = "idle" /\ strings' = strings /\ in_place' = in_place
        /\ symbols_v' = [i \in 1 .. cnt |-> Hashed(symbols_v[i], b)]
    BY <1>4 DEF set_fini
  <2>2. in_place /\ source = symbols_v
    BY <1>1, <2>1 DEF ControlInv, source
  <2>3. symbols_v' = Rehash(symbols_v, strings, b)
    BY <2>1 DEF Hashed, StringAt, NameAt, cnt, Rehash
  <2>4. Rehash(symbols_v, strings, b) \in Seq(Entries)
        /\ Len(Rehash(symbols_v, strings, b)) = Len(symbols_v)
    BY <1>1, <1>2, <2>2, Rehashed
  <2>5. ASSUME NEW i \in 1 .. Len(symbols_v)
        PROVE  Rehash(symbols_v, strings, b)[i].offset = symbols_v[i].offset
    <3>1. symbols_v[i] \in Entries
      BY <1>2
    <3> QED
      BY <3>1 DEF Rehash, Entries
  <2>6. Names(Rehash(symbols_v, strings, b), strings) = Names(symbols_v, strings)
    BY <1>2, <2>4, <2>5, NamesAlike
  <2>7. source' = Rehash(symbols_v, strings, b)
    BY <2>1, <2>2, <2>3 DEF source
  <2> QED
    BY <2>1, <2>2, <2>6, <2>7
<1>5. CASE Qsort
  <2>1. phase = "qsort" /\ strings' = strings /\ in_place' = in_place
    BY <1>5 DEF Qsort, sorting
  <2>2. in_place /\ source = symbols_v /\ cnt = Len(symbols_v)
    BY <1>1, <2>1 DEF ControlInv, source, cnt
  <2>3. PICK perm \in Bijection(1 .. cnt, 1 .. cnt) :
               symbols_v' = [i \in 1 .. cnt |-> symbols_v[perm[i]]]
    BY <1>5 DEF Qsort
  <2>4. /\ \A i \in 1 .. cnt : perm[i] \in 1 .. cnt
        /\ \A k \in 1 .. cnt : \E i \in 1 .. cnt : perm[i] = k
    BY <2>3 DEF Bijection, Surjection
  <2>5. /\ symbols_v' \in Seq(Entries) /\ Len(symbols_v') = cnt
        /\ \A i \in 1 .. cnt : symbols_v'[i] = symbols_v[perm[i]]
    <3>2. perm \in [1 .. cnt -> 1 .. cnt]
      BY <2>3 DEF Bijection, Injection
    <3>3. symbols_v \in Seq(Entries) /\ cnt = Len(symbols_v) /\ cnt \in Nat
      BY <1>2, <2>2
    <3>4. symbols_v' \in [1 .. cnt -> Entries]
      BY <2>3, <3>2, <3>3
    <3> QED
      BY <2>3, <3>3, <3>4
  <2>6. /\ \A i \in 1 .. Len(symbols_v) : \E k \in 1 .. Len(symbols_v) :
               symbols_v'[i] = symbols_v[k]
        /\ \A k \in 1 .. Len(symbols_v) : \E i \in 1 .. Len(symbols_v) :
               symbols_v'[i] = symbols_v[k]
    <3>1. \A i \in 1 .. cnt : \E k \in 1 .. cnt : symbols_v'[i] = symbols_v[k]
      BY <2>4, <2>5, Zenon
    <3>2. ASSUME NEW k \in 1 .. cnt
          PROVE  \E i \in 1 .. cnt : symbols_v'[i] = symbols_v[k]
      <4>1. PICK i \in 1 .. cnt : perm[i] = k
        BY <2>4
      <4> QED
        BY <2>5, <4>1, Zenon
    <3> QED
      BY <2>2, <3>1, <3>2, Zenon
  <2>7. Names(symbols_v', strings) = Names(symbols_v, strings)
    <3>1. Len(symbols_v') = Len(symbols_v)
      BY <2>2, <2>5
    <3> QED
      BY <1>2, <2>5, <2>6, <3>1, NamesPermuted
  <2>8. source' = symbols_v'
    BY <2>1, <2>2 DEF source
  <2> QED
    BY <2>1, <2>2, <2>7, <2>8
<1>6. CASE Scatter
  <2>1. /\ strings' = strings /\ in_place' = in_place
        /\ in_place => symbols_v' = symbols_v
        /\ ~in_place => temporary' = temporary
    BY <1>6 DEF Scatter
  <2>2. source' = source
    BY <2>1 DEF source
  <2> QED
    BY <2>1, <2>2
<1>7. CASE EndPass
  <2> DEFINE dig == Digits(source, pass)
  <2>1. /\ phase = "scatter" /\ ~(next <= cnt) /\ strings' = strings
        /\ symbols_v' = symbols_v /\ temporary' = temporary /\ in_place' = ~in_place
    <3>1. next \in Nat
      BY <1>1 DEF TypeOK
    <3> QED
      BY <1>2, <1>7, <3>1 DEF EndPass, set
  <2>2. /\ next = cnt + 1 /\ in_place \in BOOLEAN /\ pass \in Nat
        /\ destination \in Seq(Entries) /\ Len(destination) = cnt
        /\ bpp \in BPP /\ pass < passes
        /\ Scattered(source, destination, offsets, next, dig)
    BY <1>1, <1>2, <2>1, Typing DEF TypeOK, ControlInv, Running, IInv, ScatterInv
  <2>3. pass * RadixBits \in 0 .. 31
    <3>1. passes = Passes(bpp)
      BY DEF passes, Passes
    <3> QED
      BY <2>2, <3>1, PassBits
  <2>4. dig \in [1 .. cnt -> Nat]
    BY <1>2, <2>2, <2>3, DigitsType
  <2> HIDE DEF dig
  <2>5. \A k \in 1 .. cnt : destination[Rank(dig, cnt, k)] = source[k]
    <3>1. next - 1 = cnt
      BY <1>2, <2>2
    <3> QED
      BY <1>2, <2>2, <3>1 DEF Scattered
  <2>6. /\ \A k \in 1 .. cnt : Rank(dig, cnt, k) \in 1 .. cnt
        /\ \A i \in 1 .. cnt : \E k \in 1 .. cnt : Rank(dig, cnt, k) = i
    BY <1>2, <2>4, RankInRange, RankOnto
  <2>7. /\ \A i \in 1 .. Len(source) : \E k \in 1 .. Len(source) : destination[i] = source[k]
        /\ \A k \in 1 .. Len(source) : \E i \in 1 .. Len(source) : destination[i] = source[k]
    BY <1>2, <2>5, <2>6
  <2>8. Names(destination, strings) = Names(source, strings)
    <3>1. /\ source \in Seq(Entries) /\ destination \in Seq(Entries)
          /\ strings \in Seq(Cells) /\ Len(destination) = Len(source)
      BY <1>2, <2>2
    <3> QED
      BY <2>7, <3>1, NamesPermuted, Zenon
  <2>9. source' = destination
    BY <2>1, <2>2 DEF source, destination
  <2> QED
    BY <2>1, <2>8, <2>9
<1>8. CASE CopyBack
  <2>1. strings' = strings /\ symbols_v' = source /\ in_place' = TRUE
    BY <1>8 DEF CopyBack
  <2>2. source' = source
    BY <2>1 DEF source
  <2> QED
    BY <2>1, <2>2
<1> QED
  BY <1>3, <1>4, <1>5, <1>6, <1>7, <1>8

(* When every value was looked at, the distinct ones are all of them.      *)
LEMMA UniquesAtEnd ==
    ASSUME NEW src \in Seq(Entries), NEW kept \in Seq(Nat), NEW nx \in Nat,
           nx = Len(src) + 1, Uniques(src, kept, nx)
    PROVE  /\ Ascending(kept)
           /\ \A x \in 1 .. Len(kept) : \E k \in 1 .. Len(src) : kept[x] = src[k].hash
           /\ \A k \in 1 .. Len(src) : src[k].hash \in Range(kept)
<1>1. nx - 1 = Len(src) /\ ~(nx <= Len(src))
  OBVIOUS
<1>2. Ascending(kept)
  BY DEF Uniques
<1>3. \A x \in 1 .. Len(kept) : \E k \in 1 .. nx - 1 : kept[x] = src[k].hash
  BY Zenon DEF Uniques
<1>4. \A k \in 1 .. nx - 1 : src[k].hash \in Range(kept)
  BY <1>1, Zenon DEF Uniques
<1> QED
  BY <1>1, <1>2, <1>3, <1>4, Zenon

(* An array in ascending order that holds the cut values of the names.     *)
LEMMA ReturnEncodes ==
    ASSUME IInv, Return
    PROVE  Symbol_Set!Encodes(result', Names(source, strings), bpp)
<1>1. TypeOK /\ ControlInv /\ Kept(source, strings)
  BY DEF IInv
<1>2. phase = "unique" /\ ~(next <= cnt) /\ result' = unique_hash
  <2>1. next \in Nat /\ cnt \in Nat
    BY <1>1, Typing DEF TypeOK
  <2> QED
    BY <2>1 DEF Return
<1>3. /\ bpp \in BPP /\ Values(source, strings, bpp)
      /\ Uniques(source, unique_hash, next) /\ next <= cnt + 1
  BY <1>1, <1>2 DEF ControlInv, Running, IInv, UniqueInv
<1>4. /\ Len(source) = cnt /\ cnt \in Nat /\ next = cnt + 1 /\ next - 1 = cnt
      /\ unique_hash \in Seq(Nat)
  BY <1>1, <1>2, <1>3, Typing DEF TypeOK
<1> DEFINE u == unique_hash
           V(k) == Masked(Hash[NameAt(strings, source[k].offset)], bpp)
<1>5. /\ Ascending(u)
      /\ \A x \in 1 .. Len(u) : \E k \in 1 .. cnt : u[x] = source[k].hash
      /\ \A k \in 1 .. cnt : source[k].hash \in Range(u)
  <2>1. /\ source \in Seq(Entries) /\ unique_hash \in Seq(Nat)
        /\ next \in Nat /\ next = Len(source) + 1
        /\ Uniques(source, unique_hash, next)
    BY <1>1, <1>3, <1>4, Typing
  <2> QED
    BY <1>4, <2>1, UniquesAtEnd
<1>6. \A k \in 1 .. cnt : source[k].hash = V(k)
  BY <1>3, <1>4 DEF Values
<1> HIDE DEF V
<1>7. Range(u) = {V(k) : k \in 1 .. cnt}
  <2>1. ASSUME NEW y \in Range(u) PROVE y \in {V(k) : k \in 1 .. cnt}
    <3>1. DOMAIN u = 1 .. Len(u)
      BY <1>4
    <3>2. PICK x \in 1 .. Len(u) : y = u[x]
      BY <2>1, <3>1 DEF Range
    <3> QED
      BY <1>5, <1>6, <3>2
  <2>2. ASSUME NEW y \in {V(k) : k \in 1 .. cnt} PROVE y \in Range(u)
    BY <1>5, <1>6, <2>2
  <2> QED
    BY <2>1, <2>2
<1>8. {V(k) : k \in 1 .. cnt} =
          {Symbol_Set!Masked(Hash[s], bpp) : s \in Names(source, strings)}
  <2>1. Names(source, strings) = {NameAt(strings, source[i].offset) : i \in 1 .. cnt}
    BY <1>4 DEF Names
  <2>2. \A k \in 1 .. cnt :
           V(k) = Symbol_Set!Masked(Hash[NameAt(strings, source[k].offset)], bpp)
    BY DEF V, Masked, Symbol_Set!Masked
  <2> HIDE DEF V
  <2> QED
    BY <2>1, <2>2
<1>9. Range(u) = Symbol_Set!Range(u) /\ (Ascending(u) <=> Symbol_Set!Ascending(u))
  BY DEF Range, Symbol_Set!Range, Ascending, Symbol_Set!Ascending
<1> QED
  BY <1>2, <1>4, <1>5, <1>7, <1>8, <1>9 DEF Symbol_Set!Encodes

LEMMA SomeMember ==
    ASSUME IInv, Return
    PROVE  {StringAt(source[i].offset) : i \in 1 .. cnt} # {}
<1>1. phase = "unique" /\ cnt > 0 /\ cnt \in Nat
  BY Typing DEF Return, IInv, ControlInv, Running
<1>2. 1 \in 1 .. cnt
  BY <1>1
<1> QED
  BY <1>2

(* The builder is a set of symbols: for any names, hash values and sizes,  *)
(* and whatever was encoded before, a string stands for what was added.    *)
THEOREM BuilderImplementsSet == Spec => ImplementsSymbolSet
<1> DEFINE M == {StringAt(source[i].offset) : i \in 1 .. cnt}
<1>1. Init => Symbol_Set!Init
  <2>1. ASSUME Init PROVE open = FALSE /\ M = {} /\ result = <<>>
    <3>1. open = FALSE /\ result = <<>> /\ symbols_v = <<>>
      BY <2>1 DEF Init
    <3>2. cnt = 0
      BY <3>1 DEF cnt
    <3> QED
      BY <3>1, <3>2
  <2> QED
    BY <2>1 DEF Symbol_Set!Init
<1>2. ASSUME IInv, IInv', [Next]_vars
      PROVE  [Symbol_Set!Next]_Symbol_Set!svars
  <2>1. M = Names(source, strings) /\ M' = Names(source, strings)'
    <3>1. M = Names(source, strings)
      BY <1>2, MembersAre
    <3>2. (M = Names(source, strings))'
      BY <1>2, MembersAre, PTL
    <3> QED
      BY <3>1, <3>2
  <2> HIDE DEF M
  <2>2. CASE set_new
    <3>1. ~open /\ open' = TRUE /\ result' = result /\ symbols_v' = <<>>
      BY <2>2 DEF set_new, Empty
    <3>2. symbols_v = <<>>
      BY <1>2, <3>1 DEF IInv, ControlInv
    <3>3. M = {} /\ M' = {}
      BY <3>1, <3>2 DEF M, cnt
    <3> QED
      BY <3>1, <3>3 DEF M, Symbol_Set!New, Symbol_Set!Next
  <2>3. CASE set_free
    <3>1. open /\ open' = FALSE /\ result' = result /\ symbols_v' = <<>>
      BY <2>3 DEF set_free, Empty
    <3>2. M' = {}
      BY <3>1 DEF M, cnt
    <3> QED
      BY <3>1, <3>2 DEF M, Symbol_Set!Free, Symbol_Set!Next
  <2>4. CASE Store
    <3>1. /\ TypeOK /\ ControlInv /\ Kept(source, strings) /\ phase = "grow"
      BY <1>2, <2>4 DEF IInv, Store
    <3>2. /\ sym \in Symbols /\ open /\ in_place /\ source = symbols_v
          /\ symbols_v \in Seq(Entries) /\ strings \in Seq(Cells)
      BY <3>1 DEF ControlInv, TypeOK, source
    <3>3. /\ symbols_v' = Append(symbols_v, [offset |-> Len(strings), hash |-> 0])
          /\ strings' = strings \o Bytes(sym)
          /\ open' = open /\ result' = result /\ in_place' = in_place
      BY <2>4 DEF Store, strings_len, sorting
    <3>4. source' = symbols_v'
      BY <3>2, <3>3 DEF source
    <3>5. M' = M \cup {sym}
      BY <2>1, <3>1, <3>2, <3>3, <3>4, NamesAdded
    <3>6. Symbol_Set!Add(sym)
      BY <3>2, <3>3, <3>5 DEF M, Symbol_Set!Add
    <3> QED
      BY <3>2, <3>6 DEF Symbol_Set!Next
  <2>5. CASE Return
    <3>1. open /\ open' = open /\ bpp \in BPP /\ phase = "unique"
      BY <1>2, <2>5 DEF IInv, ControlInv, Running, Return, set
    <3>2. M' = M
      BY <1>2, <2>1, <2>5, NamesStay
    <3>3. Symbol_Set!Encodes(result', M, bpp)
      BY <1>2, <2>1, <2>5, ReturnEncodes
    <3>4. M # {}
      BY <1>2, <2>5, SomeMember DEF M
    <3>5. Symbol_Set!Fini(bpp)
      BY <3>1, <3>2, <3>3, <3>4 DEF M, Symbol_Set!Fini
    <3> QED
      BY <3>1, <3>5 DEF Symbol_Set!Next
  <2>6. CASE \/ Double \/ (\E s \in Symbols : set_add(s)) \/ (\E b \in BPP : set_fini(b))
             \/ Qsort \/ StartPass \/ Scatter \/ EndPass \/ CopyBack
             \/ SkipEqual \/ KeepLast
    <3>1. open' = open /\ result' = result
      BY <2>6 DEF Double, set_add, set_fini, Qsort, StartPass, Scatter, EndPass, CopyBack,
                  SkipEqual, KeepLast, set
    <3>2. M' = M
      BY <1>2, <2>1, <2>6, NamesStay
    <3> QED
      BY <3>1, <3>2 DEF M, Symbol_Set!svars
  <2>7. CASE UNCHANGED vars
    <3>1. /\ open' = open /\ result' = result /\ source' = source /\ strings' = strings
          /\ cnt' = cnt
      BY <2>7 DEF vars, set, sorting, source, cnt
    <3>2. M' = M
      BY <2>1, <3>1
    <3> QED
      BY <3>1, <3>2 DEF M, Symbol_Set!svars
  <2> QED
    BY <1>2, <2>2, <2>3, <2>4, <2>5, <2>6, <2>7 DEF Next, Call, Step
<1> QED
  BY <1>1, <1>2, Invariance, PTL DEF Spec, Symbol_Set!Spec, ImplementsSymbolSet
=============================================================================
