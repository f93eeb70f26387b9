------------------------------- MODULE BitmapSet --------------------------------
(***************************************************************************)
(* The builder of bitmap_set.c.  CRoaring keeps the full hash values, a    *)
(* bitmap being the set of its values here.  Unlike the other builders     *)
(* this one owns the string it returns: the next set_fini that succeeds,   *)
(* and set_free, release it.  What malloc returned is numbered by the      *)
(* count of the strings made so far.                                       *)
(***************************************************************************)
EXTENDS HashArrays, Functions, FiniteSets

CONSTANTS Symbols,
          Hash,                  \* the function hash_symbol
          BPP,
          WORD,                  \* the width of a hash value: 32
          PortableSize(_),       \* bytes of a serialised bitmap (CRoaring)
          MAX_SERIALIZED_SIZE,
          MaxAdded,              \* bound: calls of set_add on one set
          MaxStrings             \* bound: strings made

NULL == 0

ASSUME BitmapHashAssumption == Hash \in [Symbols -> Nat]
ASSUME BitmapBoundsAssumption ==
    /\ {MAX_SERIALIZED_SIZE, MaxAdded, MaxStrings} \subseteq Nat
    /\ WORD \in 1 .. 32
    /\ BPP \subseteq 1 .. WORD

VARIABLES open,
          hashes, added, encoded,    \* the fields of struct set
          strings,                   \* the strings allocated: [bpp, values]
          made,                      \* how many there have been
          returned,                  \* what set_fini returned last, or NULL
          warned,                    \* it printed "hash collision"
          result,                    \* the values of the string made last
          given                      \* history: the names set_add was called with

vars == <<open, hashes, added, encoded, strings, made, returned, warned, result, given>>

Init ==
    /\ open = FALSE
    /\ hashes = {} /\ added = 0 /\ encoded = NULL
    /\ strings = <<>>
    /\ made = 0
    /\ returned = NULL
    /\ warned = FALSE
    /\ result = <<>>
    /\ given = {}

set_new ==
    /\ ~open
    /\ open' = TRUE
    /\ hashes' = {} /\ added' = 0 /\ encoded' = NULL
    /\ given' = {}
    /\ UNCHANGED <<strings, made, returned, warned, result>>

set_add(sym) ==
    /\ open
    /\ added < MaxAdded
    /\ hashes' = hashes \cup {Hash[sym]}
    /\ added' = added + 1
    /\ given' = given \cup {sym}
    /\ UNCHANGED <<open, encoded, strings, made, returned, warned, result>>

-----------------------------------------------------------------------------
OneBitMore(bitmap, bpp) == {h % 2^(bpp + 1) : h \in bitmap}     \* mutant: a mask too wide
truncate_bitmap(bitmap, bpp) == IF bpp = WORD THEN bitmap ELSE {h % 2^bpp : h \in bitmap}

(* What iterating over a bitmap yields, and what is serialised.            *)
Sorted(bitmap) == CHOOSE arr \in [1 .. Cardinality(bitmap) -> bitmap] : Ascending(arr)

Without(string) == [p \in DOMAIN strings \ {string} |-> strings[p]]

NoneReleased == strings      \* mutant: the string returned before is not freed
Released == Without(encoded)

(* Nothing was added, or the precision is out of range, as it always may.  *)
FiniNull ==
    /\ open
    /\ returned' = NULL
    /\ UNCHANGED <<open, hashes, added, encoded, strings, made, warned, result, given>>

set_fini(bpp) ==
    LET truncated == truncate_bitmap(hashes, bpp)
    IN  /\ open
        /\ added # 0
        /\ warned' = (Cardinality(truncated) < added)
        /\ \/ /\ PortableSize(truncated) > MAX_SERIALIZED_SIZE
              /\ returned' = NULL
              /\ UNCHANGED <<encoded, strings, made, result>>
           \/ /\ PortableSize(truncated) <= MAX_SERIALIZED_SIZE
              /\ made < MaxStrings
              /\ made' = made + 1
              /\ strings' = [p \in DOMAIN Released \cup {made'} |->
                     IF p = made' THEN [bpp |-> bpp, values |-> Sorted(truncated)]
                     ELSE strings[p]]
              /\ encoded' = made'
              /\ returned' = encoded'
              /\ result' = strings'[encoded'].values
        /\ UNCHANGED <<open, hashes, added, given>>

set_free ==
    /\ open
    /\ open' = FALSE
    /\ strings' = Without(encoded)
    /\ hashes' = {} /\ added' = 0 /\ encoded' = NULL
    /\ given' = {}
    /\ UNCHANGED <<made, returned, warned, result>>

(* The bound on strings is where the model stops.                          *)
Next ==
    \/ set_new \/ set_free \/ FiniNull
    \/ \E sym \in Symbols : set_add(sym)
    \/ \E bpp \in BPP : set_fini(bpp)

Spec == Init /\ [][Next]_vars

-----------------------------------------------------------------------------
(* A set has at most the one string that its last successful set_fini      *)
(* returned, and it can be read until the next one: a call that gives up   *)
(* keeps it, set_free leaves nothing behind (bitmap_set.c:104-138).        *)
OneStringOwned ==
    /\ DOMAIN strings = {encoded} \ {NULL}
    /\ open /\ returned # NULL /\ encoded # NULL => returned = encoded
    /\ encoded # NULL => strings[encoded].values = result

(* The builder is a set of symbols, of which it has kept no name.          *)
Symbol_Set == INSTANCE SymbolSet WITH members <- given

ImplementsSymbolSet == Symbol_Set!Spec
=============================================================================
