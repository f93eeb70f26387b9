----------------------------- MODULE NewsetBuilder ------------------------------
(***************************************************************************)
(* The builder of newset.c.  Every name is copied into memory of its own,  *)
(* which set_free gives back; set_fini hashes the copies, sorts and makes  *)
(* the values unique, in one way only.                                     *)
(***************************************************************************)
EXTENDS DirectArrays, Functions

CONSTANTS Symbols,       \* what is added
          Hash,          \* the function hash
          BPP,           \* the precisions asked for
          WORD,          \* the width of an unsigned: 32
          Delta,         \* by how much the array grows: 1024
          Address,       \* where a copy may lie
          MaxSymbols     \* bound: the most symbols that are added

ASSUME BuilderAssumption ==
    /\ WORD \in 1 .. 32 /\ BPP \subseteq 1 .. WORD
    /\ Hash \in [Symbols -> Nat]
    /\ Delta \in Nat \ {0}
    /\ MaxSymbols \in Nat

VARIABLES open,
          symbols_v,     \* pairs [str, hash]; cnt is its length
          room,          \* the entries that symbols_v is allocated for
          heap,          \* heap[a]: the name copied to address a
          phase, bpp,
          encoded,       \* the values encoded last
          given          \* history: the names set_add was called with

builder_vars == <<open, symbols_v, room, heap, phase, bpp, encoded, given>>

cnt == Len(symbols_v)

BuilderInit ==
    /\ open = FALSE
    /\ symbols_v = <<>>
    /\ room = 0
    /\ heap = <<>>
    /\ phase = "idle"
    /\ bpp = 0
    /\ encoded = <<>>
    /\ given = {}

set_new ==
    /\ phase = "idle"
    /\ ~open
    /\ open' = TRUE
    /\ given' = {}
    /\ symbols_v' = <<>>
    /\ room' = 0
    /\ UNCHANGED <<heap, phase, bpp, encoded>>

(* The copies are freed one by one, then the array and the set.            *)
set_free ==
    /\ phase = "idle"
    /\ open
    /\ open' = FALSE
    /\ given' = {}
    /\ heap' = [a \in DOMAIN heap \ {symbols_v[i].str : i \in 1 .. cnt} |-> heap[a]]
    /\ symbols_v' = <<>>
    /\ room' = 0
    /\ UNCHANGED <<phase, bpp, encoded>>

GrownOnce == IF cnt = 0 THEN Delta ELSE room     \* mutant: never enlarged again
Grown == IF cnt % Delta = 0 THEN cnt + Delta ELSE room

(* xstrdup takes any address that is free; a symbol that is stored past    *)
(* the room there is would be lost.                                        *)
set_add(sym) ==
    /\ phase = "idle"
    /\ open
    /\ cnt < MaxSymbols
    /\ room' = Grown
    /\ \E a \in Address \ DOMAIN heap :
           /\ heap' = [b \in DOMAIN heap \cup {a} |-> IF b = a THEN sym ELSE heap[b]]
           /\ symbols_v' = IF cnt < Grown THEN Append(symbols_v, [str |-> a, hash |-> 0])
                           ELSE symbols_v
    /\ given' = given \cup {sym}
    /\ UNCHANGED <<open, phase, bpp, encoded>>

-----------------------------------------------------------------------------
Masked(h, b) == IF b < WORD THEN h % 2^b ELSE h

set_fini(b) ==
    /\ phase = "idle"
    /\ open
    /\ cnt > 0
    /\ bpp' = b
    /\ symbols_v' = [i \in 1 .. cnt |-> [symbols_v[i] EXCEPT !.hash = Masked(Hash[heap[symbols_v[i].str]], b)]]
    /\ phase' = "qsort"
    /\ UNCHANGED <<open, room, heap, encoded, given>>

Qsort ==
    /\ phase = "qsort"
    /\ \E perm \in Bijection(1 .. cnt, 1 .. cnt) :
           symbols_v' = [i \in 1 .. cnt |-> symbols_v[perm[i]]]
    /\ \A i, j \in 1 .. cnt : i < j => symbols_v'[i].hash <= symbols_v'[j].hash
    /\ phase' = "unique"
    /\ UNCHANGED <<open, room, heap, bpp, encoded, given>>

(* The distinct values are handed to encode_set in an array of their own.  *)
Return ==
    /\ phase = "unique"
    /\ encoded' = Unique([i \in 1 .. cnt |-> symbols_v[i].hash])
    /\ bpp' = 0
    /\ phase' = "idle"
    /\ UNCHANGED <<open, symbols_v, room, heap, given>>

BuilderNext ==
    \/ set_new \/ set_free \/ Qsort \/ Return
    \/ \E sym \in Symbols : set_add(sym)
    \/ \E b \in BPP : set_fini(b)

BuilderSpec == BuilderInit /\ [][BuilderNext]_builder_vars

-----------------------------------------------------------------------------
(* The builder is a set of symbols: whatever it has been through, what it  *)
(* encodes is made of all the names it was given since set_new, each read  *)
(* from its own copy (newset.c:26-60 and 272-311).                         *)
Symbol_Set == INSTANCE SymbolSet WITH members <- given, result <- encoded

ImplementsSymbolSet == Symbol_Set!Spec
=============================================================================
