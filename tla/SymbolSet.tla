------------------------------- MODULE SymbolSet -------------------------------
(***************************************************************************)
(* What the builder of set-versions promises: it is a set of symbols.  The *)
(* string it makes for a precision depends on which symbols were added,    *)
(* not on their order, their repetition or on strings made before.         *)
(***************************************************************************)
EXTENDS HashArrays, Functions

CONSTANTS Symbols,  \* names of functions and variables
          Hash,     \* their hash values
          BPP,      \* the precisions asked for
          WORD      \* the width of an unsigned: 32

VARIABLES open,     \* a set exists
          members,  \* the symbols in it
          result    \* the values of the string made last

svars == <<open, members, result>>

Masked(h, bpp) == IF bpp < WORD THEN h % 2^bpp ELSE h

(* The array of a set of symbols.                                          *)
Encodes(arr, S, bpp) ==
    /\ arr \in Seq(Nat)
    /\ Ascending(arr)
    /\ Range(arr) = {Masked(Hash[sym], bpp) : sym \in S}

-----------------------------------------------------------------------------
Init ==
    /\ open = FALSE
    /\ members = {}
    /\ result = <<>>

New ==
    /\ ~open
    /\ open' = TRUE
    /\ UNCHANGED <<members, result>>

Add(sym) ==
    /\ open
    /\ members' = members \cup {sym}
    /\ UNCHANGED <<open, result>>

Fini(bpp) ==
    /\ open
    /\ members # {}
    /\ Encodes(result', members, bpp)
    /\ UNCHANGED <<open, members>>

Free ==
    /\ open
    /\ open' = FALSE
    /\ members' = {}
    /\ UNCHANGED result

Next == New \/ Free \/ (\E sym \in Symbols : Add(sym)) \/ (\E bpp \in BPP : Fini(bpp))

Spec == Init /\ [][Next]_svars
=============================================================================
