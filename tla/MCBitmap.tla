-------------------------------- MODULE MCBitmap --------------------------------
(***************************************************************************)
(* bitmap_set.c: its builder and its comparison, which have nothing in     *)
(* common: a behaviour uses one of the two interfaces.                     *)
(***************************************************************************)
EXTENDS BitmapSet, BitmapCmp, TLC

CONSTANTS s1, s2, s3, s4

MCSymbols == {s1, s2, s3, s4}
(* 22 and 6 agree in the three lowest bits, all four differ in five.       *)
MCHash == (s1 :> 22) @@ (s2 :> 6) @@ (s3 :> 18) @@ (s4 :> 9)

(* Four values are too many to be serialised.                              *)
MCPortableSize(values) == Cardinality(values)

-----------------------------------------------------------------------------
(* Sets at three precisions, equal, included and neither, and refusals.    *)
String(text, width, arr) == [text |-> text, bpp |-> width, fault |-> "none", values |-> arr]

Wide == String("12", 12, <<5, 1029, 3077>>)
Pair == String("11", 11, <<5, 1029>>)
OtherPair == String("11'", 11, <<5, 1500>>)
Single == String("10", 10, <<5>>)

Faults == {"header", "length", "digit", "size", "content"}

MCStr ==
    {Wide, Pair, OtherPair, Single, String("9", 9, <<5>>), String("empty", 10, <<>>)}
        \cup {[Single EXCEPT !.text = fault, !.fault = fault] : fault \in Faults}

MCArg == {[prefix |-> FALSE, body |-> s] : s \in MCStr \ {Pair}}
             \cup {[prefix |-> TRUE, body |-> Pair]}

VARIABLE interface     \* the functions of set.h that are called

MCInit == Init /\ CmpInit /\ interface \in {"rpmsetcmp", "set"}

MCNext == \/ interface = "rpmsetcmp" /\ CmpNext /\ UNCHANGED <<interface, vars>>
          \/ interface = "set" /\ Next /\ UNCHANGED <<interface, cmp_vars>>

MCSpec == MCInit /\ [][MCNext]_<<interface, vars, cmp_vars>>
===============================================================================
