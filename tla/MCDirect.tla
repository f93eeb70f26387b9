-------------------------------- MODULE MCDirect --------------------------------
(***************************************************************************)
(* hash_set.c: its comparison, over two caches of two entries that         *)
(* remember two results each, and its builder.  The builder keeps no       *)
(* static data and touches none: a behaviour uses one of the interfaces.   *)
(***************************************************************************)
EXTENDS DirectCmp, DirectBuilder

String(text, bits, values) ==
    [text |-> text, header |-> TRUE, bpp |-> bits, len |-> 4, values |-> values]

Wide == String("D112BVBABQw", 12, <<5, 1029, 3077>>)
Pair == String("D111BSgg", 11, <<5, 1029>>)
OtherPair == String("D111BeAu", 11, <<5, 1500>>)
Single == [String("D1103AE", 10, <<476>>) EXCEPT !.len = 3]

(* '-' is not in the alphabet; "D2" is no header                           *)
BadPayload == String("D111B-gg", 11, <<>>)
BadHeader == [String("D211BSgg", 11, <<>>) EXCEPT !.header = FALSE]

MCStr == {Wide, Pair, OtherPair, Single, BadPayload, BadHeader}
MCArg == [prefix : {FALSE}, body : MCStr]

MCDecoded ==
    [s \in MCStr |->
        LET down[t \in 10 .. 12] == IF t >= s.bpp THEN s.values ELSE downsample_set(down[t + 1], t)
        IN  [t \in 10 .. 12 |-> down[t]]]

MCCacheBucket(s, target) == IF s.bpp = 12 /\ target = 10 THEN "right" ELSE "left"

-----------------------------------------------------------------------------
CONSTANTS s1, s2, s3, s4

Names == {s1, s2, s3, s4}

(* The empty name, and one that takes the buffer two doublings.            *)
MCLength == [sym \in Names |-> CASE sym = s1 -> 1 [] sym = s3 -> 9 [] OTHER -> 2]

(* 22 and 6 agree in the three lowest bits, all four differ in five.       *)
MCHash == [sym \in Names |->
              CASE sym = s1 -> 22 [] sym = s2 -> 6 [] sym = s3 -> 18 [] sym = s4 -> 9]

VARIABLE interface     \* the functions of set.h that are called

MCInit == Init /\ BuilderInit /\ interface \in {"rpmsetcmp", "set"}

MCNext == \/ interface = "rpmsetcmp" /\ Next /\ UNCHANGED <<interface, builder_vars>>
          \/ interface = "set" /\ BuilderNext /\ UNCHANGED <<interface, vars>>

MCSpec == MCInit /\ [][MCNext]_<<interface, vars, builder_vars>>
=============================================================================
