-------------------------------- MODULE MCNewset --------------------------------
(***************************************************************************)
(* newset.c: its comparison, over a cache of four entries with two places  *)
(* behind the pivot, and its builder.  The builder keeps no static data    *)
(* and touches none: a behaviour uses one of the two interfaces.           *)
(***************************************************************************)
EXTENDS NewsetCmp, NewsetBuilder, MCStrings

(* '-' is not a digit                                                      *)
BadDigit == [text |-> "ec-b0", bpp |-> 11, Mshift |-> 9, len |-> 3,
             head |-> "-b", values |-> <<>>]

(* {5, 476} at 10 bits: what OtherPair is reduced to                       *)
Coarse == [text |-> "dbbMH1", bpp |-> 10, Mshift |-> 8, len |-> 4,
           head |-> "bM", values |-> <<5, 476>>]

MCStr == {Wide, Pair, OtherPair, Single, Coarse, BadDigit, BadHeader}
MCArg == [prefix : {FALSE}, body : MCStr]
MCArrays == {s.values : s \in MCStr} \ {<<>>}

-----------------------------------------------------------------------------
CONSTANTS s1, s2, s3, s4

Names == {s1, s2, s3, s4}

(* 22 and 6 agree in the three lowest bits, all four differ in five.       *)
MCHash == [sym \in Names |->
              CASE sym = s1 -> 22 [] sym = s2 -> 6 [] sym = s3 -> 18 [] sym = s4 -> 9]

VARIABLE interface     \* the functions of set.h that are called

MCInit == CmpInit /\ BuilderInit /\ interface \in {"rpmsetcmp", "set"}

MCNext == \/ interface = "rpmsetcmp" /\ CmpNext /\ UNCHANGED <<interface, builder_vars>>
          \/ interface = "set" /\ BuilderNext /\ UNCHANGED <<interface, allvars>>

MCSpec == MCInit /\ [][MCNext]_<<interface, allvars, builder_vars>>
===============================================================================
