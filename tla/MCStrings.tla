------------------------------ MODULE MCStrings -------------------------------
(***************************************************************************)
(* Real set-version strings for the model-checking instances: each record  *)
(* is what set9.c computes from its text.                                  *)
(***************************************************************************)
EXTENDS SetStrings

(* {5, 1029, 3077} at 12 bits                                              *)
Wide == [text |-> "fdb01020", bpp |-> 12, Mshift |-> 10, len |-> 6,
         head |-> "b0", values |-> <<5, 1029, 3077>>]

(* {5, 1029} at 11 bits: both values fall together at 10 bits              *)
Pair == [text |-> "ecb010", bpp |-> 11, Mshift |-> 9, len |-> 4,
         head |-> "b0", values |-> <<5, 1029>>]

(* {5, 1500} at 11 bits: {5, 476} at 10 bits; the fingerprint of Pair      *)
OtherPair == [text |-> "ecb0Le", bpp |-> 11, Mshift |-> 9, len |-> 4,
              head |-> "b0", values |-> <<5, 1500>>]

(* {5} at 10 bits                                                          *)
Single == [text |-> "dcb0", bpp |-> 10, Mshift |-> 9, len |-> 2,
           head |-> "b0", values |-> <<5>>]

(* a delta of zero: the value 5 twice                                       *)
Repeats == [text |-> "ecbg00", bpp |-> 11, Mshift |-> 9, len |-> 4,
            head |-> "bg", values |-> <<5, 5>>]

(* a valid header, but "ZM" is no escape of the encoding                   *)
BadPayload == [text |-> "ecZMb0", bpp |-> 11, Mshift |-> 9, len |-> 4,
               head |-> "ZM", values |-> <<>>]

(* a valid header, but six bits cannot hold a value                        *)
TooShort == [text |-> "dc0", bpp |-> 10, Mshift |-> 9, len |-> 1,
             head |-> "0", values |-> <<>>]

(* a header whose second parameter is out of range                         *)
BadHeader == [text |-> "e0b0", bpp |-> 11, Mshift |-> -42, len |-> 2,
              head |-> "b0", values |-> <<>>]

(* The array of every string with a valid header, at every precision it    *)
(* can be compared at.                                                     *)
DecodedTable(strings) ==
    [s \in {s \in strings : set_meta_init(s)} |->
        LET down[t \in SET_BPP_MIN .. s.bpp] ==
                IF t = s.bpp THEN s.values ELSE downsample_set(down[t + 1], t)
        IN  [t \in SET_BPP_MIN .. s.bpp |-> down[t]]]
=============================================================================
