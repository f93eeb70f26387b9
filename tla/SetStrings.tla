------------------------------ MODULE SetStrings ------------------------------
(***************************************************************************)
(* Set-version strings as set9.c sees them.                                *)
(*                                                                         *)
(* A string is a record of what the program tells apart: the two header    *)
(* parameters, the length of the payload, the two payload characters that  *)
(* enter the cache fingerprint, and the array the payload decodes to.  The *)
(* bit-level codec between text and array is the subject of other modules. *)
(***************************************************************************)
EXTENDS ArrayAlgorithms

SET_BPP_MIN == 10
SET_BPP_MAX == 32
SET_MSHIFT_MIN == 7
SET_MSHIFT_MAX == 31
BASE62_VALUE_BITS == 6

CONSTANT Str
(***************************************************************************)
(* The strings, each a record                                              *)
(*   text    the characters themselves, the string's identity              *)
(*   bpp     the first header parameter (bits per hash value)              *)
(*   Mshift  the second header parameter (Golomb-Rice remainder width)     *)
(*   len     the number of payload characters                              *)
(*   head    the first two payload characters                              *)
(*   values  the array decode_set stores; <<>> when decode_set fails (a    *)
(*           decode that succeeds stores at least one value)               *)
(***************************************************************************)

Precision == SET_BPP_MIN .. SET_BPP_MAX

ASSUME StrAssumption ==
    \A s \in Str : /\ s.bpp \in Int
                   /\ s.Mshift \in Int
                   /\ s.len \in Nat

-----------------------------------------------------------------------------
(* set_meta_init: the header is well formed and a payload follows it.      *)
set_meta_init(s) ==
    /\ s.len >= 1
    /\ s.bpp \in SET_BPP_MIN .. SET_BPP_MAX
    /\ s.Mshift \in SET_MSHIFT_MIN .. SET_MSHIFT_MAX
    /\ s.Mshift < s.bpp

(* set_meta_fini: the most values the payload can hold; below one, the     *)
(* string is rejected without being decoded.                               *)
value_capacity(s) == (s.len * BASE62_VALUE_BITS) \div (s.Mshift + 1)

(* The characters the cache fingerprint is made of: str[0], str[2], str[3] *)
Fingerprint(s) == <<s.bpp, s.head>>

=============================================================================
