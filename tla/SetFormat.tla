------------------------------- MODULE SetFormat -------------------------------
(***************************************************************************)
(* The text of a set-version: its alphabet, and the parameters an encoder  *)
(* chooses.  Characters are their codes, a payload is a sequence of them.  *)
(***************************************************************************)
EXTENDS HashArrays, SequencesExt

CONSTANT WORD   \* the width of an unsigned: 32

ASSUME WordAssumption == WORD \in 1 .. 32

SET_HEADER_SIZE == 2
SET_MSHIFT_MIN == 7
SET_MSHIFT_MAX == 31

BASE62_ESCAPE_BITS == 4
BASE62_VALUE_BITS == 6
BASE62_ESCAPE_CHUNK_BITS == BASE62_ESCAPE_BITS + BASE62_VALUE_BITS
BASE62_MIN_BITS_PER_CHAR == BASE62_ESCAPE_CHUNK_BITS \div 2
BASE62_MAX_PADDING_BITS == BASE62_VALUE_BITS - 1
BASE62_ESCAPE_VALUE == 61
BASE62_VALUE_COUNT == 62

BASE62_INVALID == 238
BASE62_END == 255

-----------------------------------------------------------------------------
(* The digit of a value: '0'..'9', then 'a'..'z', then 'A'..'Z'.           *)
Digit(value) ==
    IF value < 10 THEN 48 + value
    ELSE IF value < 36 THEN 97 + value - 10
    ELSE 65 + value - 36

(* What a character stands for; 0 is the terminator of the string.         *)
char_to_num(c) ==
    IF c = 0 THEN BASE62_END
    ELSE IF c \in 48 .. 57 THEN c - 48
    ELSE IF c \in 97 .. 122 THEN c - 97 + 10
    ELSE IF c \in 65 .. 90 THEN c - 65 + 36
    ELSE BASE62_INVALID

(* The character at position i of a string that ends in a terminator.      *)
CharAt(str, i) == IF i <= Len(str) THEN str[i] ELSE 0

-----------------------------------------------------------------------------
(* The integer logarithm, by repeated halving; no set has more values than *)
(* there are of 32 bits.                                                   *)
log2i(n) == CHOOSE m \in 0 .. 32 : 2^m <= n /\ n < 2^(m + 1)

encode_golomb_Mshift(cnt, bpp) ==
    LET Mshift == bpp - log2i(cnt) - 1
    IN  IF Mshift < SET_MSHIFT_MIN THEN SET_MSHIFT_MIN
        ELSE IF Mshift > SET_MSHIFT_MAX THEN SET_MSHIFT_MAX
        ELSE Mshift

(* The bits a set is expected to fill, the characters for that many, and   *)
(* the size of the whole string with header and terminator.                *)
NoUnaryBits(cnt, Mshift) == Mshift * cnt      \* mutant: quotients not counted
encode_golomb_size(cnt, Mshift) == 2 * Mshift * cnt + 16

encode_base62_size(bit_cnt) == bit_cnt \div BASE62_MIN_BITS_PER_CHAR + 2

encode_set_size(cnt, bpp) ==
    SET_HEADER_SIZE +
        encode_base62_size(encode_golomb_size(cnt, encode_golomb_Mshift(cnt, bpp)))

(* The most values a payload of len characters can hold.                   *)
value_capacity(len, Mshift) == (len * BASE62_VALUE_BITS) \div (Mshift + 1)

Wrapped(n) == n % 2^WORD
=============================================================================
