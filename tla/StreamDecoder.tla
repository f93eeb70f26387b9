------------------------------ MODULE StreamDecoder ----------------------------
(***************************************************************************)
(* decode_set of set9.c: base62 and Golomb-Rice decoded in one pass, one   *)
(* loop iteration to a step.  Characters are read on demand into a         *)
(* register of a few dozen bits, from which quotients and remainders are   *)
(* taken; newset.c does the same in three stages over whole arrays.        *)
(***************************************************************************)
EXTENDS NewsetCodec

CONSTANTS Payload,   \* what may follow the header: sequences of characters
          MSHIFT     \* second header parameters to decode with

EPIPE == 32
EINVAL == 22
EILSEQ == 84

ASSUME DecoderAssumption ==
    /\ \A text \in Payload : text \in Seq(Nat \ {0})
    /\ MSHIFT \subseteq SET_MSHIFT_MIN .. SET_MSHIFT_MAX

VARIABLES str, Mshift,   \* the arguments
          input,         \* the position that is read next
          bits, filled,  \* the register and how many bits it holds
          q,             \* the quotient so far
          previous,      \* the last value
          hash_arr,      \* the values stored so far
          phase,         \* "quotient", "remainder" or "done"
          rc             \* what is returned

args == <<str, Mshift>>
vars == <<args, input, bits, filled, q, previous, hash_arr, phase, rc>>

count == Len(hash_arr)

-----------------------------------------------------------------------------
(* cache_decode_set calls it when the payload can hold a value.            *)
Init ==
    /\ str \in Payload
    /\ Mshift \in MSHIFT
    /\ value_capacity(Len(str), Mshift) >= 1
    /\ input = 1
    /\ bits = 0
    /\ filled = 0
    /\ q = 0
    /\ previous = 0
    /\ hash_arr = <<>>
    /\ phase = "quotient"
    /\ rc = 0

Return(code) ==
    /\ phase' = "done"
    /\ rc' = code
    /\ UNCHANGED <<args, bits, filled, q, previous, hash_arr>>

(* decode_chunk: the next character, or the next two when the first is the *)
(* escape; rc > 0 when they are a chunk of the stream.                     *)
Num(i) == char_to_num(CharAt(str, i))

Escaped(i) == Num(i) = BASE62_ESCAPE_VALUE

BadEscape(i) == (Num(i) \div 2^BASE62_ESCAPE_BITS) % 4 = 3

decode_rc(i) ==
    IF Num(i) = BASE62_END THEN 0
    ELSE IF Num(i) = BASE62_INVALID THEN -EINVAL
    ELSE IF ~Escaped(i) THEN 1
    ELSE IF Num(i + 1) = BASE62_END THEN -EPIPE
    ELSE IF Num(i + 1) = BASE62_INVALID THEN -EINVAL
    ELSE IF BadEscape(i + 1) THEN -EILSEQ
    ELSE 1

chunk ==
    IF ~Escaped(input) THEN Num(input)
    ELSE BASE62_ESCAPE_VALUE + Num(input + 1) \div 2^BASE62_ESCAPE_BITS
         + (Num(input + 1) % 2^BASE62_ESCAPE_BITS) * 2^BASE62_VALUE_BITS

width == IF Escaped(input) THEN BASE62_ESCAPE_CHUNK_BITS ELSE BASE62_VALUE_BITS

TwoAlways == input + 2          \* mutant: a character is skipped
AfterRead == IF Escaped(input) THEN input + 2 ELSE input + 1

(* The register is empty: a chunk fills it.                                *)
RefillQuotient ==
    /\ phase = "quotient"
    /\ filled = 0
    /\ decode_rc(input) > 0
    /\ bits' = chunk
    /\ filled' = width
    /\ input' = AfterRead
    /\ UNCHANGED <<args, q, previous, hash_arr, phase, rc>>

(* The string ends between values: what is left is padding, or too much.   *)
AnyPadding == TRUE      \* mutant: any number of trailing zeros
PaddingOnly == q <= BASE62_MAX_PADDING_BITS

EndOfString ==
    /\ phase = "quotient"
    /\ filled = 0
    /\ decode_rc(input) = 0
    /\ input' = input + 1
    /\ Return(IF PaddingOnly THEN count ELSE -EINVAL)

(* A remainder is read bit by bit of what the register lacks.               *)
NeedsBitsAtMshift == filled <= Mshift    \* mutant: one chunk too many
NeedsBits == filled < Mshift

(* An error while a quotient or a remainder is read; the end of the string *)
(* is one inside a remainder.                                              *)
ReadFails ==
    /\ \/ phase = "quotient" /\ filled = 0 /\ decode_rc(input) < 0
       \/ phase = "remainder" /\ NeedsBits /\ decode_rc(input) <= 0
    /\ input' = AfterRead
    /\ Return(IF decode_rc(input) = 0 THEN -EINVAL ELSE decode_rc(input))

(* Counting trailing zeros of the register.                                *)
Ctz(n) == CHOOSE z \in 0 .. n : n % 2^z = 0 /\ n % 2^(z + 1) # 0

(* The register holds the one that ends the quotient.                      *)
OneHeld == bits # 0 /\ Ctz(bits) < filled

(* Only zeros are left in the register: they all belong to the quotient.   *)
ZerosTakenAgain ==      \* mutant: the register is not emptied
    /\ phase = "quotient"
    /\ filled # 0
    /\ ~OneHeld
    /\ UNCHANGED vars
TakeZeros ==
    /\ phase = "quotient"
    /\ filled # 0
    /\ ~OneHeld
    /\ q' = Wrapped(q + filled)
    /\ bits' = 0
    /\ filled' = 0
    /\ UNCHANGED <<args, input, previous, hash_arr, phase, rc>>

(* The quotient ends; the one is consumed with its zeros.                   *)
EndQuotient ==
    /\ phase = "quotient"
    /\ filled # 0
    /\ OneHeld
    /\ q' = Wrapped(q + Ctz(bits))
    /\ bits' = bits \div 2^(Ctz(bits) + 1)
    /\ filled' = filled - (Ctz(bits) + 1)
    /\ phase' = "remainder"
    /\ UNCHANGED <<args, input, previous, hash_arr, rc>>

(* A remainder needs more bits: a chunk is put above those there are.      *)
ChunkAbove == bits + chunk * 2^filled

RefillRemainder ==
    /\ phase = "remainder"
    /\ NeedsBits
    /\ decode_rc(input) > 0
    /\ bits' = ChunkAbove
    /\ filled' = filled + width
    /\ input' = AfterRead
    /\ UNCHANGED <<args, q, previous, hash_arr, phase, rc>>

(* The next value is the last one and the delta.                           *)
QuotientReset == 0

RemainderTaken == bits \div 2^Mshift

StoreValue ==
    LET delta == Wrapped(q * 2^Mshift) + (bits % 2^Mshift)
    IN  /\ phase = "remainder"
        /\ filled >= Mshift
        /\ bits' = RemainderTaken
        /\ filled' = filled - Mshift
        /\ q' = QuotientReset
        /\ previous' = Wrapped(previous + delta)
        /\ hash_arr' = Append(hash_arr, previous')
        /\ phase' = "quotient"
        /\ UNCHANGED <<args, input, rc>>

Step == \/ RefillQuotient \/ EndOfString \/ ReadFails \/ TakeZeros \/ EndQuotient
        \/ RefillRemainder \/ StoreValue

(* The function has returned.                                              *)
Returned == phase = "done" /\ UNCHANGED vars

Next == Step \/ Returned

Spec == Init /\ [][Next]_vars

-----------------------------------------------------------------------------
(* "At most 31+10 bits are held at once" (set9.c:528): the 64-bit register *)
(* never loses a bit, and holds nothing above the bits it says it holds,   *)
(* which the count of trailing zeros relies on: it is below 2^filled, said *)
(* with powers that stay within 32 bits.                                   *)
RegisterFits ==
    LET low == IF filled < Mshift THEN filled ELSE Mshift
    IN  /\ filled <= Mshift + BASE62_ESCAPE_CHUNK_BITS - 1
        /\ bits \div 2^low < 2^(filled - low)

(* The state is one the declarations allow; the register has room, and no  *)
(* value is stored past the end of the array the caller allocated for      *)
(* value_capacity values (set9.c:413, 545).                                *)
TypeOK ==
    /\ str \in Payload
    /\ Mshift \in MSHIFT
    /\ input \in Nat \ {0}
    /\ bits \in Nat
    /\ filled \in Nat
    /\ RegisterFits
    /\ q \in Nat
    /\ previous \in Nat
    /\ hash_arr \in Seq(Nat)
    /\ count <= value_capacity(Len(str), Mshift)
    /\ phase \in {"quotient", "remainder", "done"}
    /\ rc \in Int

(* Nothing is read beyond the terminator, neither by the loops nor after   *)
(* an escape (set9.c:459, 469 read before they test).                      *)
ReadsInside ==
    /\ input <= Len(str) + 2
    /\ phase # "done" => input <= Len(str) + 1

(* The single pass accepts what the stages of newset.c accept, with the    *)
(* same values, and rejects everything else.                               *)
StreamedAsStaged ==
    phase = "done" =>
        LET staged == decode_payload(str, Mshift)
        IN  IF staged.rc < 0 THEN rc < 0
            ELSE rc = Len(staged.seq) /\ hash_arr = staged.seq
=============================================================================
