------------------------------ MODULE StreamEncoder ----------------------------
(***************************************************************************)
(* encode_set of set9.c: the sorted hash values of a set go through a bit  *)
(* writer that emits base62 digits as soon as six bits are there (four     *)
(* after an escape), one loop iteration to a step.  newset.c produces the  *)
(* whole bit array first and packs it afterwards.                          *)
(***************************************************************************)
EXTENDS NewsetCodec

CONSTANTS Arrays,   \* what set_fini may pass: normalised arrays ...
          BPP       \* ... of values of this many bits

ASSUME EncoderAssumption ==
    /\ BPP \in 10 .. 32 /\ BPP <= WORD
    /\ \A arr \in Arrays :
        /\ arr \in Seq(Nat)
        /\ Len(arr) >= 1
        /\ Ascending(arr)
        /\ \A i \in 1 .. Len(arr) : arr[i] < 2^BPP

VARIABLES values,                \* the argument, hash_arr
          taken,                 \* how many of its values are taken
          last, delta,           \* the last value taken, and what it added
          zeros,                 \* zeros still to be written of its quotient
          out_bits, out_filled,  \* the writer's register
          escaped, pending_high, \* its last digit was an escape, that owes these bits
          output,                \* the digits written
          stage                  \* "value", "zeros", "remainder" or "done"

writer == <<out_bits, out_filled, escaped, pending_high, output>>
encode_vars == <<values, taken, last, delta, zeros, writer, stage>>

cnt == Len(values)
EncodeMshift == encode_golomb_Mshift(cnt, BPP)

-----------------------------------------------------------------------------
EncodeInit ==
    /\ values \in Arrays
    /\ taken = 0
    /\ last = 0
    /\ delta = 0
    /\ zeros = 0
    /\ out_bits = 0
    /\ out_filled = 0
    /\ escaped = FALSE
    /\ pending_high = 0
    /\ output = <<>>
    /\ stage = "value"

(* What the next digit takes from the register.                            *)
FlushWidth == IF escaped THEN BASE62_ESCAPE_BITS ELSE BASE62_VALUE_BITS

WithPending(value) == IF escaped THEN pending_high + value ELSE value

NeedsEscape(value) == value >= BASE62_ESCAPE_VALUE

(* encode_writer_flush, one digit: every put ends with as many as the      *)
(* register has bits for, before anything else happens.                    *)
Flushed == out_filled < FlushWidth

FlushDigit ==
    LET value == out_bits % 2^FlushWidth
    IN  /\ ~Flushed
        /\ out_bits' = out_bits \div 2^FlushWidth
        /\ out_filled' = out_filled - FlushWidth
        /\ IF escaped
           THEN /\ output' = Append(output, Digit(WithPending(value)))
                /\ escaped' = FALSE
                /\ UNCHANGED pending_high
           ELSE IF NeedsEscape(value)
           THEN /\ output' = Append(output, Digit(BASE62_ESCAPE_VALUE))
                /\ pending_high' = (value - BASE62_ESCAPE_VALUE) * 2^BASE62_ESCAPE_BITS
                /\ escaped' = TRUE
           ELSE /\ output' = Append(output, Digit(value))
                /\ UNCHANGED <<pending_high, escaped>>
        /\ UNCHANGED <<values, taken, last, delta, zeros, stage>>

(* The next value: its difference to the one before, quotient first.       *)
NextValue ==
    /\ stage = "value"
    /\ Flushed
    /\ taken < cnt
    /\ taken' = taken + 1
    /\ last' = values[taken + 1]
    /\ delta' = last' - last
    /\ zeros' = delta' \div 2^EncodeMshift
    /\ stage' = "zeros"
    /\ UNCHANGED <<values, writer>>

(* encode_writer_zeros: so many zeros that the register cannot overflow.   *)
ZerosTaken == IF zeros > 56 THEN 56 ELSE zeros

PutZeros ==
    /\ stage = "zeros"
    /\ Flushed
    /\ zeros # 0
    /\ out_filled' = out_filled + ZerosTaken
    /\ zeros' = zeros - ZerosTaken
    /\ UNCHANGED <<values, taken, last, delta, out_bits, escaped, pending_high, output, stage>>

(* encode_writer_put of the one that ends the quotient ...                 *)
PutOne ==
    /\ stage = "zeros"
    /\ Flushed
    /\ zeros = 0
    /\ out_bits' = out_bits + 2^out_filled
    /\ out_filled' = out_filled + 1
    /\ stage' = "remainder"
    /\ UNCHANGED <<values, taken, last, delta, zeros, escaped, pending_high, output>>

(* ... and of the remainder.                                               *)
PutRemainder ==
    /\ stage = "remainder"
    /\ Flushed
    /\ out_bits' = out_bits + (delta % 2^EncodeMshift) * 2^out_filled
    /\ out_filled' = out_filled + EncodeMshift
    /\ stage' = "value"
    /\ UNCHANGED <<values, taken, last, delta, zeros, escaped, pending_high, output>>

(* What is left is padded to a last digit.                                 *)
FilledOnly == out_filled > 0      \* mutant: an owed digit is not written
DigitOwed == out_filled > 0 \/ escaped

Finish ==
    /\ stage = "value"
    /\ Flushed
    /\ taken = cnt
    /\ output' = IF DigitOwed THEN Append(output, Digit(WithPending(out_bits))) ELSE output
    /\ stage' = "done"
    /\ UNCHANGED <<values, taken, last, delta, zeros, out_bits, out_filled, escaped, pending_high>>

EncodeStep == FlushDigit \/ NextValue \/ PutZeros \/ PutOne \/ PutRemainder \/ Finish

(* The function has returned.                                              *)
EncodeReturned == stage = "done" /\ UNCHANGED encode_vars

EncodeNext == EncodeStep \/ EncodeReturned

EncodeSpec == EncodeInit /\ [][EncodeNext]_encode_vars

-----------------------------------------------------------------------------
(* The comment at set9.c:283: 56 more bits never overflow the 64-bit       *)
(* register, nor does a remainder; and above the bits it counts it is      *)
(* clean, or the next value would be ORed into stale bits.  What it holds  *)
(* that is not zero is less than a digit, a one or a remainder.            *)
WriterFits ==
    LET clean == BASE62_MAX_PADDING_BITS + EncodeMshift
    IN  /\ out_filled < 64
        /\ out_bits < 2^(IF out_filled < clean THEN out_filled ELSE clean)

(* The state is one the declarations allow.                                *)
EncodeTypeOK ==
    /\ values \in Arrays
    /\ taken \in 0 .. cnt
    /\ last \in Nat
    /\ delta \in Nat
    /\ zeros \in Nat
    /\ out_bits \in Nat
    /\ out_filled \in Nat
    /\ escaped \in BOOLEAN
    /\ pending_high \in {0, 16, 32}
    /\ output \in Seq(Nat)
    /\ stage \in {"value", "zeros", "remainder", "done"}

(* The buffer of set_fini (set9.c:369) is estimated from an expected       *)
(* number of bits: header, digits and terminator always fit.  Nor does the *)
(* register of the writer overflow on the way.                             *)
FitsBuffer ==
    /\ WriterFits
    /\ SET_HEADER_SIZE + Len(output) + 1 <= encode_set_size(cnt, BPP)

(* What is written is what the staged encoder of newset.c writes, and it   *)
(* decodes to the values that went in.                                     *)
RoundTrip ==
    stage = "done" =>
        /\ output = encode_payload(values, BPP)
        /\ decode_payload(output, EncodeMshift) = Good(values)
=============================================================================
