------------------------------ MODULE NewsetCodec ------------------------------
(***************************************************************************)
(* The codec of newset.c, stage by stage: hash values to deltas to bits to *)
(* characters, and back.  It is the reference the one-pass codec of set9.c *)
(* has to agree with, on what it accepts and on every value.               *)
(***************************************************************************)
EXTENDS SetFormat, FiniteSetsExt

(* The width lowest bits of n, the least significant first.                *)
LowBits(n, width) == [i \in 1 .. width |-> (n \div 2^(i - 1)) % 2]

Number(bits) == FoldLeftDomain(LAMBDA sum, i : sum + bits[i] * 2^(i - 1), 0, bits)

-----------------------------------------------------------------------------
encode_delta(values) ==
    [i \in DOMAIN values |-> IF i = 1 THEN values[1] ELSE values[i] - values[i - 1]]

(* A quotient of zeros ended by a one, then the remainder.                 *)
GolombCode(elem, Mshift) ==
    [j \in 1 .. elem \div 2^Mshift |-> 0] \o <<1>> \o LowBits(elem, Mshift)

encode_golomb(deltas, Mshift) ==
    FoldLeft(LAMBDA bits, elem : bits \o GolombCode(elem, Mshift), <<>>, deltas)

(* One bit enters the pending number; six bits make a character, and 61,   *)
(* 62 and 63 an escape whose two high bits go to the next one.             *)
PutBit(w, bit) ==
    LET num6b == w.num6b + bit * 2^w.bits6
        out(value) == Append(w.out, Digit(value))
    IN  IF w.bits6 + 1 + w.bits2 < 6
        THEN [w EXCEPT !.num6b = num6b, !.bits6 = @ + 1]
        ELSE IF num6b >= 61
        THEN [out |-> out(61), num6b |-> (num6b - 61) * 16, bits6 |-> 0, bits2 |-> 2]
        ELSE [out |-> out(num6b), num6b |-> 0, bits6 |-> 0, bits2 |-> 0]

encode_base62(bits) ==
    LET w == FoldLeft(PutBit, [out |-> <<>>, num6b |-> 0, bits6 |-> 0, bits2 |-> 0], bits)
    IN  IF w.bits6 + w.bits2 > 0 THEN Append(w.out, Digit(w.num6b)) ELSE w.out

(* encode_set, without the two characters of the header.                   *)
encode_payload(values, bpp) ==
    encode_base62(
        encode_golomb(encode_delta(values), encode_golomb_Mshift(Len(values), bpp)))

-----------------------------------------------------------------------------
(* The result of a stage: a sequence, or an error code and nothing.  The   *)
(* program ends in a failed assertion where rc is ABORTED.                 *)
ABORTED == -100

Good(seq) == [rc |-> 0, seq |-> seq]
Bad(rc) == [rc |-> rc, seq |-> <<>>]

Prepend(seq, rest) == IF rest.rc < 0 THEN rest ELSE Good(seq \o rest.seq)

decode_base62(str) ==
    LET num(i) == char_to_num(CharAt(str, i))
        from[i \in 1 .. Len(str) + 2] ==
            IF num(i) = BASE62_END THEN Good(<<>>)
            ELSE IF num(i) = BASE62_INVALID THEN Bad(-1)
            ELSE IF num(i) < 61 THEN Prepend(LowBits(num(i), 6), from[i + 1])
            ELSE IF num(i + 1) = BASE62_END THEN Bad(-2)
            ELSE IF num(i + 1) = BASE62_INVALID THEN Bad(-3)
            ELSE IF num(i + 1) >= 48 THEN Bad(ABORTED)
            ELSE Prepend(LowBits(61 + num(i + 1) \div 16, 6) \o LowBits(num(i + 1), 4),
                         from[i + 2])
    IN  from[1]

(* Up to five trailing zeros are the padding of the last character.        *)
decode_golomb(bits, Mshift) ==
    LET n == Len(bits)
        from[i \in 1 .. n + 1] ==
            LET ones == {k \in i .. n : bits[k] = 1}
                k == Min(ones)
            IN  IF ones = {} THEN IF n - i + 1 > 5 THEN Bad(-10) ELSE Good(<<>>)
                ELSE IF n - k < Mshift THEN Bad(-11)
                ELSE Prepend(<<Wrapped((k - i) * 2^Mshift)
                               + Number(SubSeq(bits, k + 1, k + Mshift))>>,
                             from[k + Mshift + 1])
    IN  from[1]

decode_delta(deltas) ==
    [i \in DOMAIN deltas |-> Wrapped(FoldLeft(+, 0, SubSeq(deltas, 1, i)))]

(* decode_set, of what follows the header.                                 *)
decode_payload(str, Mshift) ==
    LET base62 == decode_base62(str)
        golomb == decode_golomb(base62.seq, Mshift)
    IN  IF base62.rc < 0 THEN base62
        ELSE IF golomb.rc < 0 THEN golomb
        ELSE Good(decode_delta(golomb.seq))
=============================================================================
