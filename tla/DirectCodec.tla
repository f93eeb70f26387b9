------------------------------ MODULE DirectCodec -------------------------------
(***************************************************************************)
(* The text of a set in hash_set.c's own format, and its decoder.  The     *)
(* values are packed into bytes, the bytes are written in base64.  The     *)
(* decoder has three ways: whole blocks for 32-bit values, an expansion in *)
(* place for 16 and 24 bits, and a reservoir of bits for all other widths. *)
(*                                                                         *)
(* Everything is made of bits: a value is the sequence of its bits and a   *)
(* byte that of its eight, the least significant first; a character is the *)
(* sequence of its six, the most significant first, as base64 reads them.  *)
(***************************************************************************)
EXTENDS Integers, FiniteSetsExt, SequencesExt

CONSTANTS Text      \* what is decoded: [header |-> is "D1" and digits, bpp, input]

(* A character outside of the alphabet.                                    *)
BAD == <<>>

TextAssumption ==
    \A s \in Text : \A k \in DOMAIN s.input : s.input[k] = BAD \/ Len(s.input[k]) = 6

VARIABLES text, pc,
          at,          \* characters read
          memory,      \* the bytes of the allocation, from 0; UNWRITTEN at first
          i,           \* the expansion's counter
          bits,        \* writer.bits, as long as writer.filled says
          hashes,      \* the values stored, of 32 bits each
          result

vars == <<text, pc, at, memory, i, bits, hashes, result>>

UNWRITTEN == <<>>

-----------------------------------------------------------------------------
Zeros(n) == [k \in 1 .. n |-> 0]
PadTo(seq, n) == seq \o Zeros(n - Len(seq))

(* The sequence in pieces of n, the last one filled up with zeros.         *)
Pieces(seq, n) ==
    [k \in 1 .. (Len(seq) + n - 1) \div n |->
        PadTo(SubSeq(seq, (k - 1) * n + 1, Min({k * n, Len(seq)})), n)]

Flipped(seqs) == [k \in DOMAIN seqs |-> Reverse(seqs[k])]

pack_symbol_hashes(values) == Pieces(FlattenSeq(values), 8)

base64_encode(bytes) == Pieces(FlattenSeq(Flipped(bytes)), 6)

(* The bytes characters stand for, and the bits left over after the last.  *)
Octets(chars) == LET stream == FlattenSeq(chars) IN
    [bytes |-> Flipped(Pieces(SubSeq(stream, 1, 8 * (Len(stream) \div 8)), 8)),
     rest |-> SubSeq(stream, 8 * (Len(stream) \div 8) + 1, Len(stream))]

AllZero(seq) == 1 \notin Range(seq)

(* An unsigned comparison is decided by the highest bit that differs.      *)
Less(value1, value2) ==
    \E k \in DOMAIN value1 :
        /\ value1[k] < value2[k]
        /\ \A higher \in k + 1 .. Len(value1) : value1[higher] = value2[higher]

AscendingValues(values) == \A k \in 1 .. Len(values) - 1 : Less(values[k], values[k + 1])

base64_decoded_size(len) == (len \div 4) * 3 + (IF len % 4 = 0 THEN 0 ELSE (len % 4) - 1)

(* What decode_base64_bytes stores; <<>> when it refuses.                  *)
decode_base64_bytes(chars) ==
    IF BAD \in Range(chars) \/ ~AllZero(Octets(chars).rest) THEN <<>> ELSE Octets(chars).bytes

-----------------------------------------------------------------------------
input == text.input
bpp == text.bpp
byte_count == base64_decoded_size(Len(input))
count == (byte_count * 8) \div bpp

Init ==
    /\ text \in Text
    /\ pc = "enter"
    /\ at = 0
    /\ memory = <<>>
    /\ i = 0
    /\ bits = <<>>
    /\ hashes = <<>>
    /\ result = 0

Return(value) == pc' = "done" /\ result' = value

(* The header, the length of the payload, and that it holds whole values.  *)
Wellsized ==
    /\ text.header
    /\ bpp \in 10 .. 32
    /\ Len(input) > 0
    /\ Len(input) % 4 # 1
    /\ count > 0
    /\ (count * bpp + 7) \div 8 = byte_count

Refuse ==
    /\ pc = "enter"
    /\ ~Wellsized
    /\ Return(-1)
    /\ UNCHANGED <<text, at, memory, i, bits, hashes>>

Dispatch ==
    /\ pc = "enter"
    /\ Wellsized
    /\ pc' = CASE bpp = 32 -> "blocks" [] bpp \in {16, 24} -> "bytes" [] OTHER -> "groups"
    /\ UNCHANGED <<text, at, memory, i, bits, hashes, result>>

-----------------------------------------------------------------------------
(* decode_base64_u32: sixteen characters are twelve bytes and three values.*)
Extended(values) ==
    IF AscendingValues((IF hashes = <<>> THEN <<>> ELSE <<Last(hashes)>>) \o values)
    THEN /\ hashes' = hashes \o values
         /\ UNCHANGED <<pc, result>>
    ELSE Return(-1) /\ UNCHANGED hashes

Words(chars) == LET bytes == decode_base64_bytes(chars) IN
    [k \in 1 .. Len(bytes) \div 4 |-> FlattenSeq(SubSeq(bytes, 4 * k - 3, 4 * k))]

Block ==
    LET chars == SubSeq(input, at + 1, at + 16)
    IN  /\ pc = "blocks"
        /\ Len(hashes) < 3 * (count \div 3)
        /\ at' = at + 16
        /\ IF BAD \in Range(chars) THEN Return(-1) /\ UNCHANGED hashes
           ELSE Extended(Words(chars))
        /\ UNCHANGED <<text, memory, i, bits>>

BlocksOver ==
    /\ pc = "blocks"
    /\ Len(hashes) = 3 * (count \div 3)
    /\ pc' = "tail"
    /\ UNCHANGED <<text, at, memory, i, bits, hashes, result>>

(* One or two values more; without them nothing may be left to read.       *)
Tail32 ==
    LET chars == SubSeq(input, at + 1, Len(input))
        remaining == count - Len(hashes)
        values == (IF hashes = <<>> THEN <<>> ELSE <<Last(hashes)>>) \o Words(chars)
    IN  /\ pc = "tail"
        /\ at' = Len(input)
        /\ IF IF remaining = 0 THEN chars = <<>>
              ELSE Len(decode_base64_bytes(chars)) = 4 * remaining /\ AscendingValues(values)
           THEN Return(0) /\ hashes' = IF remaining = 0 THEN hashes ELSE hashes \o Words(chars)
           ELSE Return(-1) /\ UNCHANGED hashes
        /\ UNCHANGED <<text, memory, i, bits>>

-----------------------------------------------------------------------------
(* 16 and 24 bits: the bytes are stored at the front of the array and each *)
(* value is written from them to its own place, the last one first.        *)
Bytes ==
    LET bytes == decode_base64_bytes(input)
    IN  /\ pc = "bytes"
        /\ at' = Len(input)
        /\ IF Len(bytes) # byte_count
           THEN Return(-1) /\ UNCHANGED <<memory, i>>
           ELSE /\ memory' = [k \in 0 .. 4 * count - 1 |->
                      IF k < byte_count THEN bytes[k + 1] ELSE UNWRITTEN]
                /\ i' = count
                /\ pc' = "expand"
                /\ UNCHANGED result
        /\ UNCHANGED <<text, bits, hashes>>

ForwardPosition == count - i     \* mutant: the first value first
Position == i - 1

Expand ==
    LET width == bpp \div 8
        value == PadTo([k \in 1 .. width |-> memory[Position * width + k - 1]], 4)
    IN  /\ pc = "expand"
        /\ i > 0
        /\ memory' = [k \in DOMAIN memory |->
              IF k \in 4 * Position .. 4 * Position + 3
              THEN IF k - 4 * Position < width THEN value[k - 4 * Position + 1] ELSE Zeros(8)
              ELSE memory[k]]
        /\ i' = i - 1
        /\ UNCHANGED <<text, pc, at, bits, hashes, result>>

Expanded ==
    LET stored == [k \in 1 .. count |->
                      FlattenSeq([b \in 1 .. 4 |-> memory[4 * (k - 1) + b - 1]])]
    IN  /\ pc = "expand"
        /\ i = 0
        /\ hashes' = stored
        /\ memory' = <<>>
        /\ Return(IF AscendingValues(stored) THEN 0 ELSE -1)
        /\ UNCHANGED <<text, at, i, bits>>

-----------------------------------------------------------------------------
(* The other widths: four characters, or the two or three left, go into    *)
(* the reservoir, unless their own unused bits are set...                  *)
Group ==
    LET chars == SubSeq(input, at + 1, Min({at + 4, Len(input)}))
        octets == Octets(chars)
    IN  /\ pc = "groups"
        /\ Len(bits) < bpp
        /\ at < Len(input)
        /\ IF BAD \in Range(chars) \/ ~AllZero(octets.rest)
           THEN Return(-1) /\ UNCHANGED <<at, bits>>
           ELSE /\ at' = at + Len(chars)
                /\ bits' = bits \o FlattenSeq(octets.bytes)
                /\ UNCHANGED <<pc, result>>
        /\ UNCHANGED <<text, memory, i, hashes>>

(* ... and each value is taken out as soon as it is complete.              *)
Emit ==
    /\ pc = "groups"
    /\ Len(bits) >= bpp
    /\ IF Len(hashes) = count THEN Return(-1) /\ UNCHANGED hashes
       ELSE Extended(<<PadTo(SubSeq(bits, 1, bpp), 32)>>)
    /\ bits' = SubSeq(bits, bpp + 1, Len(bits))
    /\ UNCHANGED <<text, at, memory, i>>

CleanEnd == Len(hashes) = count /\ AllZero(bits)

GroupsOver ==
    /\ pc = "groups"
    /\ Len(bits) < bpp
    /\ at = Len(input)
    /\ Return(IF CleanEnd THEN 0 ELSE -1)
    /\ UNCHANGED <<text, at, memory, i, bits, hashes>>

Returned == pc = "done" /\ UNCHANGED vars

Next ==
    \/ Refuse \/ Dispatch \/ Block \/ BlocksOver \/ Tail32
    \/ Bytes \/ Expand \/ Expanded \/ Group \/ Emit \/ GroupsOver \/ Returned

Spec == Init /\ [][Next]_vars

-----------------------------------------------------------------------------
(* The only array a text can be the encoding of: as many whole values as   *)
(* its bytes hold.                                                         *)
Candidate == LET stream == FlattenSeq(Octets(input).bytes)
             IN  [k \in 1 .. Len(stream) \div bpp |-> SubSeq(stream, (k - 1) * bpp + 1, k * bpp)]

Canonical ==
    /\ text.header
    /\ bpp \in 10 .. 32
    /\ BAD \notin Range(input)
    /\ Candidate # <<>>
    /\ AscendingValues(Candidate)
    /\ base64_encode(pack_symbol_hashes(Candidate)) = input

(* Whichever way it takes, the decoder accepts exactly the texts that the  *)
(* encoder writes for an ascending array, and returns this array           *)
(* (hash_set.c:500-622 against 206-291).                                   *)
AcceptsCanonical ==
    pc = "done" =>
        /\ (result = 0) = Canonical
        /\ result = 0 => hashes = [k \in DOMAIN Candidate |-> PadTo(Candidate[k], 32)]
=============================================================================
