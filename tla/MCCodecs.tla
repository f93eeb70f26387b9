-------------------------------- MODULE MCCodecs --------------------------------
(***************************************************************************)
(* The functions between arrays and texts that are models of their own:    *)
(* set9.c's decoder and encoder, and the decoder of the direct format.     *)
(* They share no state of the program, so a behaviour runs one of them;    *)
(* the variables of the same name are used by whichever runs.              *)
(***************************************************************************)
EXTENDS StreamDecoder, StreamEncoder

CONSTANTS MaxLength,   \* decoder: the longest payload
          Gap          \* encoder: the last distance of the sparse set

VARIABLES codec,                                        \* which one runs
          text, pc, at, memory, i, reservoir, hashes, result     \* direct format

decoding == vars
encoding == encode_vars
direct == <<text, pc, at, memory, i, reservoir, hashes, result>>
allvars == <<codec, decoding, encoding, direct>>

-----------------------------------------------------------------------------
(* Decoder: payloads of the digits 0, 1, 'Y' (60), 'Z' (the escape), 'M'   *)
(* (48, which no encoder writes after an escape), and '!', no digit.       *)
MCPayload == UNION {[1 .. n -> {48, 49, 89, 90, 77, 33}] : n \in 1 .. MaxLength}

(* Encoder: values whose codes have long and short quotients, remainders   *)
(* of zeros and ones, and so digits of every kind, in every combination;   *)
(* and 31 small values and a far one: a quotient of 63 zeros, which with a *)
(* bit of the code before is as much as the register holds.                *)
Values == <<0, 1, 125, 126, 2900, 8065, 12222, 16383>>

Subsequences(seq) ==
    FoldLeft(LAMBDA arrays, v : arrays \cup {Append(arr, v) : arr \in arrays}, {<<>>}, seq)

Sparse == [k \in 1 .. 32 |-> IF k = 32 THEN Gap ELSE k - 1]

MCArrays == (Subsequences(Values) \ {<<>>}) \cup {Sparse}

(* Direct format: arrays of every way of the decoder, written by the       *)
(* encoder, and the texts one change away from them.  The low bits of n,   *)
(* and a value of 32 bits or less with a given top bit.                    *)
Value(n, w) == [k \in 1 .. w |-> IF k <= 16 THEN (n \div 2^(k - 1)) % 2 ELSE 0]
Top(n, w) == [Value(n, w) EXCEPT ![w] = 1]

DirectArrays(w) ==
    {<<Value(5, w)>>,
     <<Value(0, w), Top(0, w)>>,
     <<Value(3, w), Value(260, w), Top(7, w)>>,
     <<Value(1, w), Value(2, w), Top(5, w), Top(256, w)>>,
     <<Value(0, w), Value(77, w), Value(258, w), Top(1, w), Top(258, w)>>,
     <<Value(1, w), Value(6, w), Value(7, w),
       Top(1, w), Top(2, w), Top(300, w)>>,
     \* not ascending: the encoder is never given these
     <<Value(9, w), Value(9, w)>>,
     <<Top(1, w), Value(300, w), Top(2, w)>>,
     <<Value(1, w), Value(2, w), Top(5, w), Value(256, w)>>}

Bits == INSTANCE DirectCodec WITH Text <- {}, bits <- reservoir

Written(arr) == Bits!base64_encode(Bits!pack_symbol_hashes(arr))

One == <<0, 0, 0, 0, 0, 1>>

Changed(chars) ==
    {chars, Front(chars), chars \o <<Bits!Zeros(6)>>, chars \o <<One, Bits!BAD>>}
        \cup {[chars EXCEPT ![k] = c] :
                  k \in {1, Len(chars) - 1, Len(chars)}, c \in {Bits!BAD, One, Bits!Zeros(6)}}

MCText ==
    UNION {{[header |-> TRUE, bpp |-> w, input |-> chars] : chars \in Changed(Written(arr))} :
              <<w, arr>> \in UNION {{b} \X DirectArrays(b) : b \in {10, 13, 16, 24, 31, 32}}}
    \cup {[header |-> FALSE, bpp |-> 10, input |-> Written(<<Value(5, 10)>>)],
          [header |-> TRUE, bpp |-> 9, input |-> Written(<<Value(5, 9)>>)],
          [header |-> TRUE, bpp |-> 33, input |-> Written(<<Value(5, 33)>>)],
          [header |-> TRUE, bpp |-> 16, input |-> <<>>]}

Direct == INSTANCE DirectCodec WITH Text <- MCText, bits <- reservoir

ASSUME Direct!TextAssumption

-----------------------------------------------------------------------------
(* A codec that does not run is at its start, with one of its inputs.      *)
DecoderIdle == Init /\ str = <<48, 48>> /\ Mshift = SET_MSHIFT_MIN
EncoderIdle == EncodeInit /\ values = Sparse

DirectIdle == /\ text = <<>> /\ pc = "idle" /\ at = 0 /\ memory = <<>>
              /\ i = 0 /\ reservoir = <<>> /\ hashes = <<>> /\ result = 0

MCInit ==
    \/ codec = "decoder" /\ Init /\ EncoderIdle /\ DirectIdle
    \/ codec = "encoder" /\ EncodeInit /\ DecoderIdle /\ DirectIdle
    \/ codec = "direct" /\ Direct!Init /\ DecoderIdle /\ EncoderIdle

DecoderStep == codec = "decoder" /\ Step /\ UNCHANGED <<codec, encoding, direct>>

MCNext ==
    \/ DecoderStep
    \/ codec = "decoder" /\ Returned /\ UNCHANGED <<codec, encoding, direct>>
    \/ codec = "encoder" /\ EncodeNext /\ UNCHANGED <<codec, decoding, direct>>
    \/ codec = "direct" /\ Direct!Next /\ UNCHANGED <<codec, decoding, encoding>>

MCSpec == MCInit /\ [][MCNext]_allvars /\ WF_allvars(DecoderStep)

-----------------------------------------------------------------------------
(* Decoding ends whatever the string is (set9.c:508).                      *)
Terminates == (codec = "decoder") ~> (phase = "done")

(* The direct format's decoder accepts exactly what its encoder writes for *)
(* an ascending array (hash_set.c:500-622 against 206-291).                *)
AcceptsCanonical == pc # "idle" => Direct!AcceptsCanonical
=============================================================================
