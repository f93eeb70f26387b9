----------------------------- MODULE Codecs_proofs -----------------------------
(***************************************************************************)
(* For payloads of any characters and length: set9.c's decoder reads no    *)
(* character beyond the terminator, holds no more bits than its register   *)
(* has, and stores no value past the array its caller allocated.  For sets *)
(* of any size and values of any width: its encoder's register never       *)
(* overflows, and the buffer estimated for it suffices.                    *)
(***************************************************************************)
EXTENDS StreamDecoder, StreamEncoder, CommonFacts, TLAPS

(* Outside of a remainder the register holds less than a chunk.            *)
QuotientInv == phase = "quotient" => filled <= 10 /\ bits < 2^filled

(* Six bits at most come from a character; every value stored has taken    *)
(* its remainder and a one from them, and a remainder begun its one.       *)
BudgetInv ==
    /\ phase # "done" =>
          (Mshift + 1) * count + (IF phase = "remainder" THEN 1 ELSE 0) + filled
              <= 6 * (input - 1)
    /\ (Mshift + 1) * count <= 6 * Len(str)

DecodeInv == TypeOK /\ ReadsInside /\ QuotientInv /\ BudgetInv

(* The last value taken is the one at that position.                       *)
LastInv == last = IF taken = 0 THEN 0 ELSE values[taken]

(* What the encoder has still to write of the value it took, what the      *)
(* values taken allow it to write, and what it has written: five bits at   *)
(* least to a digit, six to an escape.                                     *)
Owed == IF stage = "zeros" THEN zeros + 1 + EncodeMshift
        ELSE IF stage = "remainder" THEN EncodeMshift
        ELSE 0

Allowed == taken * (EncodeMshift + 1) + last \div 2^EncodeMshift

Used == 5 * Len(output) + (IF escaped THEN 1 ELSE 0) + out_filled

SpentInv == Used + Owed <= Allowed + (IF stage = "done" THEN 5 ELSE 0)

EncodeInv == EncodeTypeOK /\ WriterFits /\ LastInv /\ SpentInv

-----------------------------------------------------------------------------
(* A quotient is below what the number is below in multiples.              *)
LEMMA QuotientBelow ==
    ASSUME NEW n \in Nat, NEW d \in Nat \ {0}, NEW e \in Nat \ {0}
    PROVE  n < e * d <=> n \div d < e
<1> DEFINE quo == n \div d
           rem == n % d
<1>1. quo \in Nat /\ rem \in 0 .. d - 1 /\ n = quo * d + rem
  BY Division
<1> HIDE DEF quo, rem
<1>2. ASSUME quo < e PROVE n < e * d
  <2>1. (quo + 1) * d <= e * d
    BY <1>1, <1>2
  <2>2. (quo + 1) * d = quo * d + d /\ quo * d \in Int /\ e * d \in Int
    BY <1>1
  <2> QED
    BY <1>1, <2>1, <2>2
<1>3. ASSUME quo >= e PROVE ~(n < e * d)
  <2>1. e * d <= quo * d /\ quo * d \in Int /\ e * d \in Int
    BY <1>1, <1>3
  <2> QED
    BY <1>1, <2>1
<1> QED
  BY <1>1, <1>2, <1>3 DEF quo

(* What characters stand for; only beyond the string is its end.           *)
LEMMA NumFacts ==
    ASSUME str \in Seq(Nat \ {0}), NEW i \in Nat \ {0}
    PROVE  /\ Num(i) \in (0 .. 61) \cup {238, 255}
           /\ Num(i) = 255 <=> i > Len(str)
<1>1. Len(str) \in Nat /\ CharAt(str, i) \in Nat /\ (CharAt(str, i) = 0 <=> i > Len(str))
  <2>1. CASE i <= Len(str)
    <3>1. str[i] \in Nat \ {0}
      BY <2>1
    <3> QED
      BY <2>1, <3>1 DEF CharAt
  <2>2. CASE ~(i <= Len(str))
    BY <2>2 DEF CharAt
  <2> QED
    BY <2>1, <2>2
<1> DEFINE c == CharAt(str, i)
<1>2. c \in Nat /\ Num(i) = char_to_num(c)
  BY <1>1 DEF Num
<1> HIDE DEF c
<1>3. /\ char_to_num(c) \in (0 .. 61) \cup {238, 255}
      /\ char_to_num(c) = 255 <=> c = 0
  BY <1>2 DEF char_to_num, BASE62_END, BASE62_INVALID
<1> QED
  BY <1>1, <1>2, <1>3 DEF c

(* A chunk fits its width, lies inside of the string, and has no more than *)
(* six bits of each of its characters.                                     *)
LEMMA ChunkFacts ==
    ASSUME str \in Seq(Nat \ {0}), input \in Nat \ {0}, decode_rc(input) > 0
    PROVE  /\ width \in {6, 10}
           /\ chunk \in Nat /\ chunk < 2^width
           /\ AfterRead \in Nat \ {0} /\ AfterRead <= Len(str) + 1
           /\ width <= 6 * (AfterRead - input)
<1> DEFINE a == Num(input)
           b == Num(input + 1)
<1>1. /\ a \in (0 .. 61) \cup {238, 255} /\ (a = 255 <=> input > Len(str))
      /\ b \in (0 .. 61) \cup {238, 255} /\ (b = 255 <=> input + 1 > Len(str))
      /\ Len(str) \in Nat
  BY NumFacts
<1>2. a # 255 /\ a # 238
  BY <1>1 DEF decode_rc, BASE62_END, BASE62_INVALID, EINVAL
<1>3. 2^6 = 64 /\ 2^10 = 1024 /\ 2^4 = 16
  BY SMT
<1>4. CASE Escaped(input)
  <2>1. a = 61
    BY <1>4 DEF Escaped, BASE62_ESCAPE_VALUE
  <2>2. b # 255 /\ b # 238 /\ ~BadEscape(input + 1)
    BY <1>1, <1>2, <1>4 DEF decode_rc, BASE62_END, BASE62_INVALID, EINVAL, EPIPE, EILSEQ
  <2>3. BASE62_ESCAPE_BITS = 4 /\ BASE62_VALUE_BITS = 6 /\ BASE62_ESCAPE_CHUNK_BITS = 10
    BY DEF BASE62_ESCAPE_BITS, BASE62_VALUE_BITS, BASE62_ESCAPE_CHUNK_BITS
  <2>4. (b \div 16) % 4 # 3
    BY <2>2, <2>3, <1>3 DEF BadEscape
  <2>5. width = 10 /\ AfterRead = input + 2
    BY <1>4, <2>3 DEF width, AfterRead
  <2>6. chunk = 61 + b \div 16 + (b % 16) * 64
    BY <1>4, <2>3, <1>3 DEF chunk, BASE62_ESCAPE_VALUE
  <2> HIDE DEF a, b
  <2>7. b \in 0 .. 61 /\ input + 1 <= Len(str)
    BY <1>1, <2>2
  <2>8. b \div 16 \in 0 .. 2 /\ b % 16 \in 0 .. 15
    BY <2>7, <2>4
  <2> DEFINE high == b \div 16
             rest == b % 16
  <2>10. high \in 0 .. 2 /\ rest \in 0 .. 15 /\ chunk = 61 + high + rest * 64
    BY <2>6, <2>8
  <2> HIDE DEF high, rest
  <2>9. chunk \in Nat /\ chunk < 1024
    BY <2>10
  <2> QED
    BY <1>3, <2>5, <2>7, <2>9
<1>5. CASE ~Escaped(input)
  <2>1. a # 61
    BY <1>5 DEF Escaped, BASE62_ESCAPE_VALUE
  <2>2. width = 6 /\ AfterRead = input + 1 /\ chunk = a
    BY <1>5 DEF width, AfterRead, chunk, BASE62_VALUE_BITS
  <2> HIDE DEF a, b
  <2>3. a \in 0 .. 60 /\ input <= Len(str)
    BY <1>1, <1>2, <2>1
  <2> QED
    BY <1>3, <2>2, <2>3
<1> QED
  BY <1>4, <1>5

(* Where a read has failed, too, it is not past the terminator.            *)
LEMMA ReadFacts ==
    ASSUME str \in Seq(Nat \ {0}), input \in Nat \ {0}, input <= Len(str) + 1
    PROVE  AfterRead \in Nat \ {0} /\ AfterRead <= Len(str) + 2 /\ decode_rc(input) \in Int
<1>1. Num(input) = 255 <=> input > Len(str)
  BY NumFacts
<1>2. Escaped(input) => input <= Len(str)
  BY <1>1 DEF Escaped, BASE62_ESCAPE_VALUE
<1>3. decode_rc(input) \in Int
  BY DEF decode_rc, EINVAL, EPIPE, EILSEQ
<1> QED
  BY <1>2, <1>3 DEF AfterRead

(* A number of a chunk's bits that is not 0 has a count of trailing zeros.  *)
LEMMA CtzFacts ==
    ASSUME NEW n \in Nat \ {0}, n < 2^10
    PROVE  Ctz(n) \in Nat
<1> DEFINE Ones == {z \in 0 .. 9 : n % 2^(z + 1) # 0}
<1>1. 2^10 = 1024 /\ 2^0 = 1 /\ 9 + 1 = 10
  BY SMT
<1>2. 9 \in Ones
  <2>1. n % 1024 = n
    BY <1>1
  <2>2. n % 2^(9 + 1) # 0
    BY <1>1, <2>1
  <2> QED
    BY <2>2
<1>3. PICK z \in Ones : \A y \in Ones : z <= y
  <2>1. Ones \subseteq Nat
    OBVIOUS
  <2>2. Ones # {}
    BY <1>2
  <2> HIDE DEF Ones
  <2> QED
    BY <2>1, <2>2, LeastNat
<1>4. z \in 0 .. 9 /\ n % 2^(z + 1) # 0
  BY <1>3
<1>5. n % 2^z = 0
  <2>1. CASE z = 0
    <3>1. n % 1 = 0
      OBVIOUS
    <3> QED
      BY <2>1, <3>1, <1>1
  <2>2. CASE z # 0
    <3>1. z - 1 \in 0 .. 9 /\ (z - 1) + 1 = z /\ ~(z <= z - 1)
      BY <2>2, <1>4
    <3>2. z - 1 \notin Ones
      BY <3>1, <1>3
    <3>3. n % 2^((z - 1) + 1) = 0
      BY <3>1, <3>2
    <3> QED
      BY <3>1, <3>3, Zenon
  <2> QED
    BY <2>1, <2>2
<1>6. z <= n
  <2>1. 2^z \in Nat \ {0} /\ z < 2^z
    <3>1. z \in 0 .. 39
      BY <1>4
    <3> QED
      BY <3>1, PowerAbove, Zenon
  <2> DEFINE P == 2^z
  <2> HIDE DEF P
  <2>2. P \in Nat \ {0} /\ z < P /\ n % P = 0
    BY <1>5, <2>1 DEF P
  <2>3. n < P => n % P = n
    BY <2>2
  <2> QED
    BY <2>2, <2>3, <1>4
<1>7. z \in 0 .. n /\ n % 2^z = 0 /\ n % 2^(z + 1) # 0
  BY <1>4, <1>5, <1>6
<1>8. Ctz(n) \in 0 .. n
  BY <1>7, Zenon DEF Ctz
<1> QED
  BY <1>8

(* RegisterFits of any number of bits.                                     *)
Fits(b, f, m) ==
    LET low == IF f < m THEN f ELSE m
    IN  f <= m + 9 /\ b \div 2^low < 2^(f - low)

(* What is below the power of what is filled fits.                         *)
LEMMA FitsBelow ==
    ASSUME NEW m \in 7 .. 31, NEW f \in 0 .. m + 9, NEW b \in Nat,
           f <= 39, b < 2^f
    PROVE  Fits(b, f, m)
<1> DEFINE low == IF f < m THEN f ELSE m
<1>1. low \in 0 .. 39 /\ f - low \in 0 .. 39 /\ low + (f - low) = f /\ low + (f - low) <= 39
  OBVIOUS
<1> HIDE DEF low
<1>2. 2^low \in Nat \ {0} /\ 2^(f - low) \in Nat \ {0}
  BY <1>1, PowerAbove, Zenon
<1>3. 2^(low + (f - low)) = 2^(f - low) * 2^low
  BY <1>1, PowerSum, Zenon
<1>4. b < 2^(f - low) * 2^low
  <2>1. 2^f = 2^(f - low) * 2^low
    BY <1>1, <1>3, Zenon
  <2> QED
    BY <2>1
<1>5. b \div 2^low < 2^(f - low)
  BY <1>2, <1>4, QuotientBelow, Zenon
<1> QED
  BY <1>5 DEF Fits, low

(* A chunk put above the bits of a register that lacks some.               *)
LEMMA FitsAbove ==
    ASSUME NEW m \in 7 .. 31, NEW f \in 0 .. m - 1, NEW w \in {6, 10},
           NEW b \in Nat, b < 2^f, NEW c \in Nat, c < 2^w
    PROVE  b + c * 2^f \in Nat /\ Fits(b + c * 2^f, f + w, m)
<1> DEFINE F == 2^f
           W == 2^w
           n == b + c * 2^f
<1>1. F \in Nat \ {0} /\ W \in Nat \ {0} /\ b < F /\ c < W /\ n = b + c * F
  <2>1. f \in 0 .. 39 /\ w \in 0 .. 39
    OBVIOUS
  <2> QED
    BY <2>1, PowerAbove, Zenon
<1> HIDE DEF F, W
<1>2. n \in Nat /\ n < W * F
  <2>1. (c + 1) * F <= W * F /\ (c + 1) * F = c * F + F /\ c * F \in Nat /\ W * F \in Nat
    BY <1>1
  <2> QED
    BY <1>1, <2>1
<1> HIDE DEF n
<1>3. CASE f + w < m
  <2>1. f + w \in 0 .. m + 9 /\ f + w <= 39 /\ f \in 0 .. 39 /\ w \in 0 .. 39
    BY <1>3
  <2>2. 2^(f + w) = W * F
    BY <2>1, PowerSum, Zenon DEF W, F
  <2>3. n < 2^(f + w)
    BY <1>2, <2>2
  <2>4. Fits(n, f + w, m)
    BY <1>2, <2>1, <2>3, FitsBelow, Zenon
  <2> QED
    BY <1>2, <2>4 DEF n
<1>4. CASE ~(f + w < m)
  <2> DEFINE up == f + w - m
             gap == m - f
             U == 2^up
             G == 2^gap
             M == 2^m
  <2>1. /\ up \in 0 .. 39 /\ gap \in 0 .. 39 /\ m \in 0 .. 39 /\ f \in 0 .. 39
        /\ f + gap = m /\ f + gap <= 39
        /\ gap + up = w /\ gap + up <= 39
        /\ up = f + w - m /\ f + w <= m + 9
    BY <1>4
  <2> HIDE DEF up, gap
  <2>2. U \in Nat \ {0} /\ G \in Nat \ {0} /\ M \in Nat \ {0}
    BY <2>1, PowerAbove, Zenon
  <2>3. 2^(f + gap) = 2^gap * 2^f /\ 2^(gap + up) = 2^up * 2^gap
    BY <2>1, PowerSum, Zenon
  <2>4. M = G * F /\ W = U * G
    BY <2>1, <2>3, Zenon DEF M, G, F, W, U
  <2> HIDE DEF U, G, M
  <2>5. n < U * M
    <3>1. W * F = U * M
      BY <1>1, <2>2, <2>4
    <3> QED
      BY <1>2, <3>1, Zenon
  <2>6. n \div M < U
    BY <1>2, <2>2, <2>5, QuotientBelow, Zenon
  <2>7. Fits(n, f + w, m)
    BY <1>4, <2>1, <2>6 DEF Fits, M, U
  <2> QED
    BY <1>2, <2>7 DEF n
<1> QED
  BY <1>3, <1>4

-----------------------------------------------------------------------------
(* What the proofs of the steps use of the invariant.                      *)
LEMMA DecodeFacts ==
    ASSUME DecodeInv
    PROVE  /\ str \in Seq(Nat \ {0}) /\ Len(str) \in Nat
           /\ Mshift \in 7 .. 31 /\ Mshift \in 0 .. 39 /\ 2^Mshift \in Nat \ {0}
           /\ \A n \in Nat : Wrapped(n) \in Nat
           /\ input \in Nat \ {0} /\ bits \in Nat /\ filled \in Nat /\ q \in Nat
           /\ previous \in Nat /\ hash_arr \in Seq(Nat) /\ count \in Nat /\ rc \in Int
           /\ filled \in 0 .. Mshift + 9 /\ Fits(bits, filled, Mshift)
<1>1. str \in Payload /\ Mshift \in MSHIFT /\ RegisterFits
  BY DEF DecodeInv, TypeOK
<1>2. str \in Seq(Nat \ {0}) /\ Mshift \in 7 .. 31
  BY <1>1, DecoderAssumption DEF SET_MSHIFT_MIN, SET_MSHIFT_MAX
<1>3. 2^Mshift \in Nat \ {0} /\ 2^WORD \in Nat \ {0}
  <2>1. Mshift \in 0 .. 39 /\ WORD \in 0 .. 39
    BY <1>2, WordAssumption
  <2> QED
    BY <2>1, PowerAbove, Zenon
<1>4. \A n \in Nat : Wrapped(n) \in Nat
  BY <1>3 DEF Wrapped
<1>5. Fits(bits, filled, Mshift)
  BY <1>1 DEF RegisterFits, Fits, BASE62_ESCAPE_CHUNK_BITS, BASE62_ESCAPE_BITS, BASE62_VALUE_BITS
<1>6. /\ input \in Nat \ {0} /\ bits \in Nat /\ filled \in Nat /\ q \in Nat
      /\ previous \in Nat /\ hash_arr \in Seq(Nat) /\ rc \in Int
  BY DEF DecodeInv, TypeOK
<1>7. count \in Nat /\ Len(str) \in Nat
  BY <1>2, <1>6 DEF count
<1>8. filled <= Mshift + 9
  BY <1>5 DEF Fits
<1> QED
  BY <1>2, <1>3, <1>4, <1>5, <1>6, <1>7, <1>8

(* The values that have taken their bits fit the array.                    *)
LEMMA CapacityBound ==
    ASSUME NEW len \in Nat, NEW m \in 7 .. 31, NEW c \in Nat, (m + 1) * c <= 6 * len
    PROVE  c <= value_capacity(len, m)
<1> DEFINE d == m + 1
           n == 6 * len
           cap == n \div d
<1>1. d \in Nat \ {0} /\ n \in Nat /\ d * c <= n
  OBVIOUS
<1>2. value_capacity(len, m) = cap
  <2>1. len * 6 = 6 * len
    OBVIOUS
  <2> QED
    BY <2>1 DEF value_capacity, BASE62_VALUE_BITS
<1> HIDE DEF d, n
<1>3. cap \in Nat
  BY <1>1, Division, Zenon
<1> HIDE DEF cap
<1>4. ASSUME c > cap PROVE FALSE
  <2>1. cap + 1 \in Nat \ {0} /\ cap < cap + 1
    BY <1>3
  <2>2. n < (cap + 1) * d
    BY <1>1, <2>1, QuotientBelow, Zenon DEF cap
  <2> DEFINE X == (cap + 1) * d
             Y == c * d
  <2>3. X <= Y /\ Y = d * c /\ X \in Int /\ Y \in Int
    BY <1>1, <1>3, <1>4
  <2>4. Y <= n /\ n < X
    BY <1>1, <2>2, <2>3
  <2> HIDE DEF X, Y
  <2> QED
    BY <1>1, <2>3, <2>4
<1>5. c <= cap
  BY <1>3, <1>4
<1> QED
  BY <1>2, <1>5

(* The function starts with the invariant.                                 *)
LEMMA DecodeStart == Init => DecodeInv
<1> SUFFICES ASSUME Init PROVE DecodeInv
  OBVIOUS
<1>1. /\ str \in Payload /\ Mshift \in MSHIFT /\ input = 1 /\ bits = 0 /\ filled = 0
      /\ q = 0 /\ previous = 0 /\ hash_arr = <<>> /\ phase = "quotient" /\ rc = 0
  BY DEF Init
<1>2. str \in Seq(Nat \ {0}) /\ Mshift \in 7 .. 31 /\ Len(str) \in Nat
  BY <1>1, DecoderAssumption DEF SET_MSHIFT_MIN, SET_MSHIFT_MAX
<1>3. count = 0 /\ hash_arr \in Seq(Nat)
  BY <1>1 DEF count
<1>4. BudgetInv /\ ReadsInside
  BY <1>1, <1>2, <1>3 DEF BudgetInv, ReadsInside
<1>5. 2^0 = 1
  BY SMT
<1>6. filled <= 10 /\ bits < 2^filled
  BY <1>1, <1>5
<1>7. Fits(bits, filled, Mshift)
  <2>1. filled \in 0 .. Mshift + 9 /\ filled <= 39 /\ bits \in Nat
    BY <1>1, <1>2
  <2> QED
    BY <1>2, <1>6, <2>1, FitsBelow, Zenon
<1>8. 0 <= value_capacity(Len(str), Mshift)
  <2>1. (Mshift + 1) * 0 <= 6 * Len(str) /\ 0 \in Nat
    BY <1>2
  <2> QED
    BY <1>2, <2>1, CapacityBound, Zenon
<1>9. TypeOK
  BY <1>1, <1>2, <1>3, <1>7, <1>8
     DEF TypeOK, RegisterFits, Fits, BASE62_ESCAPE_CHUNK_BITS, BASE62_ESCAPE_BITS,
         BASE62_VALUE_BITS
<1> QED
  BY <1>4, <1>6, <1>9 DEF DecodeInv, QuotientInv

(* What a step has to show of the state it leads to.                       *)
LEMMA DecodeKept ==
    ASSUME DecodeInv, UNCHANGED args,
           input' \in Nat \ {0}, bits' \in Nat, filled' \in Nat,
           Fits(bits', filled', Mshift), q' \in Nat, previous' \in Nat,
           hash_arr' \in Seq(Nat), phase' \in {"quotient", "remainder", "done"}, rc' \in Int,
           ReadsInside', QuotientInv', BudgetInv'
    PROVE  DecodeInv'
<1>1. str' = str /\ Mshift' = Mshift /\ str \in Payload /\ Mshift \in MSHIFT
  BY DEF args, DecodeInv, TypeOK
<1>2. Len(str) \in Nat /\ Mshift \in 7 .. 31
  BY DecodeFacts
<1>3. count' \in Nat
  BY DEF count
<1>4. (Mshift + 1) * count' <= 6 * Len(str)
  BY <1>1 DEF BudgetInv
<1>5. count' <= value_capacity(Len(str), Mshift)
  BY <1>2, <1>3, <1>4, CapacityBound, Zenon
<1>6. RegisterFits'
  <2>1. Mshift + BASE62_ESCAPE_CHUNK_BITS - 1 = Mshift + 9
    BY <1>2 DEF BASE62_ESCAPE_CHUNK_BITS, BASE62_ESCAPE_BITS, BASE62_VALUE_BITS
  <2>2. Fits(bits', filled', Mshift')
    BY <1>1
  <2> QED
    BY <1>1, <2>1, <2>2, Zenon DEF RegisterFits, Fits
<1>7. TypeOK'
  BY <1>1, <1>5, <1>6 DEF TypeOK
<1> QED
  BY <1>7 DEF DecodeInv

(* A chunk enters the empty register.                                      *)
LEMMA RefillQuotientKeeps == DecodeInv /\ RefillQuotient => DecodeInv'
<1> SUFFICES ASSUME DecodeInv, RefillQuotient PROVE DecodeInv'
  OBVIOUS
<1>1. /\ phase = "quotient" /\ filled = 0 /\ decode_rc(input) > 0
      /\ bits' = chunk /\ filled' = width /\ input' = AfterRead
      /\ UNCHANGED <<args, q, previous, hash_arr, phase, rc>>
  BY DEF RefillQuotient
<1>2. /\ str \in Seq(Nat \ {0}) /\ Len(str) \in Nat
      /\ Mshift \in 7 .. 31 /\ input \in Nat \ {0} /\ q \in Nat
      /\ previous \in Nat /\ hash_arr \in Seq(Nat) /\ count \in Nat /\ rc \in Int
  BY DecodeFacts
<1>3. /\ filled' \in {6, 10} /\ bits' \in Nat /\ bits' < 2^filled'
      /\ input' \in Nat \ {0} /\ input' <= Len(str) + 1
      /\ filled' <= 6 * (input' - input)
  <2>1. /\ width \in {6, 10} /\ chunk \in Nat /\ chunk < 2^width
        /\ AfterRead \in Nat \ {0} /\ AfterRead <= Len(str) + 1
        /\ width <= 6 * (AfterRead - input)
    BY <1>1, <1>2, ChunkFacts
  <2> QED
    BY <1>1, <2>1, Zenon
<1>4. Fits(bits', filled', Mshift)
  <2>1. filled' \in 0 .. Mshift + 9 /\ filled' <= 39
    BY <1>2, <1>3
  <2> QED
    BY <1>2, <1>3, <2>1, FitsBelow, Zenon
<1>5. ReadsInside'
  BY <1>1, <1>2, <1>3 DEF ReadsInside, args
<1>6. QuotientInv'
  <2>1. filled' <= 10
    BY <1>3
  <2> QED
    BY <1>3, <2>1, Zenon DEF QuotientInv
<1>7. BudgetInv'
  <2> DEFINE K == (Mshift + 1) * count
  <2>1. K \in Int /\ K + 0 <= 6 * (input - 1) /\ K <= 6 * Len(str)
    BY <1>1, <1>2 DEF DecodeInv, BudgetInv
  <2>2. phase' = "quotient" /\ Mshift' = Mshift /\ str' = str /\ count' = count
    BY <1>1 DEF args, count
  <2> HIDE DEF K
  <2>3. K + 0 + filled' <= 6 * (input' - 1)
    <3>1. PICK f, j \in Nat : f = filled' /\ j = input'
      BY <1>3
    <3>2. f <= 6 * (j - input)
      BY <1>3, <3>1, Zenon
    <3>3. K \in Int /\ input \in Int /\ K + 0 <= 6 * (input - 1)
      BY <1>2, <2>1
    <3>4. K + 0 + f <= 6 * (j - 1)
      BY <3>2, <3>3
    <3> QED
      BY <3>1, <3>4, Zenon
  <2>4. /\ (Mshift + 1) * count + 0 + filled' <= 6 * (input' - 1)
        /\ (Mshift + 1) * count <= 6 * Len(str)
    BY <2>1, <2>3 DEF K
  <2> QED
    BY <2>2, <2>4 DEF BudgetInv
<1>8. phase' \in {"quotient", "remainder", "done"} /\ filled' \in Nat
  BY <1>1, <1>3
<1> QED
  BY <1>1, <1>2, <1>3, <1>4, <1>5, <1>6, <1>7, <1>8, DecodeKept, Zenon

(* The function returns: with the number of values, or an error.           *)
LEMMA ReturnKeeps == DecodeInv /\ (EndOfString \/ ReadFails) => DecodeInv'
<1> SUFFICES ASSUME DecodeInv, EndOfString \/ ReadFails PROVE DecodeInv'
  OBVIOUS
<1>1. /\ str \in Seq(Nat \ {0}) /\ Len(str) \in Nat
      /\ Mshift \in 7 .. 31 /\ input \in Nat \ {0} /\ q \in Nat /\ bits \in Nat
      /\ filled \in Nat /\ Fits(bits, filled, Mshift)
      /\ previous \in Nat /\ hash_arr \in Seq(Nat) /\ count \in Nat /\ rc \in Int
  BY DecodeFacts
<1>2. phase # "done" /\ input <= Len(str) + 1
  BY DEF EndOfString, ReadFails, DecodeInv, ReadsInside
<1>3. AfterRead \in Nat \ {0} /\ AfterRead <= Len(str) + 2 /\ decode_rc(input) \in Int
  BY <1>1, <1>2, ReadFacts
<1>4. /\ phase' = "done" /\ UNCHANGED <<args, bits, filled, q, previous, hash_arr>>
      /\ input' = input + 1 \/ input' = AfterRead
  BY DEF EndOfString, ReadFails, Return
<1>5. rc' \in Int
  <2>1. CASE EndOfString
    BY <1>1, <2>1 DEF EndOfString, Return, EINVAL
  <2>2. CASE ReadFails
    BY <1>3, <2>2 DEF ReadFails, Return, EINVAL
  <2> QED
    BY <2>1, <2>2
<1>6. input' \in Nat \ {0} /\ input' <= Len(str) + 2
  BY <1>1, <1>2, <1>3, <1>4
<1>7. ReadsInside'
  BY <1>4, <1>6 DEF ReadsInside, args
<1>8. QuotientInv' /\ BudgetInv'
  BY <1>4 DEF QuotientInv, BudgetInv, count, args, DecodeInv
<1>9. /\ bits' \in Nat /\ filled' \in Nat /\ Fits(bits', filled', Mshift) /\ q' \in Nat
      /\ previous' \in Nat /\ hash_arr' \in Seq(Nat) /\ UNCHANGED args
      /\ phase' \in {"quotient", "remainder", "done"}
  BY <1>1, <1>4
<1> QED
  BY <1>5, <1>6, <1>7, <1>8, <1>9, DecodeKept, Zenon

(* Zeros are counted, and the one that ends a quotient is consumed.        *)
LEMMA QuotientKeeps == DecodeInv /\ (TakeZeros \/ EndQuotient) => DecodeInv'
<1> SUFFICES ASSUME DecodeInv, TakeZeros \/ EndQuotient PROVE DecodeInv'
  OBVIOUS
<1>1. /\ str \in Seq(Nat \ {0}) /\ Len(str) \in Nat
      /\ Mshift \in 7 .. 31 /\ input \in Nat \ {0} /\ q \in Nat /\ bits \in Nat
      /\ filled \in Nat /\ previous \in Nat /\ hash_arr \in Seq(Nat) /\ count \in Nat
      /\ rc \in Int /\ \A n \in Nat : Wrapped(n) \in Nat
  BY DecodeFacts
<1>2. phase = "quotient" /\ filled # 0 /\ filled <= 10 /\ bits < 2^filled
  BY DEF TakeZeros, EndQuotient, DecodeInv, QuotientInv
<1>3. UNCHANGED <<args, input, previous, hash_arr, rc>>
  BY DEF TakeZeros, EndQuotient
<1>4. /\ bits' \in Nat /\ filled' \in 0 .. 10 /\ bits' < 2^filled' /\ q' \in Nat
      /\ phase' \in {"quotient", "remainder"}
      /\ (IF phase' = "remainder" THEN 1 ELSE 0) + filled' <= filled
  <2>1. CASE TakeZeros
    <3>1. 2^0 = 1
      BY SMT
    <3>2. bits' = 0 /\ filled' = 0 /\ q' = Wrapped(q + filled) /\ phase' = "quotient"
      BY <1>2, <2>1 DEF TakeZeros
    <3>3. q + filled \in Nat
      BY <1>1
    <3>4. bits' < 2^filled'
      BY <3>1, <3>2
    <3> QED
      BY <1>1, <3>2, <3>3, <3>4
  <2>2. CASE EndQuotient
    <3> DEFINE z == Ctz(bits)
               e == z + 1
    <3>1. /\ bits # 0 /\ z < filled /\ q' = Wrapped(q + z)
          /\ bits' = bits \div 2^e /\ filled' = filled - e /\ phase' = "remainder"
      BY <2>2 DEF EndQuotient, OneHeld
    <3>2. z \in Nat
      <4>1. filled \in 0 .. 39 /\ 10 \in 0 .. 39 /\ filled <= 10
        BY <1>1, <1>2
      <4>2. 2^filled <= 2^10 /\ 2^filled \in Nat \ {0}
        BY <4>1, PowerOrder, Zenon
      <4>3. 2^10 = 1024
        BY SMT
      <4>4. bits \in Nat \ {0} /\ bits < 1024
        BY <1>1, <1>2, <3>1, <4>2, <4>3
      <4>5. bits < 2^10
        BY <4>3, <4>4
      <4> QED
        BY <4>4, <4>5, CtzFacts
    <3> HIDE DEF z
    <3>a. e = z + 1 /\ e \in Nat
      BY <3>2
    <3> HIDE DEF e
    <3>3. e \in 0 .. 39 /\ filled - e \in 0 .. 9 /\ e + (filled - e) = filled
          /\ filled - e \in 0 .. 39 /\ e + (filled - e) <= 39 /\ q + z \in Nat
      <4>1. /\ filled \in Nat /\ filled <= 10 /\ q \in Nat /\ z \in Nat
            /\ z < filled /\ e = z + 1
        BY <1>1, <1>2, <3>1, <3>2, <3>a
      <4> QED
        BY <4>1
    <3>4. 2^e \in Nat \ {0} /\ 2^(filled - e) \in Nat \ {0}
      BY <3>3, PowerAbove, Zenon
    <3>5. 2^(e + (filled - e)) = 2^(filled - e) * 2^e
      BY <3>3, PowerSum, Zenon
    <3>6. bits < 2^(filled - e) * 2^e
      BY <1>2, <3>3, <3>5
    <3>7. bits \div 2^e < 2^(filled - e) /\ bits \div 2^e \in Nat
      <4>1. bits \div 2^e < 2^(filled - e)
        BY <1>1, <3>4, <3>6, QuotientBelow, Zenon
      <4>2. bits \div 2^e \in Nat
        BY <1>1, <3>4, Division, Zenon
      <4> QED
        BY <4>1, <4>2
    <3>8. bits' \in Nat /\ bits' < 2^filled'
      BY <3>1, <3>7, Zenon
    <3>9. filled' \in 0 .. 10 /\ 1 + filled' <= filled
      <4>1. filled' = filled - e /\ e >= 1
        BY <3>1, <3>2, <3>a
      <4> QED
        BY <1>1, <3>3, <4>1
    <3>10. q' \in Nat
      BY <1>1, <3>1, <3>3
    <3> QED
      BY <3>1, <3>8, <3>9, <3>10
  <2> QED
    BY <2>1, <2>2
<1>5. Fits(bits', filled', Mshift)
  <2>1. filled' \in 0 .. Mshift + 9 /\ filled' <= 39
    <3>1. Mshift \in 7 .. 31
      BY <1>1
    <3>2. \A f \in 0 .. 10 : f \in 0 .. Mshift + 9 /\ f <= 39
      BY <3>1
    <3> QED
      BY <1>4, <3>2, Zenon
  <2> QED
    BY <1>1, <1>4, <2>1, FitsBelow, Zenon
<1>6. ReadsInside'
  BY <1>2, <1>3 DEF ReadsInside, args, DecodeInv
<1>7. QuotientInv'
  <2>1. filled' <= 10
    BY <1>4
  <2> QED
    BY <1>4, <2>1, Zenon DEF QuotientInv
<1>8. BudgetInv'
  <2> DEFINE K == (Mshift + 1) * count
             o == IF phase' = "remainder" THEN 1 ELSE 0
  <2>1. K \in Int /\ K + 0 + filled <= 6 * (input - 1) /\ K <= 6 * Len(str)
    BY <1>1, <1>2 DEF DecodeInv, BudgetInv
  <2>2. o \in Int /\ o + filled' <= filled
    BY <1>4
  <2>3. Mshift' = Mshift /\ str' = str /\ count' = count /\ input' = input
    BY <1>3 DEF args, count
  <2> HIDE DEF K, o
  <2>4. K + o + filled' <= 6 * (input - 1)
    <3>1. filled' \in 0 .. 10
      BY <1>4
    <3>2. PICK f \in Nat : f = filled'
      BY <3>1
    <3>3. o + f <= filled
      BY <2>2, <3>2
    <3>4. K + o + f <= 6 * (input - 1)
      BY <1>1, <2>1, <2>2, <3>3
    <3> QED
      BY <3>2, <3>4, Zenon
  <2>5. (Mshift + 1) * count + o + filled' <= 6 * (input - 1) /\ (Mshift + 1) * count <= 6 * Len(str)
    BY <2>1, <2>4 DEF K
  <2> QED
    BY <2>3, <2>5 DEF BudgetInv, o
<1>9. /\ filled' \in Nat /\ phase' \in {"quotient", "remainder", "done"}
      /\ input' \in Nat \ {0} /\ previous' \in Nat /\ hash_arr' \in Seq(Nat)
      /\ rc' \in Int /\ UNCHANGED args
  <2>1. phase' \in {"quotient", "remainder", "done"}
    BY <1>4, Zenon
  <2>2. \A f \in 0 .. 10 : f \in Nat
    OBVIOUS
  <2>3. filled' \in Nat
    BY <1>4, <2>2, Zenon
  <2>4. /\ input' \in Nat \ {0} /\ previous' \in Nat /\ hash_arr' \in Seq(Nat)
        /\ rc' \in Int /\ UNCHANGED args
    BY <1>1, <1>3
  <2> QED
    BY <2>1, <2>3, <2>4, Zenon
<1> QED
  BY <1>4, <1>5, <1>6, <1>7, <1>8, <1>9, DecodeKept, Zenon

(* A chunk is put above the bits that are there.                           *)
LEMMA RefillRemainderKeeps == DecodeInv /\ RefillRemainder => DecodeInv'
<1> SUFFICES ASSUME DecodeInv, RefillRemainder PROVE DecodeInv'
  OBVIOUS
<1>1. /\ phase = "remainder" /\ filled < Mshift /\ decode_rc(input) > 0
      /\ bits' = bits + chunk * 2^filled /\ filled' = filled + width /\ input' = AfterRead
      /\ UNCHANGED <<args, q, previous, hash_arr, phase, rc>>
  BY DEF RefillRemainder, NeedsBits, ChunkAbove
<1>2. /\ str \in Seq(Nat \ {0}) /\ Len(str) \in Nat
      /\ Mshift \in 7 .. 31 /\ input \in Nat \ {0} /\ q \in Nat /\ bits \in Nat
      /\ filled \in Nat /\ previous \in Nat /\ hash_arr \in Seq(Nat) /\ count \in Nat
      /\ rc \in Int /\ Fits(bits, filled, Mshift)
  BY DecodeFacts
<1>3. /\ width \in {6, 10} /\ chunk \in Nat /\ chunk < 2^width
      /\ AfterRead \in Nat \ {0} /\ AfterRead <= Len(str) + 1
      /\ width <= 6 * (AfterRead - input)
  BY <1>1, <1>2, ChunkFacts
<1>4. filled \in 0 .. Mshift - 1
  BY <1>1, <1>2
<1>5. bits < 2^filled
  <2>1. bits \div 2^filled < 2^(filled - filled)
    BY <1>1, <1>2, Zenon DEF Fits
  <2>2. filled - filled = 0 /\ 2^0 = 1
    BY <1>2, SMT
  <2>3. bits \div 2^filled < 1
    BY <2>1, <2>2, Zenon
  <2>4. filled \in 0 .. 39
    BY <1>2, <1>4
  <2>5. 2^filled \in Nat \ {0}
    BY <2>4, PowerAbove, Zenon
  <2>6. 1 \in Nat \ {0}
    OBVIOUS
  <2>7. bits < 1 * 2^filled
    BY <1>2, <2>3, <2>5, <2>6, QuotientBelow, Zenon
  <2> QED
    BY <2>5, <2>7
<1>6. bits + chunk * 2^filled \in Nat /\ Fits(bits + chunk * 2^filled, filled + width, Mshift)
  BY <1>2, <1>3, <1>4, <1>5, FitsAbove, Zenon
<1>7. bits' \in Nat /\ Fits(bits', filled', Mshift)
  BY <1>1, <1>6, Zenon
<1>8. filled' \in Nat /\ input' \in Nat \ {0} /\ input' <= Len(str) + 1
  BY <1>1, <1>2, <1>3
<1>9. ReadsInside'
  BY <1>1, <1>2, <1>8 DEF ReadsInside, args
<1>10. QuotientInv'
  BY <1>1 DEF QuotientInv
<1>11. BudgetInv'
  <2> DEFINE K == (Mshift + 1) * count
             w == width
             j == AfterRead
  <2>1. K \in Int /\ K + 1 + filled <= 6 * (input - 1) /\ K <= 6 * Len(str)
    BY <1>1, <1>2 DEF DecodeInv, BudgetInv
  <2>2. w \in Nat /\ j \in Nat /\ w <= 6 * (j - input) /\ filled \in Nat /\ input \in Nat
    BY <1>2, <1>3
  <2>3. /\ phase' = "remainder" /\ Mshift' = Mshift /\ str' = str /\ count' = count
        /\ input' = j /\ filled' = filled + w
    BY <1>1 DEF args, count
  <2> HIDE DEF K, w, j
  <2>4. K + 1 + (filled + w) <= 6 * (j - 1)
    BY <2>1, <2>2
  <2>5. /\ (Mshift + 1) * count + 1 + (filled + w) <= 6 * (j - 1)
        /\ (Mshift + 1) * count <= 6 * Len(str)
    BY <2>1, <2>4 DEF K
  <2> QED
    BY <2>3, <2>5 DEF BudgetInv
<1>12. /\ phase' \in {"quotient", "remainder", "done"} /\ q' \in Nat /\ previous' \in Nat
       /\ hash_arr' \in Seq(Nat) /\ rc' \in Int /\ UNCHANGED args
  BY <1>1, <1>2
<1> QED
  BY <1>7, <1>8, <1>9, <1>10, <1>11, <1>12, DecodeKept, Zenon

(* A value is complete and is stored.                                      *)
LEMMA StoreValueKeeps == DecodeInv /\ StoreValue => DecodeInv'
<1> SUFFICES ASSUME DecodeInv, StoreValue PROVE DecodeInv'
  OBVIOUS
<1> DEFINE delta_ == Wrapped(q * 2^Mshift) + (bits % 2^Mshift)
<1>1. /\ phase = "remainder" /\ filled >= Mshift
      /\ bits' = bits \div 2^Mshift /\ filled' = filled - Mshift /\ q' = 0
      /\ previous' = Wrapped(previous + delta_) /\ hash_arr' = Append(hash_arr, previous')
      /\ phase' = "quotient" /\ UNCHANGED <<args, input, rc>>
  BY DEF StoreValue, RemainderTaken, QuotientReset
<1>2. /\ str \in Seq(Nat \ {0}) /\ Len(str) \in Nat
      /\ Mshift \in 7 .. 31 /\ input \in Nat \ {0} /\ q \in Nat /\ bits \in Nat
      /\ filled \in Nat /\ previous \in Nat /\ hash_arr \in Seq(Nat) /\ count \in Nat
      /\ rc \in Int /\ Fits(bits, filled, Mshift) /\ 2^Mshift \in Nat \ {0}
      /\ \A n \in Nat : Wrapped(n) \in Nat
  BY DecodeFacts
<1>3. previous' \in Nat
  <2>1. q * 2^Mshift \in Nat /\ bits % 2^Mshift \in Nat
    <3> DEFINE M == 2^Mshift
    <3>1. M \in Nat \ {0}
      BY <1>2
    <3> HIDE DEF M
    <3>2. q * M \in Nat /\ bits % M \in Nat
      BY <1>2, <3>1
    <3> QED
      BY <3>2 DEF M
  <2>2. Wrapped(q * 2^Mshift) \in Nat
    BY <1>2, <2>1, Zenon
  <2>3. delta_ \in Nat
    BY <2>1, <2>2
  <2> HIDE DEF delta_
  <2>4. previous + delta_ \in Nat
    BY <1>2, <2>3
  <2> QED
    BY <1>1, <1>2, <2>4, Zenon
<1> HIDE DEF delta_
<1>4. bits' \in Nat /\ bits' < 2^filled'
  <2>1. bits \div 2^Mshift < 2^(filled - Mshift)
    <3>1. ~(filled < Mshift)
      BY <1>1, <1>2
    <3> QED
      BY <1>2, <3>1, Zenon DEF Fits
  <2>2. bits \div 2^Mshift \in Nat
    BY <1>2, Division, Zenon
  <2> QED
    BY <1>1, <2>1, <2>2, Zenon
<1>5. filled' \in 0 .. 9
  BY <1>1, <1>2 DEF Fits
<1>6. Fits(bits', filled', Mshift)
  <2>1. filled' \in 0 .. Mshift + 9 /\ filled' <= 39
    <3>0. Mshift \in 7 .. 31
      BY <1>2
    <3>1. \A f \in 0 .. 9 : f \in 0 .. Mshift + 9 /\ f <= 39
      BY <3>0
    <3> QED
      BY <1>5, <3>1, Zenon
  <2> QED
    BY <1>2, <1>4, <2>1, FitsBelow, Zenon
<1>7. QuotientInv'
  <2>1. filled' <= 10
    BY <1>5
  <2> QED
    BY <1>4, <2>1, Zenon DEF QuotientInv
<1>8. ReadsInside'
  BY <1>1 DEF ReadsInside, args, DecodeInv
<1>9. hash_arr' \in Seq(Nat) /\ count' = count + 1
  <2>1. hash_arr' \in Seq(Nat) /\ Len(hash_arr') = Len(hash_arr) + 1
    <3>1. PICK v \in Nat : v = previous'
      BY <1>3
    <3>2. hash_arr' = Append(hash_arr, v)
      BY <1>1, <3>1, Zenon
    <3> QED
      BY <1>2, <3>2
  <2> QED
    BY <2>1 DEF count
<1>10. BudgetInv'
  <2> DEFINE K == (Mshift + 1) * count
  <2>1. /\ K \in Int /\ K + 1 + filled <= 6 * (input - 1) /\ input <= Len(str) + 1
        /\ filled >= Mshift
    BY <1>1, <1>2 DEF DecodeInv, BudgetInv, ReadsInside
  <2>2. (Mshift + 1) * (count + 1) = K + Mshift + 1
    BY <1>2
  <2>3. /\ phase' = "quotient" /\ Mshift' = Mshift /\ str' = str /\ count' = count + 1
        /\ input' = input /\ filled' = filled - Mshift
    BY <1>1, <1>9 DEF args
  <2> HIDE DEF K
  <2>4. /\ (K + Mshift + 1) + 0 + (filled - Mshift) <= 6 * (input - 1)
        /\ K + Mshift + 1 <= 6 * Len(str)
    BY <1>2, <2>1
  <2>5. /\ (Mshift + 1) * (count + 1) + 0 + (filled - Mshift) <= 6 * (input - 1)
        /\ (Mshift + 1) * (count + 1) <= 6 * Len(str)
    BY <2>2, <2>4
  <2> QED
    BY <2>3, <2>5 DEF BudgetInv
<1>11. /\ phase' \in {"quotient", "remainder", "done"} /\ q' \in Nat /\ filled' \in Nat
       /\ input' \in Nat \ {0} /\ rc' \in Int /\ UNCHANGED args
  BY <1>1, <1>2, <1>5
<1> QED
  BY <1>3, <1>4, <1>6, <1>7, <1>8, <1>9, <1>10, <1>11, DecodeKept, Zenon

(* Each iteration keeps the invariant.                                     *)
LEMMA DecodeNext == DecodeInv /\ [Next]_vars => DecodeInv'
<1> SUFFICES ASSUME DecodeInv, [Next]_vars PROVE DecodeInv'
  OBVIOUS
<1>1. CASE RefillQuotient
  BY <1>1, RefillQuotientKeeps
<1>2. CASE EndOfString \/ ReadFails
  BY <1>2, ReturnKeeps
<1>3. CASE TakeZeros \/ EndQuotient
  BY <1>3, QuotientKeeps
<1>4. CASE RefillRemainder
  BY <1>4, RefillRemainderKeeps
<1>5. CASE StoreValue
  BY <1>5, StoreValueKeeps
<1>6. CASE Returned \/ UNCHANGED vars
  <2>1. UNCHANGED vars
    BY <1>6 DEF Returned
  <2> QED
    BY <2>1 DEF vars, args, DecodeInv, TypeOK, RegisterFits, ReadsInside, QuotientInv,
                BudgetInv, count
<1> QED
  BY <1>1, <1>2, <1>3, <1>4, <1>5, <1>6 DEF Next, Step

(* The register never holds more than Mshift + 9 bits nor anything above   *)
(* them, and no value is stored past the array the caller allocated, which *)
(* is sized from the payload's length alone (set9.c:412, 528, 545).        *)
THEOREM DecoderTypeCorrect == Spec => []TypeOK
<1>1. DecodeInv => TypeOK
  BY DEF DecodeInv
<1> QED
  BY <1>1, DecodeStart, DecodeNext, PTL DEF Spec

(* Whatever the characters are, an escape at the very end included, none   *)
(* beyond the terminator is read (set9.c:459, 469).                        *)
THEOREM DecoderReadsInside == Spec => []ReadsInside
<1>1. DecodeInv => ReadsInside
  BY DEF DecodeInv
<1> QED
  BY <1>1, DecodeStart, DecodeNext, PTL DEF Spec

-----------------------------------------------------------------------------
(* The writer's register never holds more than a digit short of one bit    *)
(* and a remainder of m bits that are not zero.                            *)
Occupied(f, m) == IF f < 5 + m THEN f ELSE 5 + m

(* A digit taken from the register leaves what it holds in its place.      *)
LEMMA TakenFits ==
    ASSUME NEW m \in 7 .. 31, NEW f \in 0 .. 63, NEW n \in Nat, NEW w \in {4, 6},
           n < 2^Occupied(f, m), w <= f
    PROVE  /\ n \div 2^w \in Nat /\ n % 2^w \in 0 .. 2^w - 1
           /\ n \div 2^w < 2^Occupied(f - w, m)
<1> DEFINE e == Occupied(f, m) - w
           g == Occupied(f - w, m)
<1>1. e \in 0 .. 39 /\ g \in 0 .. 39 /\ w \in 0 .. 39 /\ e + w <= 39 /\ e <= g
      /\ Occupied(f, m) = e + w
  BY DEF Occupied
<1> HIDE DEF e, g
<1>2. 2^(e + w) = 2^w * 2^e
  BY <1>1, PowerSum
<1>3. 2^e \in Nat \ {0} /\ 2^g \in Nat \ {0} /\ 2^e <= 2^g
  BY <1>1, PowerOrder
<1>4. 2^w \in Nat \ {0}
  BY <1>1, PowerAbove
<1> DEFINE E == 2^e
           G == 2^g
           W == 2^w
<1>5. n < W * E
  BY <1>1, <1>2
<1>6. E \in Nat \ {0} /\ G \in Nat \ {0} /\ W \in Nat \ {0} /\ E <= G
  BY <1>3, <1>4
<1> HIDE DEF E, G, W
<1>7. n < E * W
  BY <1>5, <1>6
<1>8. n \div W < E
  BY <1>6, <1>7, QuotientBelow
<1>9. n \div W \in Nat /\ n % W \in 0 .. W - 1
  BY <1>6, Division
<1>10. n \div W < G
  BY <1>6, <1>8, <1>9
<1> QED
  BY <1>9, <1>10 DEF E, G, W, g

(* Nor do zeros or a number written disturb what is there.                 *)
LEMMA WrittenFits ==
    ASSUME NEW m \in 7 .. 31, NEW f \in 0 .. 5, NEW n \in Nat, n < 2^Occupied(f, m)
    PROVE  /\ \A z \in 0 .. 56 : n < 2^Occupied(f + z, m)
           /\ \A k \in 0 .. m : \A v \in Nat :
                 v < 2^k => /\ n + v * 2^f \in Nat
                            /\ n + v * 2^f < 2^Occupied(f + k, m)
<1>1. Occupied(f, m) = f /\ f \in 0 .. 39
  BY DEF Occupied
<1>2. ASSUME NEW z \in 0 .. 56 PROVE n < 2^Occupied(f + z, m)
  <2> DEFINE g == Occupied(f + z, m)
  <2>1. g \in 0 .. 39 /\ f <= g
    BY DEF Occupied
  <2> HIDE DEF g
  <2>2. 2^f <= 2^g /\ 2^f \in Nat /\ 2^g \in Nat
    BY <1>1, <2>1, PowerOrder
  <2> DEFINE F == 2^f
             G == 2^g
  <2>3. n < F
    BY <1>1
  <2>4. F <= G /\ F \in Nat /\ G \in Nat
    BY <2>2
  <2> HIDE DEF F, G
  <2>5. n < G
    BY <2>3, <2>4
  <2> QED
    BY <2>5 DEF G, g
<1>3. ASSUME NEW k \in 0 .. m, NEW v \in Nat, v < 2^k
      PROVE  n + v * 2^f \in Nat /\ n + v * 2^f < 2^Occupied(f + k, m)
  <2>1. Occupied(f + k, m) = f + k /\ k \in 0 .. 39 /\ f + k <= 39
    BY DEF Occupied
  <2>2. 2^(f + k) = 2^k * 2^f
    BY <1>1, <2>1, PowerSum
  <2>3. 2^f \in Nat \ {0} /\ 2^k \in Nat \ {0}
    BY <1>1, <2>1, PowerAbove
  <2> DEFINE F == 2^f
             K == 2^k
  <2>4. n < F /\ v < K /\ F \in Nat \ {0} /\ K \in Nat \ {0}
    BY <1>1, <1>3, <2>3
  <2> HIDE DEF F, K
  <2>5. (v + 1) * F <= K * F /\ (v + 1) * F = v * F + F /\ v * F \in Nat /\ K * F \in Nat
    BY <2>4
  <2>6. n + v * F \in Nat /\ n + v * F < K * F
    BY <2>4, <2>5
  <2> QED
    BY <2>1, <2>2, <2>6 DEF F, K
<1> QED
  BY <1>2, <1>3

(* The loop of log2i ends at the last power not above its argument.        *)
LEMMA LogFacts ==
    ASSUME NEW n \in Nat \ {0}, n <= 2^32
    PROVE  /\ log2i(n) \in 0 .. 32
           /\ 2^log2i(n) <= n /\ n < 2^(log2i(n) + 1)
<1> DEFINE T == {k \in 1 .. 33 : n < 2^k}
<1>1. 33 \in T
  BY 2^32 = 4294967296, 2^33 = 8589934592
<1>2. PICK k \in T : \A y \in T : k <= y
  <2>1. T \subseteq Nat
    OBVIOUS
  <2>2. T # {}
    BY <1>1
  <2> HIDE DEF T
  <2> QED
    BY <2>1, <2>2, LeastNat, Zenon
<1>3. k - 1 \in 0 .. 32 /\ (k - 1) + 1 = k /\ n < 2^k
  BY <1>2
<1>4. 2^(k - 1) <= n
  <2>1. CASE k = 1
    <3>1. k - 1 = 0 /\ 2^0 = 1
      BY <2>1
    <3> QED
      BY <3>1
  <2>2. CASE k # 1
    <3>1. k - 1 \in 1 .. 33 /\ ~(k <= k - 1) /\ k - 1 \in 0 .. 39
      BY <1>3, <2>2
    <3>2. k - 1 \notin T
      BY <1>2, <3>1
    <3>3. ~(n < 2^(k - 1))
      BY <3>1, <3>2
    <3>4. 2^(k - 1) \in Nat
      BY <3>1, PowerAbove
    <3> QED
      BY <3>3, <3>4
  <2> QED
    BY <2>1, <2>2
<1>5. \E m \in 0 .. 32 : 2^m <= n /\ n < 2^(m + 1)
  BY <1>3, <1>4, Zenon
<1> QED
  BY <1>5, Zenon DEF log2i

(* An ascending array of numbers below b has at most b of them.            *)
LEMMA AscendingLength ==
    ASSUME NEW arr \in Seq(Nat), Ascending(arr), NEW b \in Nat,
           \A i \in 1 .. Len(arr) : arr[i] < b
    PROVE  Len(arr) <= b
<1> DEFINE S == {n \in Nat : n + 1 <= Len(arr) => arr[n + 1] >= n}
<1>1. 0 \in S
  OBVIOUS
<1>2. ASSUME NEW n \in Nat, n \in S PROVE n + 1 \in S
  <2>1. SUFFICES ASSUME (n + 1) + 1 <= Len(arr) PROVE arr[(n + 1) + 1] >= n + 1
    OBVIOUS
  <2>2. /\ n + 1 \in 1 .. Len(arr) /\ (n + 1) + 1 \in 1 .. Len(arr)
    BY <2>1
  <2>3. arr[n + 1] >= n /\ arr[n + 1] \in Nat /\ arr[(n + 1) + 1] \in Nat
    BY <1>2, <2>2
  <2>4. arr[n + 1] < arr[(n + 1) + 1]
    BY <2>2 DEF Ascending
  <2> QED
    BY <2>3, <2>4
<1>3. \A n \in Nat : n \in S
  <2> HIDE DEF S
  <2> QED
    BY <1>1, <1>2, Induct
<1>4. CASE Len(arr) = 0
  BY <1>4
<1>5. CASE Len(arr) # 0
  <2>1. Len(arr) - 1 \in S /\ Len(arr) \in 1 .. Len(arr) /\ (Len(arr) - 1) + 1 = Len(arr)
    BY <1>3, <1>5
  <2>2. arr[Len(arr)] >= Len(arr) - 1 /\ arr[Len(arr)] < b /\ arr[Len(arr)] \in Nat
    BY <2>1
  <2> QED
    BY <2>2
<1> QED
  BY <1>4, <1>5

-----------------------------------------------------------------------------
(* The parameter the encoder chooses makes the quotient of the greatest    *)
(* value, and so the sum of the quotients, at most twice the set's size.   *)
LEMMA MshiftFacts ==
    ASSUME values \in Arrays
    PROVE  /\ values \in Seq(Nat) /\ cnt \in Nat \ {0} /\ Ascending(values)
           /\ EncodeMshift \in 7 .. 31
           /\ \A i \in 1 .. cnt : values[i] \in Nat /\ values[i] \div 2^EncodeMshift <= 2 * cnt
<1>1. /\ values \in Seq(Nat) /\ Len(values) >= 1 /\ Ascending(values)
      /\ \A i \in 1 .. Len(values) : values[i] < 2^BPP
      /\ BPP \in 10 .. 32
  BY EncoderAssumption
<1>2. cnt \in Nat \ {0} /\ cnt = Len(values)
  BY <1>1 DEF cnt
<1>3. 2^BPP \in Nat \ {0} /\ 2^BPP <= 2^32
  <2>1. BPP \in 0 .. 39 /\ 32 \in 0 .. 39 /\ BPP <= 32
    BY <1>1
  <2> QED
    BY <2>1, PowerOrder
<1>4. cnt <= 2^BPP
  BY <1>1, <1>2, <1>3, AscendingLength
<1>5. cnt <= 2^32
  BY <1>2, <1>3, <1>4, 2^32 = 4294967296
<1> DEFINE m == log2i(cnt)
           M == EncodeMshift
<1>6. m \in 0 .. 32 /\ 2^m <= cnt /\ cnt < 2^(m + 1)
  BY <1>2, <1>5, LogFacts
<1>7. M = IF BPP - m - 1 < 7 THEN 7 ELSE IF BPP - m - 1 > 31 THEN 31 ELSE BPP - m - 1
  BY DEF EncodeMshift, encode_golomb_Mshift, SET_MSHIFT_MIN, SET_MSHIFT_MAX
<1> HIDE DEF m, M
<1>8. /\ M \in 7 .. 31
      /\ \/ M = 7 /\ BPP <= m + 7
         \/ BPP = M + (m + 1) /\ m + 1 <= 32
  <2>1. BPP \in 10 .. 32 /\ m \in 0 .. 32
    BY <1>1, <1>6
  <2> QED
    BY ONLY <2>1, <1>7
<1>9. ASSUME NEW v \in Nat, v < 2^BPP PROVE v \div 2^M <= 2 * cnt
  <2> DEFINE P == 2^M
             N == 2^m
             B == 2^BPP
  <2>1. P \in Nat \ {0} /\ N \in Nat \ {0}
    <3>1. M \in 0 .. 39 /\ m \in 0 .. 39
      BY <1>6, <1>8
    <3> QED
      BY <3>1, PowerAbove
  <2>2. CASE M = 7 /\ BPP <= m + 7
    <3>1. /\ BPP \in 0 .. 39 /\ m + M \in 0 .. 39 /\ BPP <= m + M /\ m \in 0 .. 39
          /\ M \in 0 .. 39 /\ m + M <= 39
      BY <1>1, <1>6, <2>2
    <3>2. 2^(m + M) = 2^M * 2^m
      BY <3>1, PowerSum
    <3>3. B <= 2^(m + M)
      BY <3>1, PowerOrder
    <3>4. B <= P * N
      BY <3>2, <3>3
    <3>5. v < B /\ B \in Nat /\ N <= cnt
      BY <1>3, <1>6, <1>9
    <3> HIDE DEF P, N, B
    <3>6. P * N = N * P /\ N * P \in Nat
      BY <2>1
    <3>7. v < N * P
      BY <3>4, <3>5, <3>6
    <3>8. v \div P < N
      BY <2>1, <3>7, QuotientBelow
    <3>9. v \div P \in Nat
      BY <2>1, Division
    <3>10. v \div P <= 2 * cnt
      BY <1>2, <2>1, <3>5, <3>8, <3>9
    <3> QED
      BY <3>10 DEF P
  <2>3. CASE BPP = M + (m + 1) /\ m + 1 <= 32
    <3>1. /\ M \in 0 .. 39 /\ m + 1 \in 0 .. 39 /\ M + (m + 1) <= 39 /\ m \in 0 .. 38
          /\ BPP = M + (m + 1)
      BY <1>1, <1>6, <1>8, <2>3
    <3>2. 2^(M + (m + 1)) = 2^(m + 1) * 2^M
      BY <3>1, PowerSum
    <3>3. 2^(m + 1) = 2 * 2^m
      BY <3>1, Powers
    <3>4. B = (2 * N) * P
      BY <3>1, <3>2, <3>3
    <3>5. v < B /\ B \in Nat /\ N <= cnt
      BY <1>3, <1>6, <1>9
    <3> HIDE DEF P, N, B
    <3>6. v < (2 * N) * P /\ 2 * N \in Nat \ {0}
      BY <2>1, <3>4, <3>5
    <3>7. v \div P < 2 * N
      BY <2>1, <3>6, QuotientBelow
    <3>8. v \div P \in Nat
      BY <2>1, Division
    <3>9. v \div P <= 2 * cnt
      BY <1>2, <2>1, <3>5, <3>7, <3>8
    <3> QED
      BY <3>9 DEF P
  <2> QED
    BY <1>8, <2>2, <2>3
<1>10. ASSUME NEW i \in 1 .. cnt PROVE values[i] \in Nat /\ values[i] \div 2^M <= 2 * cnt
  <2>1. values[i] \in Nat /\ values[i] < 2^BPP
    BY <1>1, <1>2
  <2> QED
    BY <2>1, <1>9
<1> QED
  BY <1>1, <1>2, <1>8, <1>10, Zenon DEF M

(* The quotients of two differences are no more than that of their sum.    *)
LEMMA QuotientsAdd ==
    ASSUME NEW a \in Nat, NEW b \in Nat, a <= b, NEW d \in Nat \ {0}
    PROVE  /\ b - a \in Nat
           /\ a \div d \in Nat /\ (b - a) \div d \in Nat /\ b \div d \in Nat
           /\ a \div d + (b - a) \div d <= b \div d
<1> DEFINE e == b - a
           s == a \div d
           t == e \div d
           u == b \div d
<1>1. b - a \in Nat
  OBVIOUS
<1> DEFINE x == a % d
           y == e % d
<1>2. s \in Nat /\ x \in 0 .. d - 1 /\ a = s * d + x
  BY Division, Zenon
<1>3. t \in Nat /\ y \in 0 .. d - 1 /\ e = t * d + y
  <2>1. e \in Nat
    BY <1>1
  <2> HIDE DEF e
  <2> QED
    BY <2>1, Division, Zenon
<1>4. u \in Nat
  BY Division
<1> HIDE DEF s, t, u, x, y
<1>5. s * d <= a /\ t * d <= b - a /\ s * d \in Nat /\ t * d \in Nat
  BY <1>2, <1>3
<1>6. (s + t) * d = s * d + t * d /\ s + t \in Nat
  BY <1>2, <1>3
<1>7. (s + t) * d <= b
  BY <1>5, <1>6
<1>8. (s + t + 1) * d = (s + t) * d + d
  BY <1>2, <1>3
<1>9. s + t <= u
  <2>1. CASE s + t = 0
    BY <1>4, <2>1, <1>2, <1>3
  <2>2. CASE s + t # 0
    <3>1. s + t \in Nat \ {0}
      BY <1>6, <2>2
    <3>2. ~(b < (s + t) * d)
      BY <1>7, <3>1
    <3>3. ~(u < s + t)
      BY <3>1, <3>2, QuotientBelow DEF u
    <3> QED
      BY <3>1, <3>3, <1>4
  <2> QED
    BY <2>1, <2>2
<1> QED
  BY <1>1, <1>2, <1>3, <1>4, <1>9 DEF s, t, u

-----------------------------------------------------------------------------
(* The register in the terms of the facts about it.                        *)
LEMMA FitsIs ==
    /\ WriterFits <=> out_filled < 64 /\ out_bits < 2^Occupied(out_filled, EncodeMshift)
    /\ WriterFits' <=>
          out_filled' < 64 /\ out_bits' < 2^Occupied(out_filled', EncodeMshift')
  BY DEF WriterFits, Occupied, BASE62_MAX_PADDING_BITS, BASE62_VALUE_BITS

LEMMA EncodeSame ==
    ASSUME values' = values
    PROVE  EncodeMshift' = EncodeMshift /\ cnt' = cnt
  BY DEF EncodeMshift, encode_golomb_Mshift, log2i, cnt, SET_MSHIFT_MIN, SET_MSHIFT_MAX

LEMMA AllowedFacts ==
    ASSUME EncodeTypeOK
    PROVE  /\ EncodeMshift \in 7 .. 31 /\ 2^EncodeMshift \in Nat \ {0}
           /\ Allowed \in Nat /\ Len(output) \in Nat
           /\ UNCHANGED <<values, taken, last>> => Allowed' = Allowed
<1>1. EncodeMshift \in 7 .. 31 /\ values \in Seq(Nat)
  BY MshiftFacts DEF EncodeTypeOK
<1>2. 2^EncodeMshift \in Nat \ {0}
  <2>1. EncodeMshift \in 0 .. 39
    BY <1>1
  <2> QED
    BY <2>1, PowerAbove
<1>3. taken \in Nat /\ last \in Nat /\ output \in Seq(Nat)
  BY <1>1 DEF EncodeTypeOK, cnt
<1>4. last \div 2^EncodeMshift \in Nat
  BY <1>2, <1>3, Division
<1>5. taken * (EncodeMshift + 1) \in Nat
  BY <1>1, <1>3
<1>6. Allowed \in Nat
  BY <1>4, <1>5 DEF Allowed
<1>7. UNCHANGED <<values, taken, last>> => Allowed' = Allowed
  <2> SUFFICES ASSUME UNCHANGED <<values, taken, last>> PROVE Allowed' = Allowed
    OBVIOUS
  <2> QED
    BY EncodeSame DEF Allowed
<1> QED
  BY <1>1, <1>2, <1>3, <1>6, <1>7

LEMMA EncodeStart == EncodeInit => EncodeInv
<1> SUFFICES ASSUME EncodeInit PROVE EncodeInv
  OBVIOUS
<1>1. /\ values \in Seq(Nat) /\ cnt \in Nat \ {0} /\ EncodeMshift \in 7 .. 31
  BY MshiftFacts DEF EncodeInit
<1>2. EncodeTypeOK
  <2>1. 0 \in 0 .. cnt /\ <<>> \in Seq(Nat) /\ 0 \in Nat /\ FALSE \in BOOLEAN
    BY <1>1
  <2> QED
    BY <2>1, Zenon DEF EncodeInit, EncodeTypeOK
<1>3. WriterFits
  <2>1. out_filled = 0 /\ out_bits = 0 /\ Occupied(out_filled, EncodeMshift) = 0
    BY <1>1 DEF EncodeInit, Occupied
  <2>2. 2^Occupied(out_filled, EncodeMshift) = 1
    BY <2>1, 2^0 = 1
  <2> HIDE DEF Occupied
  <2>3. out_filled < 64 /\ out_bits < 2^Occupied(out_filled, EncodeMshift)
    BY <2>1, <2>2
  <2> QED
    BY <2>3, FitsIs, Zenon
<1>4. LastInv
  BY DEF EncodeInit, LastInv
<1>5. SpentInv
  <2>1. Used = 0 /\ Owed = 0 /\ stage = "value"
    BY DEF EncodeInit, Used, Owed
  <2>2. Allowed \in Nat
    BY <1>2, AllowedFacts
  <2> QED
    BY <2>1, <2>2 DEF SpentInv
<1> QED
  BY <1>2, <1>3, <1>4, <1>5 DEF EncodeInv

LEMMA FlushKeeps == EncodeInv /\ FlushDigit => EncodeInv'
<1> SUFFICES ASSUME EncodeInv, FlushDigit PROVE EncodeInv'
  OBVIOUS
<1> DEFINE M == EncodeMshift
           w == FlushWidth
           value == out_bits % 2^w
<1>1. /\ M \in 7 .. 31 /\ Allowed \in Nat /\ Len(output) \in Nat /\ Allowed' = Allowed
      /\ M' = M /\ cnt' = cnt
  BY AllowedFacts, EncodeSame DEF EncodeInv, FlushDigit
<1>2. /\ out_filled \in 0 .. 63 /\ out_bits \in Nat /\ out_bits < 2^Occupied(out_filled, M)
      /\ escaped \in BOOLEAN /\ pending_high \in {0, 16, 32} /\ output \in Seq(Nat)
  BY FitsIs DEF EncodeInv, EncodeTypeOK
<1>3. w \in {4, 6} /\ w <= out_filled /\ (w = 4 <=> escaped)
  BY <1>2 DEF FlushDigit, Flushed, FlushWidth, BASE62_ESCAPE_BITS, BASE62_VALUE_BITS
<1> HIDE DEF w
<1>4. /\ out_bits \div 2^w \in Nat /\ value \in 0 .. 2^w - 1
      /\ out_bits \div 2^w < 2^Occupied(out_filled - w, M)
  <2> HIDE DEF M
  <2> QED
    BY <1>1, <1>2, <1>3, TakenFits
<1>5. /\ out_bits' = out_bits \div 2^w /\ out_filled' = out_filled - w
      /\ UNCHANGED <<values, taken, last, delta, zeros, stage>>
  BY DEF FlushDigit, w
<1>6. WriterFits'
  <2>1. out_filled' < 64
    BY <1>2, <1>3, <1>5
  <2>2. out_bits' < 2^Occupied(out_filled', EncodeMshift')
    BY <1>1, <1>4, <1>5
  <2> QED
    BY <2>1, <2>2, FitsIs
<1>7. value \in 0 .. 63
  <2>1. 2^w = 16 \/ 2^w = 64
    BY <1>3, 2^4 = 16, 2^6 = 64
  <2> HIDE DEF value
  <2> QED
    BY <1>4, <2>1
<1>8. \A n \in Nat : Digit(n) \in Nat
  BY DEF Digit
<1> DEFINE Longer(c) == Append(output, c)
<1>13. \A c \in Nat : Longer(c) \in Seq(Nat) /\ Len(Longer(c)) = Len(output) + 1
  BY <1>2
<1> HIDE DEF Longer
<1>9. /\ output' \in Seq(Nat) /\ escaped' \in BOOLEAN /\ pending_high' \in {0, 16, 32}
      /\ Len(output') = Len(output) + 1
      /\ escaped => ~escaped'
  <2>1. CASE escaped
    <3>1. WithPending(value) \in Nat
      <4>1. WithPending(value) = pending_high + value
        BY <2>1 DEF WithPending
      <4> HIDE DEF value
      <4> QED
        BY <1>2, <1>7, <4>1
    <3>2. /\ output' = Append(output, Digit(WithPending(value)))
          /\ escaped' = FALSE /\ pending_high' = pending_high
      BY <2>1 DEF FlushDigit, w
    <3>3. Digit(WithPending(value)) \in Nat /\ output' = Longer(Digit(WithPending(value)))
      BY <1>8, <3>1, <3>2 DEF Longer
    <3>4. output' \in Seq(Nat) /\ Len(output') = Len(output) + 1
      BY <1>13, <3>3
    <3> QED
      BY <1>2, <3>2, <3>4
  <2>2. CASE ~escaped /\ NeedsEscape(value)
    <3>1. /\ output' = Append(output, Digit(61)) /\ escaped' = TRUE
          /\ pending_high' = (value - 61) * 2^4
      BY <2>2 DEF FlushDigit, w, BASE62_ESCAPE_VALUE, BASE62_ESCAPE_BITS
    <3>2. value >= 61
      BY <2>2 DEF NeedsEscape, BASE62_ESCAPE_VALUE
    <3> HIDE DEF value
    <3>3. pending_high' \in {0, 16, 32}
      BY <1>7, <3>1, <3>2, 2^4 = 16
    <3>4. Digit(61) \in Nat /\ output' = Longer(Digit(61))
      BY <1>8, <3>1 DEF Longer
    <3>5. output' \in Seq(Nat) /\ Len(output') = Len(output) + 1
      BY <1>13, <3>4
    <3> QED
      BY <2>2, <3>1, <3>3, <3>5
  <2>3. CASE ~escaped /\ ~NeedsEscape(value)
    <3>1. output' = Append(output, Digit(value)) /\ UNCHANGED <<pending_high, escaped>>
      BY <2>3 DEF FlushDigit, w
    <3> HIDE DEF value
    <3>2. Digit(value) \in Nat /\ output' = Longer(Digit(value))
      BY <1>7, <1>8, <3>1 DEF Longer
    <3>3. output' \in Seq(Nat) /\ Len(output') = Len(output) + 1
      BY <1>13, <3>2
    <3> QED
      BY <1>2, <2>3, <3>1, <3>3
  <2> QED
    BY <1>2, <2>1, <2>2, <2>3
<1>10. EncodeTypeOK'
  <2>1. out_bits' \in Nat /\ out_filled' \in Nat
    BY <1>2, <1>3, <1>4, <1>5
  <2> QED
    BY <1>1, <1>5, <1>9, <2>1 DEF EncodeInv, EncodeTypeOK
<1>11. LastInv'
  BY <1>5 DEF EncodeInv, LastInv
<1>12. SpentInv'
  <2>1. Owed' = Owed
    BY <1>1, <1>5 DEF Owed
  <2>2. Used' <= Used
    BY <1>2, <1>3, <1>5, <1>9, <1>1 DEF Used
  <2>3. Used \in Int /\ Used' \in Int /\ Owed \in Int
    <3>1. zeros \in Nat
      BY DEF EncodeInv, EncodeTypeOK
    <3>2. Owed \in Int
      BY <1>1, <3>1 DEF Owed
    <3>3. Used \in Int /\ Used' \in Int
      BY <1>1, <1>2, <1>3, <1>5, <1>9 DEF Used
    <3> QED
      BY <3>2, <3>3
  <2>4. Used + Owed <= Allowed + (IF stage = "done" THEN 5 ELSE 0)
    BY DEF EncodeInv, SpentInv
  <2> DEFINE rest == IF stage = "done" THEN 5 ELSE 0
  <2>5. rest \in Nat /\ rest' = rest
    BY <1>5
  <2>6. Used + Owed <= Allowed + rest
    BY <2>4
  <2> HIDE DEF rest
  <2>7. \A u \in Int : u <= Used => u + Owed <= Allowed + rest
    BY <1>1, <2>3, <2>5, <2>6
  <2>8. Used' + Owed <= Allowed + rest
    BY <2>2, <2>3, <2>7, Zenon
  <2>9. Used' + Owed' <= Allowed' + rest'
    BY <1>1, <2>1, <2>5, <2>8, Zenon
  <2> QED
    BY <2>9 DEF SpentInv, rest
<1> QED
  BY <1>6, <1>10, <1>11, <1>12 DEF EncodeInv

(* What the other steps have to show: they leave the argument alone, and   *)
(* write what they owe.                                                    *)
LEMMA SpentKept ==
    ASSUME NEW u \in Int, NEW o \in Int, NEW a \in Int,
           EncodeTypeOK, SpentInv, stage # "done",
           Used \in Int, Owed \in Int,
           (u + o) - a <= (Used + Owed) - Allowed,
           Used' = u, Owed' = o, Allowed' = a
    PROVE  SpentInv'
<1>1. Allowed \in Nat
  BY AllowedFacts
<1>2. Used + Owed <= Allowed
  <2>1. Used + Owed <= Allowed + 0
    BY DEF SpentInv
  <2> QED
    BY <1>1, <2>1
<1>3. u + o <= a + 0 /\ u + o <= a + 5
  BY <1>1, <1>2
<1>4. Used' + Owed' <= Allowed' + 0 /\ Used' + Owed' <= Allowed' + 5
  BY <1>3, Zenon
<1> QED
  BY <1>4 DEF SpentInv

(* The state outside of a flush, in plain numbers.                         *)
LEMMA FlushedFacts ==
    ASSUME EncodeInv, Flushed
    PROVE  /\ EncodeMshift \in 7 .. 31 /\ Allowed \in Nat /\ Len(output) \in Nat
           /\ out_filled \in 0 .. 5 /\ out_bits \in Nat
           /\ out_bits < 2^Occupied(out_filled, EncodeMshift)
           /\ zeros \in Nat
           /\ Used \in Int /\ Owed \in Int
<1>1. EncodeMshift \in 7 .. 31 /\ Allowed \in Nat /\ Len(output) \in Nat
  BY AllowedFacts DEF EncodeInv
<1>2. out_filled \in 0 .. 5
  BY DEF EncodeInv, EncodeTypeOK, Flushed, FlushWidth, BASE62_ESCAPE_BITS, BASE62_VALUE_BITS
<1>3. out_bits \in Nat /\ zeros \in Nat
  BY DEF EncodeInv, EncodeTypeOK
<1>4. out_bits < 2^Occupied(out_filled, EncodeMshift)
  BY FitsIs DEF EncodeInv
<1>5. Used \in Int
  BY <1>1, <1>2 DEF Used
<1>6. Owed \in Int
  BY <1>1, <1>3 DEF Owed
<1> QED
  BY <1>1, <1>2, <1>3, <1>4, <1>5, <1>6

LEMMA NextValueKeeps == EncodeInv /\ NextValue => EncodeInv'
<1> SUFFICES ASSUME EncodeInv, NextValue PROVE EncodeInv'
  OBVIOUS
<1> DEFINE M == EncodeMshift
           d == 2^M
           v == values[taken + 1]
<1>1. /\ M \in 7 .. 31 /\ Allowed \in Nat /\ Len(output) \in Nat
      /\ Used \in Int /\ Owed \in Int /\ d \in Nat \ {0}
  BY FlushedFacts, AllowedFacts DEF NextValue, EncodeInv
<1>2. /\ values' = values /\ taken' = taken + 1 /\ last' = v
      /\ delta' = last' - last /\ zeros' = delta' \div d
      /\ stage' = "zeros" /\ stage = "value" /\ UNCHANGED writer /\ taken < cnt
  BY DEF NextValue
<1>3. M' = M /\ cnt' = cnt
  BY <1>2, EncodeSame
<1>4. /\ values \in Seq(Nat) /\ cnt = Len(values) /\ Ascending(values) /\ taken \in 0 .. cnt
      /\ last \in Nat /\ cnt \in Nat
  BY MshiftFacts DEF EncodeInv, EncodeTypeOK, cnt
<1>5. taken + 1 \in 1 .. cnt /\ v \in Nat
  BY <1>2, <1>4
<1>6. last <= v
  <2>1. CASE taken = 0
    BY <1>5, <2>1 DEF EncodeInv, LastInv
  <2>2. CASE taken # 0
    <3>1. last = values[taken] /\ taken \in 1 .. Len(values) /\ taken + 1 \in 1 .. Len(values)
      BY <1>4, <1>5, <2>2 DEF EncodeInv, LastInv
    <3>2. values[taken] < values[taken + 1]
      BY <1>4, <3>1 DEF Ascending
    <3> QED
      BY <1>4, <1>5, <3>1, <3>2
  <2> QED
    BY <2>1, <2>2
<1> HIDE DEF v, d
<1>7. /\ v - last \in Nat /\ last \div d \in Nat /\ (v - last) \div d \in Nat /\ v \div d \in Nat
      /\ last \div d + (v - last) \div d <= v \div d
  BY <1>1, <1>4, <1>5, <1>6, QuotientsAdd
<1>8. delta' = v - last /\ zeros' = (v - last) \div d
  BY <1>2
<1>9. EncodeTypeOK'
  <2>1. /\ values' \in Arrays /\ taken' \in 0 .. cnt' /\ last' \in Nat /\ delta' \in Nat
        /\ zeros' \in Nat
    BY <1>2, <1>3, <1>4, <1>5, <1>7, <1>8 DEF EncodeInv, EncodeTypeOK
  <2>2. /\ out_bits' \in Nat /\ out_filled' \in Nat /\ escaped' \in BOOLEAN
        /\ pending_high' \in {0, 16, 32} /\ output' \in Seq(Nat)
    BY <1>2 DEF writer, EncodeInv, EncodeTypeOK
  <2> QED
    BY <1>2, <2>1, <2>2 DEF EncodeTypeOK
<1>10. WriterFits'
  BY <1>2, <1>3, FitsIs DEF writer, EncodeInv
<1>11. LastInv'
  <2>1. ~(taken' = 0) /\ last' = values'[taken']
    BY <1>2, <1>4 DEF v
  <2> QED
    BY <2>1 DEF LastInv
<1>12. SpentInv'
  <2> DEFINE s == last \div d
             z == (v - last) \div d
             u == v \div d
             k == taken * (M + 1)
  <2>1. k \in Nat /\ (taken + 1) * (M + 1) = k + (M + 1)
    BY <1>1, <1>4
  <2>2. Allowed = k + s /\ Owed = 0
    BY <1>2 DEF Allowed, Owed, d
  <2>3. Allowed' = (taken + 1) * (M + 1) + u /\ Used' = Used /\ Owed' = z + 1 + M
    BY <1>2, <1>3, <1>8 DEF Allowed, Used, Owed, d, writer
  <2>4. s \in Nat /\ z \in Nat /\ u \in Nat /\ s + z <= u
    BY <1>7
  <2> HIDE DEF s, z, u, k, M
  <2>5. Allowed' = k + (M + 1) + u
    BY <2>1, <2>3, Zenon
  <2>6. /\ z + 1 + M \in Int /\ k + (M + 1) + u \in Int
        /\ (Used + (z + 1 + M)) - (k + (M + 1) + u) <= (Used + Owed) - Allowed
    BY <1>1, <2>1, <2>2, <2>4
  <2>7. stage # "done" /\ EncodeTypeOK /\ SpentInv
    BY <1>2 DEF EncodeInv
  <2> QED
    BY <1>1, <2>3, <2>5, <2>6, <2>7, SpentKept, Zenon
<1> QED
  BY <1>9, <1>10, <1>11, <1>12 DEF EncodeInv

(* Writing bits leaves everything but the register, the stage and what is  *)
(* still owed as it is.                                                    *)
LEMMA PutKept ==
    ASSUME EncodeInv, Flushed,
           UNCHANGED <<values, taken, last, delta, escaped, pending_high, output>>,
           zeros' \in Nat, out_bits' \in Nat,
           stage' \in {"value", "zeros", "remainder"}, stage # "done",
           NEW k \in 0 .. 56, out_filled' = out_filled + k,
           out_bits' < 2^Occupied(out_filled + k, EncodeMshift),
           NEW o \in Int, Owed' = o, o + k <= Owed
    PROVE  EncodeInv'
<1>1. /\ EncodeMshift \in 7 .. 31 /\ Allowed \in Nat /\ Len(output) \in Nat
      /\ out_filled \in 0 .. 5 /\ Used \in Int /\ Owed \in Int
  BY FlushedFacts
<1>2. EncodeMshift' = EncodeMshift /\ cnt' = cnt /\ Allowed' = Allowed
  BY EncodeSame, AllowedFacts DEF EncodeInv
<1>3. out_filled + k \in Nat /\ out_filled + k < 64
  BY <1>1
<1>4. EncodeTypeOK'
  BY <1>2, <1>3 DEF EncodeInv, EncodeTypeOK
<1>5. WriterFits'
  <2>1. out_filled' < 64
    BY <1>3
  <2>2. out_bits' < 2^Occupied(out_filled', EncodeMshift')
    BY <1>2, Zenon
  <2> QED
    BY <2>1, <2>2, FitsIs, Zenon
<1>6. LastInv'
  BY DEF EncodeInv, LastInv
<1>7. SpentInv'
  <2>1. Used' = Used + k
    BY <1>1 DEF Used
  <2>2. /\ Used + k \in Int /\ Allowed \in Int
        /\ ((Used + k) + o) - Allowed <= (Used + Owed) - Allowed
    BY <1>1
  <2>3. EncodeTypeOK /\ SpentInv
    BY DEF EncodeInv
  <2> QED
    BY <1>1, <1>2, <2>1, <2>2, <2>3, SpentKept, Zenon
<1> QED
  BY <1>4, <1>5, <1>6, <1>7 DEF EncodeInv

LEMMA PutZerosKeeps == EncodeInv /\ PutZeros => EncodeInv'
<1> SUFFICES ASSUME EncodeInv, PutZeros PROVE EncodeInv'
  OBVIOUS
<1>1. /\ EncodeMshift \in 7 .. 31 /\ zeros \in Nat /\ out_filled \in 0 .. 5 /\ out_bits \in Nat
      /\ out_bits < 2^Occupied(out_filled, EncodeMshift)
  BY FlushedFacts DEF PutZeros
<1> DEFINE k == ZerosTaken
<1>2. k \in 0 .. 56 /\ k <= zeros
  BY <1>1 DEF ZerosTaken
<1>3. /\ UNCHANGED <<values, taken, last, delta, escaped, pending_high, output>>
      /\ UNCHANGED <<stage, out_bits>> /\ stage = "zeros" /\ Flushed
      /\ out_filled' = out_filled + k /\ zeros' = zeros - k
  BY DEF PutZeros
<1> HIDE DEF k
<1>4. zeros' \in Nat /\ out_bits' \in Nat
  BY <1>1, <1>2, <1>3
<1>5. out_bits < 2^Occupied(out_filled + k, EncodeMshift)
  BY <1>1, <1>2, WrittenFits, Zenon
<1>6. out_bits' < 2^Occupied(out_filled + k, EncodeMshift)
  BY <1>3, <1>5, Zenon
<1>7. stage' \in {"value", "zeros", "remainder"} /\ stage # "done"
  BY <1>3
<1> DEFINE o == (zeros - k) + 1 + EncodeMshift
<1>8. Owed' = o
  BY <1>3, EncodeSame DEF Owed
<1>9. Owed = zeros + 1 + EncodeMshift
  BY <1>3 DEF Owed
<1>10. o \in Int /\ o + k <= Owed
  BY <1>1, <1>2, <1>9
<1> HIDE DEF o
<1> QED
  BY <1>2, <1>3, <1>4, <1>6, <1>7, <1>8, <1>10, PutKept, Zenon

LEMMA PutOneKeeps == EncodeInv /\ PutOne => EncodeInv'
<1> SUFFICES ASSUME EncodeInv, PutOne PROVE EncodeInv'
  OBVIOUS
<1>1. /\ EncodeMshift \in 7 .. 31 /\ zeros \in Nat /\ out_filled \in 0 .. 5 /\ out_bits \in Nat
      /\ out_bits < 2^Occupied(out_filled, EncodeMshift)
  BY FlushedFacts DEF PutOne
<1>2. /\ UNCHANGED <<values, taken, last, delta, escaped, pending_high, output>>
      /\ zeros' = zeros /\ zeros = 0 /\ stage = "zeros" /\ stage' = "remainder" /\ Flushed
      /\ out_filled' = out_filled + 1 /\ out_bits' = out_bits + 2^out_filled
  BY DEF PutOne
<1> DEFINE n == out_bits + 1 * 2^out_filled
<1>3. n \in Nat /\ n < 2^Occupied(out_filled + 1, EncodeMshift)
  <2>1. 1 \in 0 .. EncodeMshift /\ 1 \in Nat /\ 1 < 2^1
    BY <1>1, 2^1 = 2
  <2> QED
    BY <1>1, <2>1, WrittenFits, Zenon
<1>4. out_bits' = n
  <2>1. out_filled \in 0 .. 39
    BY <1>1
  <2>2. 2^out_filled \in Nat
    BY <2>1, PowerAbove
  <2> QED
    BY <1>2, <2>2
<1> HIDE DEF n
<1>5. /\ out_bits' \in Nat /\ zeros' \in Nat
      /\ out_bits' < 2^Occupied(out_filled + 1, EncodeMshift)
  BY <1>1, <1>2, <1>3, <1>4, Zenon
<1>6. stage' \in {"value", "zeros", "remainder"} /\ stage # "done" /\ 1 \in 0 .. 56
  BY <1>2
<1>7. Owed' = EncodeMshift
  BY <1>2, EncodeSame DEF Owed
<1>8. Owed = zeros + 1 + EncodeMshift
  BY <1>2 DEF Owed
<1>9. EncodeMshift \in Int /\ EncodeMshift + 1 <= Owed
  BY <1>1, <1>8
<1> QED
  BY <1>2, <1>5, <1>6, <1>7, <1>9, PutKept, Zenon

LEMMA PutRemainderKeeps == EncodeInv /\ PutRemainder => EncodeInv'
<1> SUFFICES ASSUME EncodeInv, PutRemainder PROVE EncodeInv'
  OBVIOUS
<1> DEFINE M == EncodeMshift
           v == delta % 2^M
           n == out_bits + v * 2^out_filled
<1>1. /\ M \in 7 .. 31 /\ zeros \in Nat /\ out_filled \in 0 .. 5 /\ out_bits \in Nat
      /\ out_bits < 2^Occupied(out_filled, M)
  BY FlushedFacts DEF PutRemainder
<1>2. /\ UNCHANGED <<values, taken, last, delta, escaped, pending_high, output>>
      /\ zeros' = zeros /\ stage = "remainder" /\ stage' = "value" /\ Flushed
      /\ out_filled' = out_filled + M /\ out_bits' = n
  BY DEF PutRemainder
<1>3. v \in Nat /\ v < 2^M
  <2>1. delta \in Nat /\ 2^M \in Nat \ {0}
    BY AllowedFacts DEF EncodeInv, EncodeTypeOK
  <2> DEFINE d == 2^M
  <2>2. delta % d \in 0 .. d - 1 /\ d \in Nat
    <3> HIDE DEF d
    <3>1. d \in Nat \ {0}
      BY <2>1 DEF d
    <3> QED
      BY <2>1, <3>1, Division
  <2> HIDE DEF d
  <2>3. delta % d \in Nat /\ delta % d < d
    BY <2>2
  <2> QED
    BY <2>3 DEF d
<1> HIDE DEF v
<1>4. n \in Nat /\ n < 2^Occupied(out_filled + M, M)
  <2>1. M \in 0 .. M
    BY <1>1
  <2> HIDE DEF M
  <2> QED
    BY <1>1, <1>3, <2>1, WrittenFits, Zenon
<1> HIDE DEF n
<1>5. out_bits' \in Nat /\ zeros' \in Nat /\ out_bits' < 2^Occupied(out_filled + M, M)
  BY <1>1, <1>2, <1>4, Zenon
<1>6. stage' \in {"value", "zeros", "remainder"} /\ stage # "done" /\ M \in 0 .. 56
  BY <1>1, <1>2
<1>7. Owed' = 0 /\ Owed = M
  BY <1>2 DEF Owed
<1>8. 0 \in Int /\ 0 + M <= Owed
  BY <1>1, <1>7
<1> QED
  BY <1>2, <1>5, <1>6, <1>7, <1>8, PutKept, Zenon

LEMMA FinishKeeps == EncodeInv /\ Finish => EncodeInv'
<1> SUFFICES ASSUME EncodeInv, Finish PROVE EncodeInv'
  OBVIOUS
<1>1. /\ EncodeMshift \in 7 .. 31 /\ Allowed \in Nat /\ Len(output) \in Nat
      /\ out_filled \in 0 .. 5 /\ out_bits \in Nat /\ Used \in Int
  BY FlushedFacts DEF Finish
<1>2. /\ UNCHANGED <<values, taken, last, delta, zeros, out_bits, out_filled,
                     escaped, pending_high>>
      /\ stage = "value" /\ stage' = "done"
      /\ output' = IF DigitOwed THEN Append(output, Digit(WithPending(out_bits))) ELSE output
  BY DEF Finish
<1>3. EncodeMshift' = EncodeMshift /\ cnt' = cnt /\ Allowed' = Allowed
  BY <1>2, EncodeSame, AllowedFacts DEF EncodeInv
<1>4. output \in Seq(Nat) /\ pending_high \in Nat /\ escaped \in BOOLEAN
  BY DEF EncodeInv, EncodeTypeOK
<1>5. output' \in Seq(Nat) /\ Len(output') <= Len(output) + 1 /\ Len(output') \in Nat
  <2>1. WithPending(out_bits) \in Nat
    BY <1>1, <1>4 DEF WithPending
  <2> DEFINE c == Digit(WithPending(out_bits))
  <2>2. c \in Nat
    BY <2>1 DEF Digit
  <2> HIDE DEF c
  <2>3. output' = IF DigitOwed THEN Append(output, c) ELSE output
    BY <1>2 DEF c
  <2> QED
    BY <1>4, <2>2, <2>3
<1>6. EncodeTypeOK'
  BY <1>2, <1>3, <1>5 DEF EncodeInv, EncodeTypeOK
<1>7. WriterFits'
  BY <1>2, <1>3, FitsIs DEF EncodeInv
<1>8. LastInv'
  BY <1>2 DEF EncodeInv, LastInv
<1>9. SpentInv'
  <2>1. Used + 0 <= Allowed + 0
    BY <1>2 DEF EncodeInv, SpentInv, Owed
  <2>2. Used' <= Used + 5 /\ Used' \in Int
    <3> DEFINE rest == (IF escaped THEN 1 ELSE 0) + out_filled
               l == Len(output)
    <3>1. rest \in Nat /\ rest' = rest /\ l \in Nat /\ l' \in Nat /\ l' <= l + 1
      BY <1>1, <1>2, <1>5
    <3>2. Used = 5 * l + rest
      BY <1>1, <1>4 DEF Used
    <3>3. Used' = 5 * l' + rest'
      <4>1. out_filled' \in Nat /\ escaped' \in BOOLEAN
        BY <1>1, <1>2, <1>4
      <4> QED
        BY <1>5, <4>1 DEF Used
    <3> HIDE DEF l, rest
    <3>4. \A n \in Nat : n <= l + 1 => 5 * n + rest <= Used + 5 /\ 5 * n + rest \in Int
      BY <3>1, <3>2
    <3>5. 5 * l' + rest <= Used + 5 /\ 5 * l' + rest \in Int
      BY <3>1, <3>4, Zenon
    <3> QED
      BY <3>1, <3>3, <3>5, Zenon
  <2>3. Owed' = 0
    BY <1>2 DEF Owed
  <2>4. \A u \in Int : u <= Used + 5 => u + 0 <= Allowed + 5
    BY <1>1, <2>1
  <2>5. Used' + Owed' <= Allowed' + 5
    BY <1>3, <2>2, <2>3, <2>4, Zenon
  <2> QED
    BY <1>2, <2>5 DEF SpentInv
<1> QED
  BY <1>6, <1>7, <1>8, <1>9 DEF EncodeInv

LEMMA EncodeStepKeeps == EncodeInv /\ [EncodeNext]_encode_vars => EncodeInv'
<1> SUFFICES ASSUME EncodeInv, [EncodeNext]_encode_vars PROVE EncodeInv'
  OBVIOUS
<1>1. CASE FlushDigit
  BY <1>1, FlushKeeps
<1>2. CASE NextValue
  BY <1>2, NextValueKeeps
<1>3. CASE PutZeros
  BY <1>3, PutZerosKeeps
<1>4. CASE PutOne
  BY <1>4, PutOneKeeps
<1>5. CASE PutRemainder
  BY <1>5, PutRemainderKeeps
<1>6. CASE Finish
  BY <1>6, FinishKeeps
<1>7. CASE EncodeReturned \/ UNCHANGED encode_vars
  <2>1. UNCHANGED encode_vars
    BY <1>7 DEF EncodeReturned
  <2>2. UNCHANGED <<values, taken, last, delta, zeros, out_bits, out_filled, escaped,
                    pending_high, output, stage>>
    BY <2>1 DEF encode_vars, writer
  <2>3. EncodeMshift' = EncodeMshift /\ cnt' = cnt
    BY <2>2, EncodeSame
  <2> QED
    BY <2>2, <2>3 DEF EncodeInv, EncodeTypeOK, WriterFits, LastInv, SpentInv, Used, Owed, Allowed
<1> QED
  BY <1>1, <1>2, <1>3, <1>4, <1>5, <1>6, <1>7 DEF EncodeNext, EncodeStep

(* The bits allowed are less than the estimate, whatever the values are.   *)
LEMMA EstimateHolds == EncodeInv => FitsBuffer
<1> SUFFICES ASSUME EncodeInv PROVE FitsBuffer
  OBVIOUS
<1> DEFINE M == EncodeMshift
           c == cnt
           l == Len(output)
           s == last \div 2^M
<1>1. /\ values \in Seq(Nat) /\ c \in Nat \ {0} /\ M \in 7 .. 31
      /\ \A i \in 1 .. c : values[i] \in Nat /\ values[i] \div 2^M <= 2 * c
  BY MshiftFacts DEF EncodeInv, EncodeTypeOK
<1>2. Allowed \in Nat /\ l \in Nat /\ 2^M \in Nat \ {0}
  BY AllowedFacts DEF EncodeInv
<1>3. /\ out_filled \in Nat /\ taken \in 0 .. c /\ zeros \in Nat /\ escaped \in BOOLEAN
  BY DEF EncodeInv, EncodeTypeOK
<1>4. s \in Nat /\ s <= 2 * c
  <2>1. CASE taken = 0
    <3>1. last = 0
      BY <2>1 DEF EncodeInv, LastInv
    <3> DEFINE d == 2^M
    <3>2. d \in Nat \ {0}
      BY <1>2
    <3> HIDE DEF d
    <3>3. 0 \div d = 0
      BY <3>2
    <3>4. last \div d = 0
      BY <3>1, <3>3
    <3> QED
      BY <1>1, <3>4 DEF d
  <2>2. CASE taken # 0
    <3>1. taken \in 1 .. c /\ last = values[taken]
      BY <1>1, <1>3, <2>2 DEF EncodeInv, LastInv
    <3>2. last \in Nat /\ s <= 2 * c
      BY <1>1, <3>1
    <3> QED
      BY <1>2, <3>2, Division
  <2> QED
    BY <2>1, <2>2
<1>5. 5 * l <= Allowed + 5
  <2>1. Used >= 5 * l /\ Used \in Int /\ Owed >= 0 /\ Owed \in Int
    <3>1. Owed >= 0 /\ Owed \in Int
      BY <1>1, <1>3 DEF Owed
    <3>2. Used >= 5 * l /\ Used \in Int
      BY <1>2, <1>3 DEF Used
    <3> QED
      BY <3>1, <3>2
  <2>2. Used + Owed <= Allowed + (IF stage = "done" THEN 5 ELSE 0)
    BY DEF EncodeInv, SpentInv
  <2> HIDE DEF l
  <2> QED
    BY <1>2, <2>1, <2>2
<1>6. Allowed <= c * (M + 1) + 2 * c
  <2>1. Allowed = taken * (M + 1) + s
    BY DEF Allowed
  <2> HIDE DEF s, M, c
  <2>2. taken * (M + 1) <= c * (M + 1) /\ taken * (M + 1) \in Nat /\ c * (M + 1) \in Nat
    BY <1>1, <1>3
  <2> QED
    BY <1>1, <1>4, <2>1, <2>2
<1>7. c * (M + 1) + 2 * c <= 2 * M * c /\ 2 * M * c \in Nat
  <2> HIDE DEF M, c
  <2>1. c * (M + 1) + 2 * c = c * (M + 3) /\ 2 * M * c = c * (2 * M)
    BY <1>1
  <2>2. c * (M + 3) <= c * (2 * M) /\ c * (M + 3) \in Nat /\ c * (2 * M) \in Nat
    BY <1>1
  <2> QED
    BY <2>1, <2>2
<1>8. encode_set_size(cnt, BPP) = 2 + ((2 * M * c + 16) \div 5 + 2)
  BY DEF encode_set_size, SET_HEADER_SIZE, encode_base62_size, encode_golomb_size, EncodeMshift,
         BASE62_MIN_BITS_PER_CHAR, BASE62_ESCAPE_CHUNK_BITS, BASE62_ESCAPE_BITS, BASE62_VALUE_BITS
<1>9. 2 + l + 1 <= 2 + ((2 * M * c + 16) \div 5 + 2)
  <2> DEFINE t == 2 * M * c
  <2>1. t \in Nat /\ 5 * l <= t + 5
    <3> HIDE DEF M, c, l
    <3>1. c * (M + 1) \in Nat
      BY <1>1
    <3> QED
      BY <1>1, <1>2, <1>5, <1>6, <1>7, <3>1
  <2> HIDE DEF t, l
  <2>2. l <= (t + 16) \div 5
    BY <1>2, <2>1
  <2>3. 2 + l + 1 <= 2 + ((t + 16) \div 5 + 2)
    BY <1>2, <2>1, <2>2
  <2> QED
    BY <2>3 DEF t
<1> QED
  BY <1>8, <1>9 DEF FitsBuffer, EncodeInv, SET_HEADER_SIZE

(* For every set set_fini passes: the writer's register never overflows,   *)
(* and the buffer estimated from the number of values and their width      *)
(* holds header, digits and terminator (set9.c:283, 369).                  *)
THEOREM EncoderFitsBuffer == EncodeSpec => []FitsBuffer
<1> QED
  BY EncodeStart, EncodeStepKeeps, EstimateHolds, PTL DEF EncodeSpec

(* The arrays, counts and digits of the encoder stay what they are         *)
(* declared to be, its differences never negative (set9.c:300-366).        *)
THEOREM EncoderTypeCorrect == EncodeSpec => []EncodeTypeOK
<1>1. EncodeInv => EncodeTypeOK
  BY DEF EncodeInv
<1> QED
  BY <1>1, EncodeStart, EncodeStepKeeps, PTL DEF EncodeSpec
=============================================================================
