------------------------------ MODULE CommonFacts ------------------------------
(***************************************************************************)
(* Facts that several proofs use: induction over the numbers, the powers   *)
(* of two up to the width of a register, division, ascending arrays, and   *)
(* what the loops of ArrayAlgorithms compute.                              *)
(***************************************************************************)
EXTENDS DirectArrays, FiniteSetTheorems, TLAPS

(* A set of numbers has a least one ...                                    *)
LEMMA LeastNat ==
    ASSUME NEW T, T \subseteq Nat, T # {}
    PROVE  \E x \in T : \A y \in T : x <= y
<1>1. IsWellFoundedOn(OpToRel(<, Nat), Nat)
  BY ONLY NatLessThanWellFounded
<1>2. PICK x \in T : \A y \in T : ~(<<y, x>> \in OpToRel(<, Nat))
  BY ONLY <1>1, T \subseteq Nat, T # {}, WFMin
<1>3. OpToRel(<, Nat) = {p \in Nat \X Nat : p[1] < p[2]}
  BY DEF OpToRel
<1>4. \A y \in T : ~(<<y, x>> \in {p \in Nat \X Nat : p[1] < p[2]})
  BY ONLY <1>2, <1>3, Zenon
<1> HIDE <1>2, <1>3
<1>5. \A y \in T : ~(y < x)
  BY <1>4
<1> QED
  BY <1>5

(* ... so that what holds of 0 and of each successor holds of all: the     *)
(* induction is on the set of the numbers it holds of.                     *)
LEMMA Induct ==
    ASSUME NEW S, 0 \in S, \A n \in Nat : n \in S => n + 1 \in S
    PROVE  \A n \in Nat : n \in S
<1> SUFFICES ASSUME Nat \ S # {} PROVE FALSE
  OBVIOUS
<1>1. PICK x \in Nat \ S : \A y \in Nat \ S : x <= y
  BY LeastNat
<1> QED
  BY <1>1, x - 1 \in Nat \/ x = 0

-----------------------------------------------------------------------------
(* They are positive, and each is twice the one before; the prover computes *)
(* no power beyond 2^39.                                                   *)
LEMMA Powers ==
    ASSUME NEW n \in 0 .. 38
    PROVE  2^n \in Nat \ {0} /\ 2^(n + 1) = 2 * 2^n
<1>0. 2^0 \in Nat \ {0} /\ 2^(0 + 1) = 2 * 2^0
  BY SMT
<1>1. 2^1 \in Nat \ {0} /\ 2^(1 + 1) = 2 * 2^1
  BY SMT
<1>2. 2^2 \in Nat \ {0} /\ 2^(2 + 1) = 2 * 2^2
  BY SMT
<1>3. 2^3 \in Nat \ {0} /\ 2^(3 + 1) = 2 * 2^3
  BY SMT
<1>4. 2^4 \in Nat \ {0} /\ 2^(4 + 1) = 2 * 2^4
  BY SMT
<1>5. 2^5 \in Nat \ {0} /\ 2^(5 + 1) = 2 * 2^5
  BY SMT
<1>6. 2^6 \in Nat \ {0} /\ 2^(6 + 1) = 2 * 2^6
  BY SMT
<1>7. 2^7 \in Nat \ {0} /\ 2^(7 + 1) = 2 * 2^7
  BY SMT
<1>8. 2^8 \in Nat \ {0} /\ 2^(8 + 1) = 2 * 2^8
  BY SMT
<1>9. 2^9 \in Nat \ {0} /\ 2^(9 + 1) = 2 * 2^9
  BY SMT
<1>10. 2^10 \in Nat \ {0} /\ 2^(10 + 1) = 2 * 2^10
  BY SMT
<1>11. 2^11 \in Nat \ {0} /\ 2^(11 + 1) = 2 * 2^11
  BY SMT
<1>12. 2^12 \in Nat \ {0} /\ 2^(12 + 1) = 2 * 2^12
  BY SMT
<1>13. 2^13 \in Nat \ {0} /\ 2^(13 + 1) = 2 * 2^13
  BY SMT
<1>14. 2^14 \in Nat \ {0} /\ 2^(14 + 1) = 2 * 2^14
  BY SMT
<1>15. 2^15 \in Nat \ {0} /\ 2^(15 + 1) = 2 * 2^15
  BY SMT
<1>16. 2^16 \in Nat \ {0} /\ 2^(16 + 1) = 2 * 2^16
  BY SMT
<1>17. 2^17 \in Nat \ {0} /\ 2^(17 + 1) = 2 * 2^17
  BY SMT
<1>18. 2^18 \in Nat \ {0} /\ 2^(18 + 1) = 2 * 2^18
  BY SMT
<1>19. 2^19 \in Nat \ {0} /\ 2^(19 + 1) = 2 * 2^19
  BY SMT
<1>20. 2^20 \in Nat \ {0} /\ 2^(20 + 1) = 2 * 2^20
  BY SMT
<1>21. 2^21 \in Nat \ {0} /\ 2^(21 + 1) = 2 * 2^21
  BY SMT
<1>22. 2^22 \in Nat \ {0} /\ 2^(22 + 1) = 2 * 2^22
  BY SMT
<1>23. 2^23 \in Nat \ {0} /\ 2^(23 + 1) = 2 * 2^23
  BY SMT
<1>24. 2^24 \in Nat \ {0} /\ 2^(24 + 1) = 2 * 2^24
  BY SMT
<1>25. 2^25 \in Nat \ {0} /\ 2^(25 + 1) = 2 * 2^25
  BY SMT
<1>26. 2^26 \in Nat \ {0} /\ 2^(26 + 1) = 2 * 2^26
  BY SMT
<1>27. 2^27 \in Nat \ {0} /\ 2^(27 + 1) = 2 * 2^27
  BY SMT
<1>28. 2^28 \in Nat \ {0} /\ 2^(28 + 1) = 2 * 2^28
  BY SMT
<1>29. 2^29 \in Nat \ {0} /\ 2^(29 + 1) = 2 * 2^29
  BY SMT
<1>30. 2^30 \in Nat \ {0} /\ 2^(30 + 1) = 2 * 2^30
  BY SMT
<1>31. 2^31 \in Nat \ {0} /\ 2^(31 + 1) = 2 * 2^31
  BY SMT
<1>32. 2^32 \in Nat \ {0} /\ 2^(32 + 1) = 2 * 2^32
  BY SMT
<1>33. 2^33 \in Nat \ {0} /\ 2^(33 + 1) = 2 * 2^33
  BY SMT
<1>34. 2^34 \in Nat \ {0} /\ 2^(34 + 1) = 2 * 2^34
  BY SMT
<1>35. 2^35 \in Nat \ {0} /\ 2^(35 + 1) = 2 * 2^35
  BY SMT
<1>36. 2^36 \in Nat \ {0} /\ 2^(36 + 1) = 2 * 2^36
  BY SMT
<1>37. 2^37 \in Nat \ {0} /\ 2^(37 + 1) = 2 * 2^37
  BY SMT
<1>38. 2^38 \in Nat \ {0} /\ 2^(38 + 1) = 2 * 2^38
  BY SMT
<1>39. CASE n \in 0 .. 7
  <2>1. n = 0 \/ n = 1 \/ n = 2 \/ n = 3 \/ n = 4 \/ n = 5 \/ n = 6 \/ n = 7
    BY <1>39, SMT
  <2> QED
    BY <2>1, <1>0, <1>1, <1>2, <1>3, <1>4, <1>5, <1>6, <1>7, Zenon
<1>40. CASE n \in 8 .. 15
  <2>1. n = 8 \/ n = 9 \/ n = 10 \/ n = 11 \/ n = 12 \/ n = 13 \/ n = 14 \/ n = 15
    BY <1>40, SMT
  <2> QED
    BY <2>1, <1>8, <1>9, <1>10, <1>11, <1>12, <1>13, <1>14, <1>15, Zenon
<1>41. CASE n \in 16 .. 23
  <2>1. n = 16 \/ n = 17 \/ n = 18 \/ n = 19 \/ n = 20 \/ n = 21 \/ n = 22 \/ n = 23
    BY <1>41, SMT
  <2> QED
    BY <2>1, <1>16, <1>17, <1>18, <1>19, <1>20, <1>21, <1>22, <1>23, Zenon
<1>42. CASE n \in 24 .. 31
  <2>1. n = 24 \/ n = 25 \/ n = 26 \/ n = 27 \/ n = 28 \/ n = 29 \/ n = 30 \/ n = 31
    BY <1>42, SMT
  <2> QED
    BY <2>1, <1>24, <1>25, <1>26, <1>27, <1>28, <1>29, <1>30, <1>31, Zenon
<1>43. CASE n \in 32 .. 38
  <2>1. n = 32 \/ n = 33 \/ n = 34 \/ n = 35 \/ n = 36 \/ n = 37 \/ n = 38
    BY <1>43, SMT
  <2> QED
    BY <2>1, <1>32, <1>33, <1>34, <1>35, <1>36, <1>37, <1>38, Zenon
<1> QED
  BY <1>39, <1>40, <1>41, <1>42, <1>43, SMT

-----------------------------------------------------------------------------
(* Quotient and remainder.                                                 *)
LEMMA Division ==
    ASSUME NEW n \in Nat, NEW d \in Nat \ {0}
    PROVE  /\ n \div d \in Nat
           /\ n % d \in 0 .. d - 1
           /\ n = (n \div d) * d + (n % d)
<1> DEFINE q == n \div d
           r == n % d
<1>1. q \in Nat /\ r \in 0 .. d - 1
  OBVIOUS
<1>2. r = n - d * q
  BY SMT
<1> HIDE DEF q, r
<1>3. d * q \in Int /\ d * q = q * d
  BY <1>1
<1>4. n = q * d + r
  BY <1>1, <1>2, <1>3
<1> QED
  BY <1>1, <1>4 DEF q, r

(* They are the only ones.                                                 *)
LEMMA UniqueDivision ==
    ASSUME NEW n \in Nat, NEW d \in Nat \ {0},
           NEW c \in Nat, NEW r \in 0 .. d - 1, n = c * d + r
    PROVE  n \div d = c /\ n % d = r
  BY SMT

(* A remainder and the next digit are the remainder of both.               *)
LEMMA TwoDigits ==
    ASSUME NEW n \in Nat, NEW d \in Nat \ {0}, NEW e \in Nat \ {0}
    PROVE  n % (e * d) = ((n \div d) % e) * d + (n % d)
<1> DEFINE q == n \div d
           r == n % d
           q2 == q \div e
           r2 == q % e
<1>1. q \in Nat /\ r \in 0 .. d - 1 /\ n = q * d + r
  BY Division
<1>2. q2 \in Nat /\ r2 \in 0 .. e - 1 /\ q = q2 * e + r2
  BY <1>1, Division
<1> HIDE DEF q, r, q2, r2
<1>3. e * d \in Nat \ {0} /\ r2 * d \in Nat
  BY <1>2
<1>4. r2 * d + r \in 0 .. e * d - 1
  <2>1. r2 + 1 <= e
    BY <1>2
  <2>2. (r2 + 1) * d <= e * d
    BY <1>2, <2>1
  <2>3. (r2 + 1) * d = r2 * d + d
    BY <1>2
  <2> QED
    BY <1>1, <1>3, <2>2, <2>3
<1>5. n = q2 * (e * d) + (r2 * d + r)
  <2>1. q * d = (q2 * e) * d + r2 * d
    BY <1>1, <1>2
  <2>2. (q2 * e) * d = q2 * (e * d)
    BY <1>2
  <2>3. q2 * (e * d) \in Int /\ r2 * d \in Int /\ q * d \in Int
    BY <1>1, <1>2
  <2> DEFINE X == q2 * (e * d)
             Y == r2 * d
             Z == q * d
  <2>4. X \in Int /\ Y \in Int /\ Z = X + Y /\ n = Z + r /\ r \in Int
    BY <1>1, <2>1, <2>2, <2>3
  <2> HIDE DEF X, Y, Z
  <2>5. n = X + (Y + r)
    BY <2>4
  <2> QED
    BY <2>5 DEF X, Y
<1>6. n % (e * d) = r2 * d + r
  BY <1>2, <1>3, <1>4, <1>5, UniqueDivision
<1> QED
  BY <1>6 DEF q, r, r2

(* Exponents add up.                                                       *)
LEMMA PowerSum ==
    ASSUME NEW m \in 0 .. 39, NEW k \in 0 .. 39, m + k <= 39
    PROVE  2^(m + k) = 2^k * 2^m
<1> DEFINE Sums == {n \in Nat : m + n <= 39 => 2^(m + n) = 2^n * 2^m}
<1>1. 2^m \in Int
  BY SMT
<1>2. 0 \in Sums
  <2>1. 2^0 = 1 /\ m + 0 = m
    BY SMT
  <2> DEFINE P == 2^m
  <2> HIDE DEF P
  <2>2. 1 * P = P
    BY <1>1 DEF P
  <2>3. 2^(m + 0) = 2^0 * 2^m
    BY <2>1, <2>2, Zenon DEF P
  <2> QED
    BY <2>3
<1>3. ASSUME NEW n \in Nat, n \in Sums PROVE n + 1 \in Sums
  <2> SUFFICES ASSUME m + (n + 1) <= 39 PROVE 2^(m + (n + 1)) = 2^(n + 1) * 2^m
    OBVIOUS
  <2>1. m + n \in 0 .. 38 /\ n \in 0 .. 38 /\ m + (n + 1) = (m + n) + 1
    OBVIOUS
  <2>2. 2^((m + n) + 1) = 2 * 2^(m + n) /\ 2^(n + 1) = 2 * 2^n /\ 2^n \in Nat
    BY <2>1, Powers, Zenon
  <2>3. 2^(m + n) = 2^n * 2^m
    BY <1>3, <2>1
  <2> DEFINE P == 2^m
             Q == 2^n
  <2>4. P \in Int /\ Q \in Int
    BY <1>1, <2>2
  <2> HIDE DEF P, Q
  <2>5. 2 * (Q * P) = (2 * Q) * P
    BY <2>4
  <2>6. 2^((m + n) + 1) = 2 * (Q * P) /\ 2^(n + 1) = 2 * Q
    BY <2>2, <2>3, Zenon DEF P, Q
  <2> QED
    BY <2>1, <2>5, <2>6, Zenon DEF P
<1> HIDE DEF Sums
<1>4. \A n \in Nat : n \in Sums
  BY <1>2, <1>3, Induct, Zenon
<1>5. k \in Sums
  BY <1>4
<1> QED
  BY <1>5 DEF Sums

(* They grow with the exponent.                                            *)
LEMMA PowerOrder ==
    ASSUME NEW m \in 0 .. 39, NEW n \in 0 .. 39, m <= n
    PROVE  /\ 2^m \in Nat \ {0} /\ 2^n \in Nat \ {0}
           /\ 2^m <= 2^n
           /\ m < n => 2^m < 2^n
<1>1. ASSUME NEW e \in 0 .. 39 PROVE 2^e \in Nat \ {0} /\ (e > 0 => 2^e >= 2)
  <2>1. 2^0 = 1
    BY SMT
  <2>2. CASE e = 0
    <3>1. 2^e = 1
      BY <2>1, <2>2, Zenon
    <3> QED
      BY <3>1, <2>2
  <2>3. CASE e # 0
    <3>1. PICK d \in 0 .. 38 : e = d + 1
      BY <2>3, e - 1 \in 0 .. 38, e = (e - 1) + 1
    <3>2. 2^d \in Nat \ {0} /\ 2^(d + 1) = 2 * 2^d
      BY <3>1, Powers, Zenon
    <3> DEFINE P == 2^d
    <3>3. P \in Nat \ {0} /\ 2^e = 2 * P
      BY <3>1, <3>2, Zenon
    <3> HIDE DEF P
    <3> QED
      BY <3>3
  <2> QED
    BY <2>2, <2>3
<1>2. n - m \in 0 .. 39 /\ m + (n - m) <= 39 /\ m + (n - m) = n /\ (m < n => n - m > 0)
  OBVIOUS
<1>3. 2^(m + (n - m)) = 2^(n - m) * 2^m
  BY <1>2, PowerSum, Zenon
<1>4. 2^m \in Nat \ {0} /\ 2^n \in Nat \ {0}
  BY <1>1, Zenon
<1>5. 2^(n - m) \in Nat \ {0} /\ (n - m > 0 => 2^(n - m) >= 2)
  BY <1>1, <1>2, Zenon
<1>6. 2^n = 2^(n - m) * 2^m
  BY <1>2, <1>3, Zenon
<1> DEFINE P == 2^m
           Q == 2^n
           R == 2^(n - m)
<1>7. P \in Nat \ {0} /\ Q \in Nat \ {0} /\ R \in Nat \ {0} /\ (m < n => R >= 2) /\ Q = R * P
  BY <1>2, <1>4, <1>5, <1>6, Zenon
<1> HIDE DEF P, Q, R
<1>8. P <= Q /\ (m < n => P < Q)
  BY <1>7
<1> QED
  BY <1>7, <1>8 DEF P, Q

(* And faster than it.                                                     *)
LEMMA PowerAbove ==
    ASSUME NEW n \in 0 .. 39
    PROVE  2^n \in Nat \ {0} /\ n < 2^n
<1> DEFINE Above == {k \in Nat : k <= 39 => 2^k \in Nat \ {0} /\ k < 2^k}
<1>1. 0 \in Above
  <2>1. 2^0 \in Nat \ {0} /\ 0 < 2^0
    BY SMT
  <2> QED
    BY <2>1
<1>2. ASSUME NEW k \in Nat, k \in Above PROVE k + 1 \in Above
  <2> SUFFICES ASSUME k + 1 <= 39 PROVE 2^(k + 1) \in Nat \ {0} /\ k + 1 < 2^(k + 1)
    OBVIOUS
  <2>1. k \in 0 .. 38 /\ k < 2^k
    BY <1>2
  <2>2. 2^k \in Nat \ {0} /\ 2^(k + 1) = 2 * 2^k
    BY <2>1, Powers, Zenon
  <2> DEFINE P == 2^k
             Q == 2^(k + 1)
  <2>3. P \in Nat \ {0} /\ Q = 2 * P /\ k < P
    BY <2>1, <2>2, Zenon
  <2> HIDE DEF P, Q
  <2>4. Q \in Nat \ {0} /\ k + 1 < Q
    BY <2>3
  <2> QED
    BY <2>4 DEF Q
<1> HIDE DEF Above
<1>3. \A k \in Nat : k \in Above
  BY <1>1, <1>2, Induct, Zenon
<1>4. n \in Above
  BY <1>3
<1> QED
  BY <1>4 DEF Above

-----------------------------------------------------------------------------
(* Appending a value above all others keeps an array normalised.           *)
LEMMA AppendGreatest ==
    ASSUME NEW arr \in Seq(Nat), Ascending(arr),
           NEW x \in Nat, \A k \in 1 .. Len(arr) : arr[k] < x
    PROVE  /\ Append(arr, x) \in Seq(Nat)
           /\ Len(Append(arr, x)) = Len(arr) + 1
           /\ Ascending(Append(arr, x))
           /\ Range(Append(arr, x)) = Range(arr) \cup {x}
           /\ \A y \in Nat : x < y =>
                 \A k \in 1 .. Len(Append(arr, x)) : Append(arr, x)[k] < y
<1> DEFINE more == Append(arr, x)
<1>1. /\ more \in Seq(Nat)
      /\ Len(more) = Len(arr) + 1
      /\ \A k \in 1 .. Len(arr) : more[k] = arr[k]
      /\ more[Len(arr) + 1] = x
      /\ Len(arr) \in Nat
      /\ \A k \in 1 .. Len(arr) : arr[k] \in Nat
  OBVIOUS
<1>2. DOMAIN more = 1 .. Len(arr) + 1 /\ DOMAIN arr = 1 .. Len(arr)
  BY <1>1
<1> HIDE DEF more
<1>3. Ascending(more)
  <2> SUFFICES ASSUME NEW i \in 1 .. Len(more), NEW j \in 1 .. Len(more), i < j
               PROVE  more[i] < more[j]
    BY DEF Ascending
  <2>0. i \in 1 .. Len(arr) + 1 /\ j \in 1 .. Len(arr) + 1
    BY <1>1
  <2>1. CASE j = Len(arr) + 1
    <3>1. i \in 1 .. Len(arr)
      BY <1>1, <2>0, <2>1
    <3> QED
      BY <1>1, <2>1, <3>1
  <2>2. CASE j # Len(arr) + 1
    <3>1. i \in 1 .. Len(arr) /\ j \in 1 .. Len(arr)
      <4>1. Len(arr) \in Nat
        BY <1>1
      <4>2. i \in 1 .. Len(arr) + 1 /\ j \in 1 .. Len(arr) + 1 /\ i < j
        BY <2>0
      <4> QED
        BY <4>1, <4>2, <2>2
    <3> QED
      BY <1>1, <3>1 DEF Ascending
  <2> QED
    BY <2>1, <2>2
<1>4. Range(more) = Range(arr) \cup {x}
  <2>1. Range(more) \subseteq Range(arr) \cup {x}
    <3> SUFFICES ASSUME NEW k \in 1 .. Len(arr) + 1
                 PROVE  more[k] \in Range(arr) \cup {x}
      BY <1>2 DEF Range
    <3>1. CASE k = Len(arr) + 1
      BY <1>1, <3>1
    <3>2. CASE k # Len(arr) + 1
      <4>1. k \in 1 .. Len(arr)
        BY <3>2, <1>1
      <4> QED
        BY <4>1, <1>1, <1>2 DEF Range
    <3> QED
      BY <3>1, <3>2
  <2>2. x \in Range(more)
    <3>1. Len(arr) + 1 \in DOMAIN more
      BY <1>1, <1>2
    <3> QED
      BY <3>1, <1>1 DEF Range
  <2>3. ASSUME NEW k \in 1 .. Len(arr) PROVE arr[k] \in Range(more)
    <3>1. k \in DOMAIN more
      BY <1>1, <1>2
    <3> QED
      BY <3>1, <1>1 DEF Range
  <2> QED
    BY <2>1, <2>2, <2>3, <1>2 DEF Range
<1>5. ASSUME NEW y \in Nat, x < y, NEW k \in 1 .. Len(more) PROVE more[k] < y
  <2>1. CASE k = Len(arr) + 1
    BY <1>1, <1>5, <2>1
  <2>2. CASE k # Len(arr) + 1
    <3>1. k \in 1 .. Len(arr)
      BY <1>1, <2>2
    <3>2. arr[k] < x /\ arr[k] \in Nat /\ more[k] = arr[k]
      BY <1>1, <3>1
    <3> QED
      BY <3>2, <1>5
  <2> QED
    BY <2>1, <2>2
<1> QED
  BY <1>1, <1>3, <1>4, <1>5 DEF more

-----------------------------------------------------------------------------
(* The equation that defines the state after a number of rounds has a     *)
(* solution: one for every finite number of rounds, and any two agree.     *)
LEMMA IterateFacts ==
    ASSUME NEW round, NEW start
    PROVE  /\ Iterate(round, start, 0) = start
           /\ \A n \in Nat : Iterate(round, start, n + 1) = round[Iterate(round, start, n)]
<1> DEFINE Upto(n, g) == g = [k \in 0 .. n |-> IF k = 0 THEN start ELSE round[g[k - 1]]]
<1>1. ASSUME NEW n \in Nat, NEW g, Upto(n, g)
      PROVE  g[0] = start /\ \A k \in 0 .. n : k # 0 => g[k] = round[g[k - 1]]
  BY <1>1
<1>2. \A n \in Nat : \E g : Upto(n, g)
  <2> DEFINE S == {n \in Nat : \E g : Upto(n, g)}
  <2>1. 0 \in S
    <3>1. Upto(0, [k \in 0 .. 0 |-> start])
      OBVIOUS
    <3> QED
      BY <3>1
  <2>2. ASSUME NEW n \in Nat, n \in S PROVE n + 1 \in S
    <3>1. PICK g : Upto(n, g)
      BY <2>2
    <3> DEFINE h == [k \in 0 .. n + 1 |-> IF k = 0 THEN start ELSE round[g[k - 1]]]
    <3>2. \A k \in 0 .. n : h[k] = g[k]
      <4> HIDE DEF Upto
      <4>1. g[0] = start /\ \A k \in 0 .. n : k # 0 => g[k] = round[g[k - 1]]
        BY <3>1, <1>1
      <4> QED
        BY <4>1
    <3>3. \A k \in 0 .. n + 1 : k # 0 => h[k - 1] = g[k - 1]
      BY <3>2
    <3>4. h = [k \in 0 .. n + 1 |-> IF k = 0 THEN start ELSE round[h[k - 1]]]
      BY <3>3
    <3> HIDE DEF h
    <3> QED
      BY <3>4
  <2> HIDE DEF S
  <2>3. \A n \in Nat : n \in S
    BY <2>1, <2>2, Induct
  <2> QED
    BY <2>3 DEF S
<1>3. ASSUME NEW n \in Nat, NEW m \in Nat, n <= m, NEW g, NEW h, Upto(n, g), Upto(m, h)
      PROVE  g[n] = h[n]
  <2> DEFINE S == {k \in Nat : k <= n => g[k] = h[k]}
  <2>0. /\ g[0] = start /\ \A k \in 0 .. n : k # 0 => g[k] = round[g[k - 1]]
        /\ h[0] = start /\ \A k \in 0 .. m : k # 0 => h[k] = round[h[k - 1]]
    <3> HIDE DEF Upto
    <3> QED
      BY <1>1, <1>3
  <2>1. 0 \in S
    BY <2>0
  <2>2. ASSUME NEW k \in Nat, k \in S PROVE k + 1 \in S
    <3> SUFFICES ASSUME k + 1 <= n PROVE g[k + 1] = h[k + 1]
      OBVIOUS
    <3>1. g[k] = h[k] 
      BY <2>2
    <3>2. k + 1 \in 0 .. n /\ k + 1 \in 0 .. m /\ k + 1 # 0 /\ (k + 1) - 1 = k
      BY <1>3
    <3> QED
      BY <3>1, <3>2, <2>0
  <2> HIDE DEF S
  <2>3. \A k \in Nat : k \in S
    BY <2>1, <2>2, Induct
  <2> QED
    BY <2>3 DEF S
<1> DEFINE part(n) == CHOOSE g : Upto(n, g)
           all == [n \in Nat |-> part(n)[n]]
<1>4. \A n \in Nat : Upto(n, part(n))
  BY <1>2
<1>5. all[0] = start /\ \A n \in Nat : all[n + 1] = round[all[n]]
  <2> HIDE DEF Upto, part
  <2>1. all[0] = start
    BY <1>4, <1>1
  <2>2. ASSUME NEW n \in Nat PROVE all[n + 1] = round[all[n]]
    <3>1. part(n + 1)[n + 1] = round[part(n + 1)[n]]
      <4>1. Upto(n + 1, part(n + 1))
        BY <1>4
      <4>2. n + 1 \in 0 .. n + 1 /\ n + 1 # 0 /\ (n + 1) - 1 = n
        OBVIOUS
      <4> QED
        BY <4>1, <4>2, <1>1
    <3>2. part(n)[n] = part(n + 1)[n]
      BY <1>3, <1>4
    <3> QED
      BY <3>1, <3>2
  <2> QED
    BY <2>1, <2>2
<1>6. \E f : f = [n \in Nat |-> IF n = 0 THEN start ELSE round[f[n - 1]]]
  <2> HIDE DEF all
  <2> DEFINE f == [n \in Nat |-> all[n]]
  <2>1. \A n \in Nat : f[n] = IF n = 0 THEN start ELSE round[f[n - 1]]
    <3> TAKE n \in Nat
    <3>1. CASE n = 0
      BY <3>1, <1>5
    <3>2. CASE n # 0
      <4>1. n - 1 \in Nat /\ (n - 1) + 1 = n
        BY <3>2
      <4> QED
        BY <4>1, <3>2, <1>5
    <3> QED
      BY <3>1, <3>2
  <2>2. f = [n \in Nat |-> IF n = 0 THEN start ELSE round[f[n - 1]]]
    BY <2>1
  <2> HIDE DEF f
  <2> QED
    BY <2>2
<1> DEFINE after == CHOOSE f : f = [n \in Nat |-> IF n = 0 THEN start ELSE round[f[n - 1]]]
<1>7. after = [n \in Nat |-> IF n = 0 THEN start ELSE round[after[n - 1]]]
  BY <1>6
<1>8. \A n \in Nat : Iterate(round, start, n) = after[n]
  BY DEF Iterate
<1> HIDE DEF after
<1>9. after[0] = start
  BY <1>7
<1>10. ASSUME NEW n \in Nat PROVE after[n + 1] = round[after[n]]
  <2>1. n + 1 \in Nat /\ n + 1 # 0 /\ (n + 1) - 1 = n
    OBVIOUS
  <2> QED
    BY <2>1, <1>7
<1> QED
  BY <1>8, <1>9, <1>10

(* The rule for a loop: what each round keeps holds after any number of    *)
(* rounds, and a size that every round lessens vanishes in as many rounds  *)
(* as it is large.                                                         *)
LEMMA LoopRule ==
    ASSUME NEW round, NEW start, NEW S, NEW size,
           start \in S,
           \A x \in S : /\ round[x] \in S
                        /\ size[x] \in Nat
                        /\ size[x] # 0 => size[round[x]] < size[x]
                        /\ size[x] = 0 => size[round[x]] = 0
    PROVE  \A n \in Nat : /\ Iterate(round, start, n) \in S
                          /\ size[start] <= n => size[Iterate(round, start, n)] = 0
<1> DEFINE at(n) == Iterate(round, start, n)
           T == {n \in Nat : /\ at(n) \in S
                             /\ size[at(n)] = 0 \/ size[at(n)] + n <= size[start]}
<1>1. at(0) = start /\ \A n \in Nat : at(n + 1) = round[at(n)]
  BY IterateFacts
<1> HIDE DEF at
<1>2. 0 \in T
  BY <1>1
<1>3. ASSUME NEW n \in Nat, n \in T PROVE n + 1 \in T
  <2>1. at(n) \in S /\ at(n + 1) = round[at(n)] /\ at(n + 1) \in S
    BY <1>1, <1>3
  <2>2. size[at(n)] \in Nat /\ size[at(n + 1)] \in Nat /\ size[start] \in Nat
    BY <2>1
  <2>3. CASE size[at(n)] = 0
    BY <2>1, <2>3
  <2>4. CASE size[at(n)] # 0
    <3>1. size[at(n + 1)] < size[at(n)] /\ size[at(n)] + n <= size[start]
      BY <2>1, <2>4, <1>3
    <3>2. size[at(n + 1)] + (n + 1) <= size[start]
      BY <3>1, <2>2
    <3> QED
      BY <3>2, <2>1
  <2> QED
    BY <2>3, <2>4
<1> HIDE DEF T
<1>4. \A n \in Nat : n \in T
  BY <1>2, <1>3, Induct
<1> QED
  <2> TAKE n \in Nat
  <2>1. at(n) \in S /\ (size[at(n)] = 0 \/ size[at(n)] + n <= size[start])
    BY <1>4 DEF T
  <2>2. size[at(n)] \in Nat /\ size[start] \in Nat
    BY <2>1
  <2>3. size[start] <= n => size[at(n)] = 0
    BY <2>1, <2>2
  <2> QED
    BY <2>1, <2>3 DEF at

(* The binary search ends at the number of elements within the mask.       *)
LEMMA LowCountCorrect ==
    ASSUME NEW arr \in Seq(Nat), Ascending(arr), NEW mask \in Nat
    PROVE  /\ LowCount(arr, mask) \in 0 .. Len(arr)
           /\ \A i \in 1 .. Len(arr) : i <= LowCount(arr, mask) <=> arr[i] <= mask
<1> DEFINE n == Len(arr)
           S == {b \in [l : 0 .. n, u : 0 .. n] :
                    /\ b.l <= b.u
                    /\ \A i \in 1 .. n : i <= b.l => arr[i] <= mask
                    /\ \A i \in 1 .. n : b.u < i => ~(arr[i] <= mask)}
           start == [l |-> 0, u |-> n]
           size == [b \in S |-> b.u - b.l]
           round == Probe(arr, mask)
<1>0. n \in Nat /\ (\A i \in 1 .. n : arr[i] \in Nat)
      /\ \A i, j \in 1 .. n : i < j => arr[i] < arr[j]
  BY DEF Ascending
<1>1. start \in S
  BY <1>0
<1>2. ASSUME NEW b \in S
      PROVE  /\ round[b] \in S
             /\ size[b] \in Nat
             /\ size[b] # 0 => size[round[b]] < size[b]
             /\ size[b] = 0 => size[round[b]] = 0
  <2> DEFINE i == (b.l + b.u) \div 2
  <2>0. /\ b.l \in 0 .. n /\ b.u \in 0 .. n /\ b.l <= b.u
        /\ b = [l |-> b.l, u |-> b.u]
        /\ \A k \in 1 .. n : k <= b.l => arr[k] <= mask
        /\ \A k \in 1 .. n : b.u < k => ~(arr[k] <= mask)
    OBVIOUS
  <2>1. b \in [l : Nat, u : Nat] /\ size[b] = b.u - b.l /\ size[b] \in Nat
    BY <2>0, <1>0
  <2>2. CASE b.l >= b.u
    <3>1. round[b] = b
      BY <2>1, <2>2 DEF Probe
    <3> QED
      BY <3>1, <2>0, <2>1, <2>2, <1>0
  <2>3. CASE b.l < b.u
    <3>0. i \in 0 .. n /\ b.l <= i /\ i < b.u /\ i + 1 \in 1 .. n
      BY <2>0, <2>3, <1>0
    <3>1. CASE arr[i + 1] <= mask
      <4> DEFINE c == [l |-> i + 1, u |-> b.u]
      <4>1. round[b] = c
        <5>1. b \in [l : Nat, u : Nat] /\ ~(b.l >= b.u)
          BY <2>0, <2>1, <2>3
        <5>2. round[b] = [b EXCEPT !.l = i + 1]
          BY <5>1, <3>1, Zenon DEF Probe
        <5> HIDE DEF i, round
        <5> QED
          BY <5>2, <2>1
      <4> HIDE DEF i
      <4>2. ASSUME NEW k \in 1 .. n, k <= i + 1 PROVE arr[k] <= mask
        <5>1. k = i + 1 \/ k < i + 1
          BY <4>2, <3>0, <1>0
        <5>2. arr[k] \in Nat /\ arr[i + 1] \in Nat
          BY <3>0, <1>0
        <5>3. k < i + 1 => arr[k] < arr[i + 1]
          BY <3>0, <1>0
        <5> QED
          BY ONLY <5>1, <5>2, <5>3, <3>1, mask \in Nat
      <4>3. c \in S
        BY <4>2, <2>0, <3>0, <1>0
      <4>4. size[c] = b.u - (i + 1)
        BY <4>3
      <4>5. b.u - (i + 1) \in Nat /\ b.u - (i + 1) < b.u - b.l /\ b.u - b.l # 0
        BY <2>0, <3>0
      <4> HIDE DEF c, S, size, round
      <4> QED
        BY <4>1, <4>3, <4>4, <4>5, <2>1
    <3>2. CASE ~(arr[i + 1] <= mask)
      <4> DEFINE c == [l |-> b.l, u |-> i]
      <4>1. round[b] = c
        <5>1. b \in [l : Nat, u : Nat] /\ ~(b.l >= b.u)
          BY <2>0, <2>1, <2>3
        <5>2. round[b] = [b EXCEPT !.u = i]
          BY <5>1, <3>2, Zenon DEF Probe
        <5> HIDE DEF i, round
        <5> QED
          BY <5>2, <2>1
      <4> HIDE DEF i
      <4>2. ASSUME NEW k \in 1 .. n, i < k PROVE ~(arr[k] <= mask)
        <5>1. k = i + 1 \/ i + 1 < k
          BY <4>2, <3>0, <1>0
        <5>2. arr[k] \in Nat /\ arr[i + 1] \in Nat
          BY <3>0, <1>0
        <5>3. i + 1 < k => arr[i + 1] < arr[k]
          BY <3>0, <1>0
        <5> QED
          BY ONLY <5>1, <5>2, <5>3, <3>2, mask \in Nat
      <4>3. c \in S
        BY <4>2, <2>0, <3>0, <1>0
      <4>4. size[c] = i - b.l
        BY <4>3
      <4>5. i - b.l \in Nat /\ i - b.l < b.u - b.l /\ b.u - b.l # 0
        BY <2>0, <3>0
      <4> HIDE DEF c, S, size, round
      <4> QED
        BY <4>1, <4>3, <4>4, <4>5, <2>1
    <3> QED
      BY <3>1, <3>2
  <2> QED
    BY <2>0, <2>2, <2>3
<1>3. size[start] = n
  BY <1>0, <1>1
<1> DEFINE last == Iterate(round, start, n)
<1> HIDE DEF S, start, size, round
<1>4. last \in S /\ size[last] = 0
  <2>1. \A x \in S : /\ round[x] \in S
                     /\ size[x] \in Nat
                     /\ size[x] # 0 => size[round[x]] < size[x]
                     /\ size[x] = 0 => size[round[x]] = 0
    BY <1>2
  <2>2. \A k \in Nat : /\ Iterate(round, start, k) \in S
                       /\ size[start] <= k => size[Iterate(round, start, k)] = 0
    BY <1>1, <2>1, LoopRule, Zenon
  <2> QED
    BY <2>2, <1>0, <1>3
<1>5. LowCount(arr, mask) = last.u
  BY DEF LowCount, start, round
<1> HIDE DEF last
<1>6. last.l = last.u /\ last.u \in 0 .. n
  BY <1>4 DEF S, size
<1> QED
  BY <1>0, <1>4, <1>5, <1>6 DEF S

(* What the merge has written of two halves when it has read i and j.      *)
Taken(v1, v2, i, j) == {v1[k] : k \in 1 .. i} \cup {v2[k] : k \in 1 .. j}

(* Where the merge can stand.                                              *)
MergeStates(v1, v2) ==
    {m \in [i : 0 .. Len(v1), j : 0 .. Len(v2), dest : Seq(Nat)] :
        /\ Ascending(m.dest)
        /\ Range(m.dest) = Taken(v1, v2, m.i, m.j)
        /\ m.i < Len(v1) => \A k \in 1 .. Len(m.dest) : m.dest[k] < v1[m.i + 1]
        /\ m.j < Len(v2) => \A k \in 1 .. Len(m.dest) : m.dest[k] < v2[m.j + 1]}

LEMMA MergeWrites ==
    ASSUME NEW v1 \in Seq(Nat), NEW v2 \in Seq(Nat), NEW m \in MergeStates(v1, v2),
           NEW i \in 0 .. Len(v1), NEW j \in 0 .. Len(v2), NEW x \in Nat,
           Taken(v1, v2, i, j) = Taken(v1, v2, m.i, m.j) \cup {x},
           \A k \in 1 .. Len(m.dest) : m.dest[k] < x,
           i < Len(v1) => x < v1[i + 1],
           j < Len(v2) => x < v2[j + 1]
    PROVE  [i |-> i, j |-> j, dest |-> Append(m.dest, x)] \in MergeStates(v1, v2)
<1> DEFINE dest == m.dest
           c == [i |-> i, j |-> j, dest |-> Append(dest, x)]
<1>1. dest \in Seq(Nat) /\ Ascending(dest) /\ Range(dest) = Taken(v1, v2, m.i, m.j)
  BY DEF MergeStates
<1>2. \A k \in 1 .. Len(dest) : dest[k] < x
  OBVIOUS
<1> HIDE DEF dest
<1>3. /\ Append(dest, x) \in Seq(Nat)
      /\ Ascending(Append(dest, x))
      /\ Range(Append(dest, x)) = Range(dest) \cup {x}
      /\ \A y \in Nat : x < y => \A k \in 1 .. Len(Append(dest, x)) : Append(dest, x)[k] < y
  BY <1>1, <1>2, AppendGreatest
<1>4. /\ i < Len(v1) => v1[i + 1] \in Nat
      /\ j < Len(v2) => v2[j + 1] \in Nat
  OBVIOUS
<1> DEFINE more == Append(dest, x)
<1> HIDE DEF more
<1>5. /\ i < Len(v1) => \A k \in 1 .. Len(more) : more[k] < v1[i + 1]
      /\ j < Len(v2) => \A k \in 1 .. Len(more) : more[k] < v2[j + 1]
  BY <1>3, <1>4 DEF more
<1>6. more \in Seq(Nat) /\ Ascending(more) /\ Range(more) = Taken(v1, v2, i, j)
  BY <1>1, <1>3 DEF more
<1>7. [i |-> i, j |-> j, dest |-> more] \in MergeStates(v1, v2)
  BY <1>5, <1>6 DEF MergeStates
<1> QED
  BY <1>7 DEF more, dest

(* A round of the merge.                                                   *)
LEMMA MergeRound ==
    ASSUME NEW v1 \in Seq(Nat), NEW v2 \in Seq(Nat), Ascending(v1), Ascending(v2),
           NEW m \in MergeStates(v1, v2), NEW c, c = WriteHead(v1, v2)[m]
    PROVE  /\ c \in MergeStates(v1, v2)
           /\ \/ c = m /\ m.i = Len(v1) /\ m.j = Len(v2)
              \/ c.i + c.j > m.i + m.j
<1>0. /\ m.i \in 0 .. Len(v1) /\ m.j \in 0 .. Len(v2) /\ m.dest \in Seq(Nat)
      /\ m \in [i : Nat, j : Nat, dest : Seq(Nat)]
      /\ m.i < Len(v1) => \A k \in 1 .. Len(m.dest) : m.dest[k] < v1[m.i + 1]
      /\ m.j < Len(v2) => \A k \in 1 .. Len(m.dest) : m.dest[k] < v2[m.j + 1]
  BY DEF MergeStates
<1> DEFINE i == m.i
           j == m.j
           head1 == v1[i + 1]
           head2 == v2[j + 1]
<1>1. i < Len(v1) =>
         /\ i + 1 \in 0 .. Len(v1)
         /\ head1 \in Nat
         /\ i + 1 < Len(v1) => head1 < v1[(i + 1) + 1] /\ v1[(i + 1) + 1] \in Nat
         /\ {v1[k] : k \in 1 .. i + 1} = {v1[k] : k \in 1 .. i} \cup {head1}
  <2> SUFFICES ASSUME i < Len(v1)
               PROVE  /\ i + 1 \in 0 .. Len(v1)
                      /\ head1 \in Nat
                      /\ i + 1 < Len(v1) => head1 < v1[(i + 1) + 1] /\ v1[(i + 1) + 1] \in Nat
                      /\ {v1[k] : k \in 1 .. i + 1} = {v1[k] : k \in 1 .. i} \cup {head1}
    OBVIOUS
  <2>1. i + 1 \in 1 .. Len(v1) /\ (i + 1 < Len(v1) => (i + 1) + 1 \in 1 .. Len(v1))
    BY <1>0
  <2>2. i + 1 < Len(v1) => head1 < v1[(i + 1) + 1]
    BY <2>1, <1>0 DEF Ascending
  <2>3. \A k : k \in 1 .. i + 1 <=> k \in 1 .. i \/ k = i + 1
    BY <1>0
  <2>4. {v1[k] : k \in 1 .. i + 1} = {v1[k] : k \in 1 .. i} \cup {head1}
    BY ONLY <2>3
  <2>5. head1 \in Nat /\ (i + 1 < Len(v1) => v1[(i + 1) + 1] \in Nat)
    BY <2>1
  <2>6. i + 1 \in 0 .. Len(v1)
    BY <2>1
  <2> QED
    BY <2>2, <2>4, <2>5, <2>6, Zenon
<1>2. j < Len(v2) =>
         /\ j + 1 \in 0 .. Len(v2)
         /\ head2 \in Nat
         /\ j + 1 < Len(v2) => head2 < v2[(j + 1) + 1] /\ v2[(j + 1) + 1] \in Nat
         /\ {v2[k] : k \in 1 .. j + 1} = {v2[k] : k \in 1 .. j} \cup {head2}
  <2> SUFFICES ASSUME j < Len(v2)
               PROVE  /\ j + 1 \in 0 .. Len(v2)
                      /\ head2 \in Nat
                      /\ j + 1 < Len(v2) => head2 < v2[(j + 1) + 1] /\ v2[(j + 1) + 1] \in Nat
                      /\ {v2[k] : k \in 1 .. j + 1} = {v2[k] : k \in 1 .. j} \cup {head2}
    OBVIOUS
  <2>1. j + 1 \in 1 .. Len(v2) /\ (j + 1 < Len(v2) => (j + 1) + 1 \in 1 .. Len(v2))
    BY <1>0
  <2>2. j + 1 < Len(v2) => head2 < v2[(j + 1) + 1]
    BY <2>1, <1>0 DEF Ascending
  <2>3. \A k : k \in 1 .. j + 1 <=> k \in 1 .. j \/ k = j + 1
    BY <1>0
  <2>4. {v2[k] : k \in 1 .. j + 1} = {v2[k] : k \in 1 .. j} \cup {head2}
    BY ONLY <2>3
  <2>5. head2 \in Nat /\ (j + 1 < Len(v2) => v2[(j + 1) + 1] \in Nat)
    BY <2>1
  <2>6. j + 1 \in 0 .. Len(v2)
    BY <2>1
  <2> QED
    BY <2>2, <2>4, <2>5, <2>6, Zenon
<1>3. CASE ~(i < Len(v1)) /\ ~(j < Len(v2))
  <2>1. c = m
    BY <1>0, <1>3 DEF WriteHead
  <2> QED
    BY <1>0, <1>3, <2>1
<1>4. CASE i < Len(v1) /\ (j < Len(v2) => head1 < head2)
  <2>1. c = [i |-> i + 1, j |-> j, dest |-> Append(m.dest, head1)]
    BY <1>0, <1>1, <1>2, <1>4 DEF WriteHead
  <2>2. Taken(v1, v2, i + 1, j) = Taken(v1, v2, i, j) \cup {head1}
    BY <1>1, <1>4 DEF Taken
  <2> HIDE DEF head1, head2
  <2>3. c \in MergeStates(v1, v2)
    <3>1. \A k \in 1 .. Len(m.dest) : m.dest[k] < head1
      BY <1>0, <1>4 DEF head1
    <3>2. i + 1 \in 0 .. Len(v1) /\ j \in 0 .. Len(v2) /\ head1 \in Nat
          /\ (i + 1 < Len(v1) => head1 < v1[(i + 1) + 1]) /\ (j < Len(v2) => head1 < v2[j + 1])
      BY <1>0, <1>1, <1>4 DEF head1, head2
    <3>3. [i |-> i + 1, j |-> j, dest |-> Append(m.dest, head1)] \in MergeStates(v1, v2)
      BY <2>2, <3>1, <3>2, MergeWrites
    <3> QED
      BY <2>1, <3>3, Zenon
  <2> QED
    BY <2>1, <2>3, <1>0
<1>5. CASE j < Len(v2) /\ (i < Len(v1) => head2 < head1)
  <2>1. c = [i |-> i, j |-> j + 1, dest |-> Append(m.dest, head2)]
    <3>1. i < Len(v1) => ~(head1 < head2)
      BY <1>1, <1>2, <1>5
    <3>2. c = WriteHead(v1, v2)[m] /\ m \in [i : Nat, j : Nat, dest : Seq(Nat)]
      BY <1>0
    <3> HIDE DEF head1, head2
    <3> QED
      BY <3>1, <3>2, <1>5, Zenon DEF WriteHead, head1, head2
  <2>2. Taken(v1, v2, i, j + 1) = Taken(v1, v2, i, j) \cup {head2}
    BY <1>2, <1>5 DEF Taken
  <2> HIDE DEF head1, head2
  <2>3. c \in MergeStates(v1, v2)
    <3>1. \A k \in 1 .. Len(m.dest) : m.dest[k] < head2
      BY <1>0, <1>5 DEF head2
    <3>2. i \in 0 .. Len(v1) /\ j + 1 \in 0 .. Len(v2) /\ head2 \in Nat
          /\ (i < Len(v1) => head2 < v1[i + 1]) /\ (j + 1 < Len(v2) => head2 < v2[(j + 1) + 1])
      BY <1>0, <1>2, <1>5 DEF head1, head2
    <3>3. [i |-> i, j |-> j + 1, dest |-> Append(m.dest, head2)] \in MergeStates(v1, v2)
      BY <2>2, <3>1, <3>2, MergeWrites
    <3> QED
      BY <2>1, <3>3, Zenon
  <2> QED
    BY <2>1, <2>3, <1>0
<1>6. CASE i < Len(v1) /\ j < Len(v2) /\ head1 = head2
  <2>1. c = [i |-> i + 1, j |-> j + 1, dest |-> Append(m.dest, head1)]
    <3>1. ~(head1 < head2) /\ ~(head2 < head1)
      BY <1>1, <1>6
    <3> QED
      BY <3>1, <1>0, <1>6 DEF WriteHead
  <2>2. Taken(v1, v2, i + 1, j + 1) = Taken(v1, v2, i, j) \cup {head1}
    BY <1>1, <1>2, <1>6 DEF Taken
  <2> HIDE DEF head1, head2
  <2>3. c \in MergeStates(v1, v2)
    <3>1. \A k \in 1 .. Len(m.dest) : m.dest[k] < head1
      BY <1>0, <1>6 DEF head1
    <3>2. i + 1 \in 0 .. Len(v1) /\ j + 1 \in 0 .. Len(v2) /\ head1 \in Nat
          /\ (i + 1 < Len(v1) => head1 < v1[(i + 1) + 1])
          /\ (j + 1 < Len(v2) => head1 < v2[(j + 1) + 1])
      BY <1>0, <1>1, <1>2, <1>6 DEF head1, head2
    <3>3. [i |-> i + 1, j |-> j + 1, dest |-> Append(m.dest, head1)] \in MergeStates(v1, v2)
      BY <2>2, <3>1, <3>2, MergeWrites
    <3> QED
      BY <2>1, <3>3, Zenon
  <2> QED
    BY <2>1, <2>3, <1>0
<1> QED
  BY <1>1, <1>2, <1>3, <1>4, <1>5, <1>6

(* The merge of two ascending arrays is the ascending array of both.       *)
LEMMA MergeCorrect ==
    ASSUME NEW v1 \in Seq(Nat), NEW v2 \in Seq(Nat), Ascending(v1), Ascending(v2)
    PROVE  /\ MergeHalves(v1, v2) \in Seq(Nat)
           /\ Ascending(MergeHalves(v1, v2))
           /\ Range(MergeHalves(v1, v2)) = Range(v1) \cup Range(v2)
<1> DEFINE S == MergeStates(v1, v2)
           n == Len(v1) + Len(v2)
           start == [i |-> 0, j |-> 0, dest |-> <<>>]
           size == [m \in S |-> n - m.i - m.j]
           round == WriteHead(v1, v2)
           last == Iterate(round, start, n)
<1>0. Len(v1) \in Nat /\ Len(v2) \in Nat /\ n \in Nat
  OBVIOUS
<1>1. start \in S
  <2>1. Ascending(<<>>) /\ Range(<<>>) = {} /\ <<>> \in Seq(Nat) /\ Len(<<>>) = 0
    BY DEF Ascending, Range
  <2>2. Taken(v1, v2, 0, 0) = {}
    <3>1. 1 .. 0 = {}
      OBVIOUS
    <3> QED
      BY <3>1 DEF Taken
  <2>3. 0 \in 0 .. Len(v1) /\ 0 \in 0 .. Len(v2)
    BY <1>0
  <2>4. \A k \in 1 .. Len(<<>>) : FALSE
    BY <2>1
  <2> HIDE DEF S
  <2>5. start \in [i : 0 .. Len(v1), j : 0 .. Len(v2), dest : Seq(Nat)]
        /\ start.i = 0 /\ start.j = 0 /\ start.dest = <<>>
    BY <2>1, <2>3
  <2> HIDE DEF start
  <2> QED
    BY <2>1, <2>2, <2>4, <2>5 DEF MergeStates, S
<1>2. \A m \in S : m.i \in 0 .. Len(v1) /\ m.j \in 0 .. Len(v2) /\ size[m] = n - m.i - m.j
  BY DEF MergeStates
<1>3. \A m \in S : /\ round[m] \in S
                   /\ size[m] \in Nat
                   /\ size[m] # 0 => size[round[m]] < size[m]
                   /\ size[m] = 0 => size[round[m]] = 0
  <2> TAKE m \in S
  <2>1. /\ round[m] \in S
        /\ \/ round[m] = m /\ m.i = Len(v1) /\ m.j = Len(v2)
           \/ round[m].i + round[m].j > m.i + m.j
    BY MergeRound
  <2> HIDE DEF S, round, n, size
  <2>2. m \in S
    OBVIOUS
  <2>3. /\ m.i \in 0 .. Len(v1) /\ m.j \in 0 .. Len(v2) /\ size[m] = n - m.i - m.j
        /\ round[m].i \in 0 .. Len(v1) /\ round[m].j \in 0 .. Len(v2)
        /\ size[round[m]] = n - round[m].i - round[m].j
    BY <2>1, <2>2, <1>2
  <2>4. CASE round[m] = m /\ m.i = Len(v1) /\ m.j = Len(v2)
    <3>1. size[m] = 0
      BY <2>3, <2>4, <1>0 DEF n
    <3> QED
      BY <2>1, <2>4, <3>1
  <2>5. CASE round[m].i + round[m].j > m.i + m.j
    <3> DEFINE a == m.i
               b == m.j
               c == round[m].i
               d == round[m].j
    <3>1. /\ a \in Nat /\ b \in Nat /\ c \in Nat /\ d \in Nat
          /\ c <= Len(v1) /\ d <= Len(v2) /\ c + d > a + b
          /\ size[m] = n - a - b /\ size[round[m]] = n - c - d
      BY <2>3, <2>5, <1>0
    <3> HIDE DEF a, b, c, d
    <3>2. size[m] \in Nat /\ size[m] # 0 /\ size[round[m]] < size[m]
      BY <3>1, <1>0 DEF n
    <3> QED
      BY <2>1, <3>2
  <2> QED
    BY <2>1, <2>4, <2>5
<1>4. size[start] = n
  BY <1>0, <1>1
<1> HIDE DEF S, start, size, round
<1>5. \A k \in Nat : /\ Iterate(round, start, k) \in S
                     /\ size[start] <= k => size[Iterate(round, start, k)] = 0
  BY <1>1, <1>3, LoopRule, Zenon
<1>6. last \in S /\ size[last] = 0
  BY <1>5, <1>4, <1>0
<1>7. MergeHalves(v1, v2) = last.dest
  BY DEF MergeHalves, start, round
<1> HIDE DEF last
<1>8. last.i = Len(v1) /\ last.j = Len(v2)
  BY <1>0, <1>2, <1>6
<1>9. /\ last.dest \in Seq(Nat) /\ Ascending(last.dest)
      /\ Range(last.dest) = Taken(v1, v2, Len(v1), Len(v2))
  BY <1>6, <1>8 DEF S, MergeStates
<1>10. Taken(v1, v2, Len(v1), Len(v2)) = Range(v1) \cup Range(v2)
  <2>1. DOMAIN v1 = 1 .. Len(v1) /\ DOMAIN v2 = 1 .. Len(v2)
    OBVIOUS
  <2> QED
    BY <2>1 DEF Taken, Range
<1> QED
  BY <1>7, <1>9, <1>10

(* Masking a value of one bit more.                                        *)
LEMMA Masking ==
    ASSUME NEW d \in Nat \ {0}, NEW x \in Nat, x < 2 * d
    PROVE  /\ x < d => x % d = x
           /\ x >= d => x % d = x - d
  OBVIOUS

(* downsample_set reduces a normalised array to the normalised array of    *)
(* the truncated values.                                                   *)
LEMMA DownsampleCorrect ==
    ASSUME NEW t \in 0 .. 38, NEW arr \in Seq(Nat), Ascending(arr),
           \A i \in 1 .. Len(arr) : arr[i] < 2^(t + 1)
    PROVE  /\ downsample_set(arr, t) \in Seq(Nat)
           /\ Ascending(downsample_set(arr, t))
           /\ Range(downsample_set(arr, t)) = {arr[i] % 2^t : i \in 1 .. Len(arr)}
           /\ \A i \in 1 .. Len(downsample_set(arr, t)) : downsample_set(arr, t)[i] < 2^t
<1> DEFINE D == 2^t
           n == Len(arr)
           u == LowCount(arr, D - 1)
           v1 == SubSeq(arr, 1, u)
           v2 == [k \in 1 .. n - u |-> arr[u + k] % D]
           result == MergeHalves(v1, v2)
<1>0. downsample_set(arr, t) = result
  BY DEF downsample_set
<1>1. D \in Nat \ {0} /\ \A i \in 1 .. n : arr[i] < 2 * D
  BY Powers
<1> HIDE DEF D
<1>2. n \in Nat /\ (\A i \in 1 .. n : arr[i] \in Nat)
      /\ \A i, j \in 1 .. n : i < j => arr[i] < arr[j]
  BY DEF Ascending
<1>3. u \in 0 .. n /\ \A i \in 1 .. n : i <= u <=> arr[i] <= D - 1
  <2>1. D - 1 \in Nat
    BY <1>1
  <2> QED
    BY <2>1, LowCountCorrect
<1> HIDE DEF u
<1>4. /\ v1 \in Seq(Nat) /\ Len(v1) = u /\ DOMAIN v1 = 1 .. u
      /\ \A k \in 1 .. u : v1[k] = arr[k] /\ k \in 1 .. n
  BY <1>2, <1>3
<1>5. \A k \in 1 .. u : v1[k] = arr[k] % D
  <2> TAKE k \in 1 .. u
  <2>1. arr[k] \in Nat /\ arr[k] < D /\ arr[k] < 2 * D
    BY <1>1, <1>2, <1>3, <1>4
  <2>2. arr[k] % D = arr[k]
    BY <2>1, <1>1, Masking
  <2> QED
    BY <2>2, <1>4
<1>6. \A k \in 1 .. n - u : /\ u + k \in 1 .. n
                            /\ arr[u + k] % D = arr[u + k] - D
                            /\ arr[u + k] - D \in Nat
  <2> TAKE k \in 1 .. n - u
  <2>1. u + k \in 1 .. n /\ ~(u + k <= u)
    BY <1>2, <1>3
  <2>2. arr[u + k] \in Nat /\ arr[u + k] >= D /\ arr[u + k] < 2 * D
    BY <2>1, <1>1, <1>2, <1>3
  <2>3. arr[u + k] % D = arr[u + k] - D
    BY <2>2, <1>1, Masking
  <2> QED
    BY <2>1, <2>2, <2>3, <1>1
<1>7. /\ v2 \in Seq(Nat) /\ Len(v2) = n - u /\ DOMAIN v2 = 1 .. n - u
      /\ \A k \in 1 .. n - u : v2[k] = arr[u + k] % D
  <2>1. n - u \in Nat
    BY <1>2, <1>3
  <2>2. \A k \in 1 .. n - u : arr[u + k] % D \in Nat
    BY <1>6
  <2> QED
    BY <2>1, <2>2
<1> HIDE DEF v1, v2
<1>8. Ascending(v1)
  <2> SUFFICES ASSUME NEW i \in 1 .. u, NEW j \in 1 .. u, i < j PROVE v1[i] < v1[j]
    BY <1>4 DEF Ascending
  <2> QED
    BY <1>2, <1>4
<1>9. Ascending(v2)
  <2> SUFFICES ASSUME NEW i \in 1 .. n - u, NEW j \in 1 .. n - u, i < j PROVE v2[i] < v2[j]
    BY <1>7 DEF Ascending
  <2>1. u + i < u + j /\ arr[u + i] < arr[u + j] /\ arr[u + i] \in Nat /\ arr[u + j] \in Nat
    BY <1>2, <1>3, <1>6
  <2>2. arr[u + i] - D < arr[u + j] - D
    BY <2>1, <1>1
  <2>3. v2[i] = arr[u + i] - D /\ v2[j] = arr[u + j] - D
    BY <1>6, <1>7
  <2> QED
    BY <2>2, <2>3
<1>10. result \in Seq(Nat) /\ Ascending(result) /\ Range(result) = Range(v1) \cup Range(v2)
  BY <1>4, <1>7, <1>8, <1>9, MergeCorrect
<1> DEFINE all == {arr[i] % D : i \in 1 .. n}
<1>11. Range(v1) \cup Range(v2) = all
  <2>1. ASSUME NEW i \in 1 .. n PROVE arr[i] % D \in Range(v1) \cup Range(v2)
    <3>1. CASE i <= u
      <4>1. i \in 1 .. u
        BY <3>1, <1>3
      <4> QED
        BY <4>1, <1>4, <1>5 DEF Range
    <3>2. CASE ~(i <= u)
      <4>1. i - u \in 1 .. n - u /\ u + (i - u) = i
        BY <3>2, <1>2, <1>3
      <4>2. v2[i - u] = arr[i] % D
        BY <4>1, <1>7
      <4> QED
        BY <4>1, <4>2, <1>7 DEF Range
    <3> QED
      BY <3>1, <3>2
  <2>2. Range(v1) \subseteq all
    BY <1>4, <1>5 DEF Range
  <2>3. Range(v2) \subseteq all
    BY <1>6, <1>7 DEF Range
  <2> QED
    BY <2>1, <2>2, <2>3
<1>12. \A i \in 1 .. Len(result) : result[i] < D
  <2> HIDE DEF result
  <2> TAKE i \in 1 .. Len(result)
  <2>1. result[i] \in all
    <3>1. i \in DOMAIN result
      BY <1>10
    <3> QED
      BY <3>1, <1>10, <1>11 DEF Range
  <2> QED
    BY <2>1, <1>1, <1>2
<1> HIDE DEF result
<1> QED
  BY <1>0, <1>10, <1>11, <1>12, Zenon DEF D

(* What the search of sorted_subset finds.                                 *)
LEMMA LowerBoundCorrect ==
    ASSUME NEW large \in Seq(Nat), NEW j \in 1 .. Len(large) + 1, NEW value \in Nat
    PROVE  /\ LowerBound(large, j, value) \in j .. Len(large) + 1
           /\ \A i \in j .. Len(large) : i < LowerBound(large, j, value) => large[i] < value
           /\ LowerBound(large, j, value) <= Len(large) =>
                 large[LowerBound(large, j, value)] >= value
<1> DEFINE rest == {k \in j .. Len(large) : large[k] >= value}
           found == LowerBound(large, j, value)
<1>0. Len(large) \in Nat /\ \A i \in j .. Len(large) : large[i] \in Nat
  OBVIOUS
<1>1. CASE rest = {}
  <2>1. found = Len(large) + 1
    BY <1>1 DEF LowerBound
  <2>2. \A i \in j .. Len(large) : large[i] < value
    BY <1>0, <1>1
  <2> HIDE DEF found
  <2>3. found \in j .. Len(large) + 1 /\ ~(found <= Len(large))
    BY <2>1, <1>0
  <2> QED
    BY <2>2, <2>3 DEF found
<1>2. CASE rest # {}
  <2>1. \E k \in rest : \A other \in rest : k <= other
    <3>1. rest \subseteq Nat
      BY <1>0
    <3> HIDE DEF rest
    <3> QED
      BY <3>1, <1>2, LeastNat
  <2>2. found = CHOOSE k \in rest : \A other \in rest : k <= other
    BY <1>2 DEF LowerBound
  <2> HIDE DEF found
  <2>3. found \in rest /\ \A other \in rest : found <= other
    <3> HIDE DEF rest
    <3> QED
      BY <2>1, <2>2
  <2>4. \A i \in j .. Len(large) : i < found => large[i] < value
    BY <1>0, <2>3
  <2>5. found \in j .. Len(large) + 1 /\ large[found] >= value
    BY <1>0, <2>3
  <2> QED
    BY <2>4, <2>5 DEF found
<1> QED
  BY <1>1, <1>2, Zenon

(* sorted_subset decides inclusion.                                        *)
LEMMA SubsetCorrect ==
    ASSUME NEW small \in Seq(Nat), NEW large \in Seq(Nat), Ascending(small), Ascending(large)
    PROVE  sorted_subset(small, large) <=> Range(small) \subseteq Range(large)
<1> DEFINE ns == Len(small)
           nl == Len(large)
           round == FindNext(small, large)
           S == {w \in [small : 0 .. ns, large : 0 .. nl] :
                    /\ \A i \in 1 .. w.small : small[i] \in Range(large)
                    /\ w.small = 0 => w.large = 0
                    /\ w.small > 0 => w.large > 0 /\ large[w.large] = small[w.small]}
           start == [small |-> 0, large |-> 0]
           stuck(w) == round[w] = w
           size == [w \in S |-> IF stuck(w) THEN 0 ELSE ns - w.small]
           last == Iterate(round, start, ns)
<1>0. /\ ns \in Nat /\ nl \in Nat
      /\ \A i \in 1 .. ns : small[i] \in Nat
      /\ \A i \in 1 .. nl : large[i] \in Nat
      /\ \A i, j \in 1 .. ns : i < j => small[i] < small[j]
      /\ \A i, j \in 1 .. nl : i < j => large[i] < large[j]
      /\ DOMAIN small = 1 .. ns /\ DOMAIN large = 1 .. nl
  BY DEF Ascending
<1>1. start \in S
  <2>1. start \in [small : 0 .. ns, large : 0 .. nl] /\ start.small = 0 /\ start.large = 0
    BY <1>0
  <2> HIDE DEF start
  <2> QED
    BY <2>1
<1>2. ASSUME NEW w \in S
      PROVE  /\ round[w] \in S
             /\ \/ /\ stuck(w)
                   /\ w.small = ns \/ (w.small < ns /\ small[w.small + 1] \notin Range(large))
                \/ /\ ~stuck(w)
                   /\ round[w].small = w.small + 1
  <2> DEFINE at == w.small
             from == w.large
             value == small[at + 1]
             k == LowerBound(large, from + 1, value)
  <2>0. /\ at \in 0 .. ns /\ from \in 0 .. nl /\ w \in [small : Nat, large : Nat]
        /\ w = [small |-> at, large |-> from]
        /\ \A i \in 1 .. at : small[i] \in Range(large)
        /\ at > 0 => from > 0 /\ large[from] = small[at]
        /\ at = 0 => from = 0
    BY <1>0
  <2>1. CASE at = ns
    <3>1. round[w] = w
      BY <2>0, <2>1, <1>0 DEF FindNext
    <3> QED
      BY <3>1, <2>1
  <2>2. CASE at < ns
    <3>0. at + 1 \in 1 .. ns /\ value \in Nat /\ from + 1 \in 1 .. nl + 1
      BY <2>0, <2>2, <1>0
    <3>1. /\ k \in from + 1 .. nl + 1
          /\ \A i \in from + 1 .. nl : i < k => large[i] < value
          /\ k <= nl => large[k] >= value
      BY <3>0, LowerBoundCorrect
    <3>2. round[w] = IF k <= nl /\ large[k] = value
                     THEN [small |-> at + 1, large |-> k] ELSE w
      BY <2>0, <2>2 DEF FindNext
    <3> HIDE DEF k
    <3>3. CASE k <= nl /\ large[k] = value
      <4> DEFINE c == [small |-> at + 1, large |-> k]
      <4>1. round[w] = c /\ c.small = at + 1 /\ c.large = k
        BY <3>2, <3>3
      <4>2. k \in 1 .. nl
        BY <3>1, <3>3, <2>0, <1>0
      <4>3. value \in Range(large)
        BY <4>2, <3>3, <1>0 DEF Range
      <4>4. \A i \in 1 .. at + 1 : small[i] \in Range(large)
        <5> TAKE i \in 1 .. at + 1
        <5>1. i \in 1 .. at \/ i = at + 1
          BY <2>0
        <5> QED
          BY <5>1, <4>3, <2>0
      <4>5. c \in [small : 0 .. ns, large : 0 .. nl] /\ at + 1 # 0 /\ k > 0
        <5>1. at + 1 \in 0 .. ns /\ at + 1 # 0 /\ k \in 0 .. nl /\ k > 0
          <6>1. at \in 0 .. ns
            BY <2>0
          <6> HIDE DEF at
          <6> QED
            BY ONLY <6>1, <2>2, <4>2, <1>0
        <5> QED
          BY <5>1
      <4> HIDE DEF c
      <4>6. c \in S
        BY <4>1, <4>4, <4>5, <3>3
      <4>7. ~stuck(w)
        BY <4>1, <2>0
      <4> QED
        BY <4>1, <4>6, <4>7
    <3>4. CASE ~(k <= nl /\ large[k] = value)
      <4>1. round[w] = w
        BY <3>2, <3>4
      <4>2. value \notin Range(large)
        <5> SUFFICES ASSUME NEW i \in 1 .. nl, large[i] = value PROVE FALSE
          BY <1>0 DEF Range
        <5>0. value \in Nat /\ large[i] = value
          BY <3>0
        <5> HIDE DEF at, from, value
        <5>1. CASE i <= from
          <6>1. from > 0 /\ at > 0 /\ at \in 1 .. ns /\ from \in 1 .. nl
            BY <5>1, <2>0, <1>0
          <6>2. small[at] < small[at + 1] /\ large[from] = small[at] /\ small[at] \in Nat
            BY <6>1, <3>0, <2>0, <1>0
          <6>3. large[from] < value
            BY <6>2 DEF value
          <6>4. large[i] = large[from] \/ large[i] < large[from]
            BY <6>1, <5>1, <1>0
          <6>5. large[i] \in Nat /\ large[from] \in Nat
            BY <6>1, <1>0
          <6> QED
            BY <6>3, <6>4, <6>5, <5>0
        <5>2. CASE i > from /\ i < k
          <6>1. i \in from + 1 .. nl
            BY <5>2, <2>0, <1>0
          <6> QED
            BY <6>1, <5>2, <3>1, <5>0
        <5>3. CASE i > from /\ i = k
          BY <5>3, <3>4, <1>0
        <5>4. CASE i > from /\ i > k
          <6>1. k \in 1 .. nl /\ large[k] >= value /\ large[k] < large[i] /\ large[k] \in Nat
            BY <5>4, <3>1, <2>0, <1>0
          <6> QED
            BY <6>1, <5>0
        <5>5. i \in Nat /\ k \in Nat /\ from \in Nat
          BY <3>1, <2>0, <1>0
        <5> QED
          BY <5>1, <5>2, <5>3, <5>4, <5>5
      <4> QED
        BY <4>1, <4>2, <2>2
    <3> QED
      BY <3>3, <3>4
  <2>3. at = ns \/ at < ns
    BY <2>0, <1>0
  <2> QED
    BY <2>1, <2>2, <2>3
<1>3. \A w \in S : w.small \in 0 .. ns
  OBVIOUS
<1> HIDE DEF S, start, round
<1>4. \A w \in S : /\ round[w] \in S
                   /\ size[w] \in Nat
                   /\ size[w] # 0 => size[round[w]] < size[w]
                   /\ size[w] = 0 => size[round[w]] = 0
  <2> TAKE w \in S
  <2>1. round[w] \in S /\ w.small \in 0 .. ns /\ round[w].small \in 0 .. ns
    BY <1>2, <1>3
  <2>2. CASE stuck(w)
    BY <2>1, <2>2
  <2>3. CASE ~stuck(w)
    <3>1. round[w].small = w.small + 1
      BY <2>3, <1>2
    <3>2. size[w] = ns - w.small /\ size[w] > 0
      BY <2>1, <2>3, <3>1, <1>0
    <3>3. size[round[w]] = 0 \/ size[round[w]] = ns - (w.small + 1)
      BY <2>1, <3>1
    <3> QED
      BY <2>1, <3>1, <3>2, <3>3, <1>0
  <2> QED
    BY <2>2, <2>3
<1>5. size[start] <= ns
  BY <1>0, <1>1, <1>3
<1>6. \A w \in S : size[w] = 0 => stuck(w)
  <2> TAKE w \in S
  <2>1. ~stuck(w) => size[w] = ns - w.small /\ round[w].small = w.small + 1
                     /\ round[w].small \in 0 .. ns
    BY <1>2, <1>3
  <2> QED
    BY <2>1, <1>0, <1>3
<1> HIDE DEF size
<1>7. \A n \in Nat : /\ Iterate(round, start, n) \in S
                     /\ size[start] <= n => size[Iterate(round, start, n)] = 0
  BY <1>1, <1>4, LoopRule, Zenon
<1>8. last \in S /\ stuck(last)
  BY <1>0, <1>5, <1>6, <1>7
<1>9. sorted_subset(small, large) <=> last.small = ns
  BY DEF sorted_subset, start, round
<1> HIDE DEF last
<1>10. last.small = ns => Range(small) \subseteq Range(large)
  <2> SUFFICES ASSUME last.small = ns, NEW i \in 1 .. ns PROVE small[i] \in Range(large)
    BY <1>0 DEF Range
  <2> QED
    BY <1>8 DEF S
<1>11. ASSUME last.small # ns PROVE ~(Range(small) \subseteq Range(large))
  <2>1. last.small \in 0 .. ns /\ last.small < ns /\ small[last.small + 1] \notin Range(large)
    BY <1>2, <1>3, <1>8, <1>11
  <2>2. last.small + 1 \in 1 .. ns
    BY <2>1, <1>0
  <2> QED
    BY <2>1, <2>2, <1>0 DEF Range
<1> QED
  BY <1>9, <1>10, <1>11, Zenon

(* A set has as many values as there are elements in its array.            *)
LEMMA AscendingCardinality ==
    ASSUME NEW arr \in Seq(Nat), Ascending(arr)
    PROVE  IsFiniteSet(Range(arr)) /\ Cardinality(Range(arr)) = Len(arr)
<1> DEFINE n == Len(arr)
<1>1. n \in Nat /\ DOMAIN arr = 1 .. n /\ \A i \in 1 .. n : arr[i] \in Nat
  OBVIOUS
<1>2. arr \in [1 .. n -> Range(arr)]
  BY <1>1 DEF Range
<1>3. \A i, j \in 1 .. n : arr[i] = arr[j] => i = j
  BY <1>1 DEF Ascending
<1>4. arr \in Bijection(1 .. n, Range(arr))
  BY <1>1, <1>2, <1>3 DEF Bijection, Injection, Surjection, IsInjective, Range
<1>5. ExistsBijection(1 .. n, Range(arr))
  BY <1>4 DEF ExistsBijection
<1> QED
  BY <1>1, <1>5, FS_NatBijection, FS_CountingElements

(* A set has one array.                                                    *)
LEMMA AscendingUnique ==
    ASSUME NEW a \in Seq(Nat), NEW b \in Seq(Nat), Ascending(a), Ascending(b),
           Len(a) = Len(b), Range(a) = Range(b)
    PROVE  a = b
<1> DEFINE n == Len(a)
           S == {k \in Nat : \A i \in 1 .. n : i <= k => a[i] = b[i]}
<1>1. /\ n \in Nat /\ DOMAIN a = 1 .. n /\ DOMAIN b = 1 .. n
      /\ \A i \in 1 .. n : a[i] \in Nat /\ b[i] \in Nat
      /\ \A i, j \in 1 .. n : i < j => a[i] < a[j] /\ b[i] < b[j]
  BY DEF Ascending
<1>2. \A i \in 1 .. n : \E j \in 1 .. n : a[i] = b[j]
  BY <1>1 DEF Range
<1>3. \A i \in 1 .. n : \E j \in 1 .. n : b[i] = a[j]
  BY <1>1 DEF Range
<1>4. 0 \in S
  OBVIOUS
<1>5. ASSUME NEW k \in Nat, k \in S PROVE k + 1 \in S
  <2> SUFFICES ASSUME k + 1 \in 1 .. n PROVE a[k + 1] = b[k + 1]
    BY <1>5
  <2>1. \A i \in 1 .. n : i <= k => a[i] = b[i]
    BY <1>5
  <2>2. ~(a[k + 1] < b[k + 1])
    <3>1. PICK j \in 1 .. n : a[k + 1] = b[j]
      BY <1>2
    <3>2. j <= k \/ j = k + 1 \/ k + 1 < j
      OBVIOUS
    <3>3. j <= k => b[j] = a[j] /\ a[j] < a[k + 1]
      BY <2>1, <1>1
    <3>4. k + 1 < j => b[k + 1] < b[j]
      BY <1>1
    <3> QED
      BY <3>1, <3>2, <3>3, <3>4, <1>1
  <2>3. ~(b[k + 1] < a[k + 1])
    <3>1. PICK j \in 1 .. n : b[k + 1] = a[j]
      BY <1>3
    <3>2. j <= k \/ j = k + 1 \/ k + 1 < j
      OBVIOUS
    <3>3. j <= k => a[j] = b[j] /\ b[j] < b[k + 1]
      BY <2>1, <1>1
    <3>4. k + 1 < j => a[k + 1] < a[j]
      BY <1>1
    <3> QED
      BY <3>1, <3>2, <3>3, <3>4, <1>1
  <2> QED
    BY <2>2, <2>3, <1>1
<1> HIDE DEF S
<1>6. \A k \in Nat : k \in S
  BY <1>4, <1>5, Induct
<1>7. \A i \in 1 .. n : a[i] = b[i]
  <2>1. n \in S
    BY <1>1, <1>6
  <2> QED
    BY <2>1, <1>1 DEF S
<1> QED
  BY <1>1, <1>7

(* How the lengths of two arrays bound the relation of their sets.         *)
LEMMA LengthsDecide ==
    ASSUME NEW a \in Seq(Nat), NEW b \in Seq(Nat), Ascending(a), Ascending(b)
    PROVE  /\ Len(a) = Len(b) => /\ a = b <=> Range(a) = Range(b)
                                 /\ Range(a) \subseteq Range(b) => a = b
           /\ Len(a) > Len(b) => ~(Range(a) \subseteq Range(b))
<1>1. /\ IsFiniteSet(Range(a)) /\ Cardinality(Range(a)) = Len(a)
      /\ IsFiniteSet(Range(b)) /\ Cardinality(Range(b)) = Len(b)
      /\ Len(a) \in Nat /\ Len(b) \in Nat
  BY AscendingCardinality
<1>2. Range(a) \subseteq Range(b) =>
         /\ Len(a) <= Len(b)
         /\ Len(a) = Len(b) => Range(a) = Range(b)
  BY <1>1, FS_Subset
<1>3. Len(a) = Len(b) /\ Range(a) = Range(b) => a = b
  BY AscendingUnique
<1> QED
  BY <1>1, <1>2, <1>3

(* Reducing to t + 1 bits first makes no difference.                       *)
LEMMA Retruncation ==
    ASSUME NEW t \in 0 .. 38, NEW x \in Nat
    PROVE  (x % 2^(t + 1)) % 2^t = x % 2^t
<1> DEFINE d == 2^t
<1>1. d \in Nat \ {0} /\ 2^(t + 1) = 2 * d
  BY Powers
<1> HIDE DEF d
<1>2. x % (2 * d) = ((x \div d) % 2) * d + (x % d)
  <2>1. 2 \in Nat \ {0}
    OBVIOUS
  <2> QED
    BY <1>1, <2>1, TwoDigits
<1>3. /\ x \div d \in Nat /\ x % d \in 0 .. d - 1
  BY <1>1, Division
<1> DEFINE c == (x \div d) % 2
           r == x % d
           y == x % (2 * d)
<1>4. c \in Nat /\ r \in 0 .. d - 1 /\ y = c * d + r
  BY <1>2, <1>3
<1> HIDE DEF c, r, y
<1>5. c * d \in Nat
  BY <1>1, <1>4
<1>6. y \in Nat
  BY <1>1, <1>4, <1>5
<1>7. y % d = r
  BY <1>1, <1>4, <1>6, UniqueDivision
<1> QED
  BY <1>1, <1>7 DEF d, r, y

-----------------------------------------------------------------------------
(* Where a counting sort puts the k-th of n entries with the given digits: *)
(* behind those of smaller digits and those of its own that come earlier.  *)
Earlier(dig, n, k) == {j \in 1 .. n : dig[j] < dig[k] \/ (dig[j] = dig[k] /\ j < k)}

Rank(dig, n, k) == Cardinality(Earlier(dig, n, k)) + 1

(* How many entries have a smaller digit, and how many of the first k this. *)
Less(dig, n, d) == Cardinality({j \in 1 .. n : dig[j] < d})

Seen(dig, k, d) == Cardinality({j \in 1 .. k : dig[j] = d})

LEMMA LessType ==
    ASSUME NEW n \in Nat, NEW dig, NEW d
    PROVE  Less(dig, n, d) \in Nat
<1>1. IsFiniteSet(1 .. n)
  BY FS_Interval
<1>2. {j \in 1 .. n : dig[j] < d} \in SUBSET (1 .. n)
  OBVIOUS
<1>3. IsFiniteSet({j \in 1 .. n : dig[j] < d})
  BY <1>1, <1>2, FS_Subset
<1> QED
  BY <1>3, FS_CardinalityType DEF Less

(* The ranks are the positions, each once, in the order of the digits.     *)
LEMMA RankOrder ==
    ASSUME NEW n \in Nat, NEW dig \in [1 .. n -> Nat],
           NEW k \in 1 .. n, NEW m \in 1 .. n,
           dig[k] < dig[m] \/ (dig[k] = dig[m] /\ k < m)
    PROVE  Rank(dig, n, k) < Rank(dig, n, m)
<1>1. IsFiniteSet(1 .. n)
  BY FS_Interval
<1>2. Earlier(dig, n, m) \in SUBSET (1 .. n)
  BY DEF Earlier
<1>3. IsFiniteSet(Earlier(dig, n, m))
  BY <1>1, <1>2, FS_Subset
<1>4. Earlier(dig, n, k) \subseteq Earlier(dig, n, m)
  BY DEF Earlier
<1>5. k \in Earlier(dig, n, m) /\ k \notin Earlier(dig, n, k)
  BY DEF Earlier
<1>6. /\ Cardinality(Earlier(dig, n, k)) <= Cardinality(Earlier(dig, n, m))
      /\ Cardinality(Earlier(dig, n, m)) = Cardinality(Earlier(dig, n, k)) =>
            Earlier(dig, n, m) = Earlier(dig, n, k)
      /\ IsFiniteSet(Earlier(dig, n, k))
  BY <1>3, <1>4, FS_Subset
<1>7. Cardinality(Earlier(dig, n, k)) \in Nat /\ Cardinality(Earlier(dig, n, m)) \in Nat
  BY <1>3, <1>6, FS_CardinalityType
<1> QED
  BY <1>5, <1>6, <1>7 DEF Rank

LEMMA RankInRange ==
    ASSUME NEW n \in Nat, NEW dig \in [1 .. n -> Nat], NEW k \in 1 .. n
    PROVE  Rank(dig, n, k) \in 1 .. n
<1>1. IsFiniteSet(1 .. n) /\ Cardinality(1 .. n) = n
  BY FS_Interval
<1>2. Earlier(dig, n, k) \in SUBSET (1 .. n)
  BY DEF Earlier
<1>3. k \notin Earlier(dig, n, k)
  BY DEF Earlier
<1>4. /\ IsFiniteSet(Earlier(dig, n, k))
      /\ Cardinality(Earlier(dig, n, k)) <= n
      /\ n = Cardinality(Earlier(dig, n, k)) => 1 .. n = Earlier(dig, n, k)
  BY <1>1, <1>2, FS_Subset
<1>5. Cardinality(Earlier(dig, n, k)) \in Nat
  BY <1>4, FS_CardinalityType
<1> QED
  BY <1>3, <1>4, <1>5 DEF Rank

LEMMA RankInjective ==
    ASSUME NEW n \in Nat, NEW dig \in [1 .. n -> Nat],
           NEW k \in 1 .. n, NEW m \in 1 .. n, Rank(dig, n, k) = Rank(dig, n, m)
    PROVE  k = m
<1> SUFFICES ASSUME k # m PROVE FALSE
  OBVIOUS
<1>1. dig[k] \in Nat /\ dig[m] \in Nat
  OBVIOUS
<1>2. \/ dig[k] < dig[m] \/ (dig[k] = dig[m] /\ k < m)
      \/ dig[m] < dig[k] \/ (dig[m] = dig[k] /\ m < k)
  BY <1>1
<1>3. Rank(dig, n, k) < Rank(dig, n, m) \/ Rank(dig, n, m) < Rank(dig, n, k)
  BY <1>2, RankOrder
<1>4. Rank(dig, n, k) \in 1 .. n /\ Rank(dig, n, m) \in 1 .. n
  BY RankInRange
<1> QED
  BY <1>3, <1>4

LEMMA RankReflects ==
    ASSUME NEW n \in Nat, NEW dig \in [1 .. n -> Nat],
           NEW k \in 1 .. n, NEW m \in 1 .. n, Rank(dig, n, k) < Rank(dig, n, m)
    PROVE  dig[k] < dig[m] \/ (dig[k] = dig[m] /\ k < m)
<1> SUFFICES ASSUME ~(dig[k] < dig[m] \/ (dig[k] = dig[m] /\ k < m)) PROVE FALSE
  OBVIOUS
<1>1. k # m /\ dig[k] \in Nat /\ dig[m] \in Nat
  BY RankInRange
<1>2. dig[m] < dig[k] \/ (dig[m] = dig[k] /\ m < k)
  BY <1>1
<1>3. Rank(dig, n, m) < Rank(dig, n, k)
  BY <1>2, RankOrder
<1>4. Rank(dig, n, k) \in 1 .. n /\ Rank(dig, n, m) \in 1 .. n
  BY RankInRange
<1> QED
  BY <1>3, <1>4

LEMMA RankOnto ==
    ASSUME NEW n \in Nat, NEW dig \in [1 .. n -> Nat], NEW p \in 1 .. n
    PROVE  \E k \in 1 .. n : Rank(dig, n, k) = p
<1> DEFINE f == [k \in 1 .. n |-> Rank(dig, n, k)]
<1>1. f \in [1 .. n -> 1 .. n]
  BY RankInRange
<1>2. ASSUME NEW k \in 1 .. n, NEW m \in 1 .. n, k # m
      PROVE  f[k] # f[m]
  BY <1>2, RankInjective
<1> HIDE DEF f
<1>3. f \in Injection(1 .. n, 1 .. n)
  BY <1>1, <1>2 DEF Injection, IsInjective
<1>4. IsFiniteSet(1 .. n)
  BY FS_Interval
<1>5. f \in Surjection(1 .. n, 1 .. n)
  BY <1>3, <1>4, FS_Injection
<1>6. \E k \in 1 .. n : f[k] = p
  BY <1>5 DEF Surjection
<1> QED
  BY <1>6 DEF f

(* The rank is the start of the digit and the entries of it seen before.   *)
LEMMA RankSum ==
    ASSUME NEW n \in Nat, NEW dig \in [1 .. n -> Nat], NEW k \in 1 .. n
    PROVE  Rank(dig, n, k) = Less(dig, n, dig[k]) + Seen(dig, k - 1, dig[k]) + 1
<1> DEFINE A == {j \in 1 .. n : dig[j] < dig[k]}
           B == {j \in 1 .. k - 1 : dig[j] = dig[k]}
<1>1. IsFiniteSet(1 .. n)
  BY FS_Interval
<1>2. A \in SUBSET (1 .. n) /\ B \in SUBSET (1 .. n)
  OBVIOUS
<1>3. A \cap B = {} /\ Earlier(dig, n, k) = A \cup B
  BY DEF Earlier
<1> HIDE DEF A, B
<1>4. IsFiniteSet(A) /\ IsFiniteSet(B)
  BY <1>1, <1>2, FS_Subset
<1>5. Cardinality(A \cup B) = Cardinality(A) + Cardinality(B) - Cardinality(A \cap B)
  BY <1>4, FS_Union
<1>6. Cardinality(A \cap B) = 0
  BY <1>3, FS_EmptySet
<1>7. Cardinality(A) \in Nat /\ Cardinality(B) \in Nat
  BY <1>4, FS_CardinalityType
<1> QED
  BY <1>3, <1>5, <1>6, <1>7 DEF Rank, A, B, Less, Seen

(* One more entry is seen.                                                 *)
LEMMA SeenMore ==
    ASSUME NEW n \in Nat, NEW dig \in [1 .. n -> Nat], NEW k \in 1 .. n, NEW d \in Nat
    PROVE  /\ Seen(dig, k - 1, d) \in Nat
           /\ Seen(dig, k, d) = Seen(dig, k - 1, d) + (IF dig[k] = d THEN 1 ELSE 0)
<1> DEFINE S == {j \in 1 .. k - 1 : dig[j] = d}
<1>1. IsFiniteSet(1 .. k - 1)
  BY FS_Interval
<1>2. S \in SUBSET (1 .. k - 1)
  OBVIOUS
<1>3. IsFiniteSet(S) /\ k \notin S
  BY <1>1, <1>2, FS_Subset
<1>4. Cardinality(S) \in Nat
  BY <1>3, FS_CardinalityType
<1>5. {j \in 1 .. k : dig[j] = d} = IF dig[k] = d THEN S \cup {k} ELSE S
  OBVIOUS
<1> HIDE DEF S
<1>6. Cardinality(S \cup {k}) = Cardinality(S) + 1
  BY <1>3, FS_AddElement
<1>7. Cardinality(S) = Seen(dig, k - 1, d)
  BY DEF S, Seen
<1>8. CASE dig[k] = d
  BY <1>4, <1>5, <1>6, <1>7, <1>8 DEF Seen
<1>9. CASE dig[k] # d
  <2>1. {j \in 1 .. k : dig[j] = d} = S
    BY <1>5, <1>9
  <2>2. Seen(dig, k, d) = Cardinality(S)
    BY <2>1 DEF Seen
  <2>3. (IF dig[k] = d THEN 1 ELSE 0) = 0
    BY <1>9
  <2> QED
    BY <1>4, <1>7, <2>2, <2>3
<1> QED
  BY <1>8, <1>9


(* A pass of a radix sort puts every element at its rank.                  *)
LEMMA DistributedFacts ==
    ASSUME NEW S, NEW arr \in Seq(S), NEW digit \in [1 .. Len(arr) -> Nat]
    PROVE  /\ Distributed(arr, digit) \in Seq(S)
           /\ Len(Distributed(arr, digit)) = Len(arr)
           /\ \A k \in 1 .. Len(arr) : Distributed(arr, digit)[Rank(digit, Len(arr), k)] = arr[k]
<1> DEFINE n == Len(arr)
           At(p) == CHOOSE i \in 1 .. n : Place(digit, i) = p
           moved == [p \in 1 .. n |-> arr[At(p)]]
<1>1. n \in Nat /\ DOMAIN arr = 1 .. n /\ DOMAIN digit = 1 .. n
  OBVIOUS
<1>2. Distributed(arr, digit) = moved
  BY <1>1 DEF Distributed
<1>3. ASSUME NEW k \in 1 .. n
      PROVE  Place(digit, k) = Rank(digit, n, k)
  <2>1. digit[k] \in Nat
    BY <1>1
  <2>2. Rank(digit, n, k) = Less(digit, n, digit[k]) + Seen(digit, k - 1, digit[k]) + 1
    BY <1>1, RankSum
  <2>3. /\ Seen(digit, k - 1, digit[k]) \in Nat
        /\ Seen(digit, k, digit[k]) = Seen(digit, k - 1, digit[k]) + 1
    BY <1>1, <2>1, SeenMore
  <2>4. Less(digit, n, digit[k]) \in Nat
    BY <1>1, LessType
  <2>5. Place(digit, k) = Less(digit, n, digit[k]) + Seen(digit, k, digit[k])
    BY <1>1 DEF Place, Less, Seen
  <2> QED
    BY <2>2, <2>3, <2>4, <2>5
<1>4. ASSUME NEW p \in 1 .. n
      PROVE  At(p) \in 1 .. n /\ Rank(digit, n, At(p)) = p
  <2>1. \E k \in 1 .. n : Rank(digit, n, k) = p
    BY <1>1, RankOnto
  <2>2. \E k \in 1 .. n : Place(digit, k) = p
    BY <1>3, <2>1
  <2>3. At(p) \in 1 .. n /\ Place(digit, At(p)) = p
    BY <2>2
  <2> QED
    BY <1>3, <2>3
<1> HIDE DEF At
<1>5. \A p \in 1 .. n : arr[At(p)] \in S
  BY <1>1, <1>4
<1>6. moved \in Seq(S) /\ Len(moved) = n
  BY <1>1, <1>5
<1>7. ASSUME NEW k \in 1 .. n
      PROVE  moved[Rank(digit, n, k)] = arr[k]
  <2>1. Rank(digit, n, k) \in 1 .. n
    BY <1>1, RankInRange
  <2> DEFINE p == Rank(digit, n, k)
             m == At(p)
  <2>2. m \in 1 .. n /\ Rank(digit, n, m) = p
    BY <1>4, <2>1
  <2>3. moved[p] = arr[m]
    BY <2>1
  <2>4. m = k
    BY <1>1, <2>2, RankInjective
  <2> QED
    BY <2>3, <2>4
<1> QED
  BY <1>2, <1>6, <1>7

(* An array is another in another order.                                   *)
Reordered(n, src, dst) ==
    \E f \in [1 .. n -> 1 .. n] :
        /\ \A i, j \in 1 .. n : i # j => f[i] # f[j]
        /\ \A i \in 1 .. n : dst[i] = src[f[i]]

LEMMA RankPermutes ==
    ASSUME NEW n \in Nat, NEW dig \in [1 .. n -> Nat], NEW src, NEW dst,
           \A k \in 1 .. n : dst[Rank(dig, n, k)] = src[k]
    PROVE  Reordered(n, src, dst)
<1> DEFINE At(i) == CHOOSE k \in 1 .. n : Rank(dig, n, k) = i
           f == [i \in 1 .. n |-> At(i)]
<1>1. ASSUME NEW i \in 1 .. n
      PROVE  At(i) \in 1 .. n /\ Rank(dig, n, At(i)) = i
  <2>1. \E k \in 1 .. n : Rank(dig, n, k) = i
    BY RankOnto
  <2> QED
    BY <2>1
<1> HIDE DEF At
<1>2. f \in [1 .. n -> 1 .. n] /\ \A i \in 1 .. n : f[i] = At(i)
  BY <1>1
<1> HIDE DEF f
<1>3. \A i \in 1 .. n : Rank(dig, n, f[i]) = i /\ dst[i] = src[f[i]]
  BY <1>1, <1>2
<1>4. \A i, j \in 1 .. n : i # j => f[i] # f[j]
  BY <1>3
<1> QED
  BY <1>2, <1>3, <1>4 DEF Reordered

LEMMA DistributedRange ==
    ASSUME NEW S, NEW arr \in Seq(S), NEW digit \in [1 .. Len(arr) -> Nat]
    PROVE  Range(Distributed(arr, digit)) = Range(arr)
<1> DEFINE n == Len(arr)
           moved == Distributed(arr, digit)
<1>1. /\ moved \in Seq(S) /\ Len(moved) = n
      /\ \A k \in 1 .. n : moved[Rank(digit, n, k)] = arr[k]
  BY DistributedFacts
<1>2. n \in Nat /\ digit \in [1 .. n -> Nat] /\ DOMAIN arr = 1 .. n
  OBVIOUS
<1>3. DOMAIN moved = 1 .. n
  <2> HIDE DEF moved
  <2> QED
    BY <1>1
<1> HIDE DEF n, moved
<1>4. \A k \in 1 .. n : Rank(digit, n, k) \in 1 .. n
  BY <1>2, RankInRange
<1>5. Reordered(n, arr, moved)
  BY <1>1, <1>2, RankPermutes
<1>6. PICK f \in [1 .. n -> 1 .. n] : \A i \in 1 .. n : moved[i] = arr[f[i]]
  BY <1>5 DEF Reordered
<1>7. \A i \in 1 .. n : \E k \in 1 .. n : moved[i] = arr[k]
  BY <1>6
<1>8. \A k \in 1 .. n : \E i \in 1 .. n : moved[i] = arr[k]
  BY <1>1, <1>4
<1>9. Range(moved) = {moved[i] : i \in 1 .. n} /\ Range(arr) = {arr[i] : i \in 1 .. n}
  BY <1>2, <1>3 DEF Range
<1>10. Range(moved) = Range(arr)
  BY <1>7, <1>8, <1>9, ZenonT(30)
<1> QED
  BY <1>10 DEF moved

(* Numbers compare as their digits and remainders do.                      *)
LEMMA CompareDigits ==
    ASSUME NEW d \in Nat \ {0}, NEW a \in Nat, NEW b \in Nat,
           NEW x \in 0 .. d - 1, NEW y \in 0 .. d - 1,
           a < b \/ (a = b /\ x <= y)
    PROVE  a * d + x <= b * d + y
<1>1. a * d \in Nat /\ b * d \in Nat
  OBVIOUS
<1>2. CASE a < b
  <2>1. (a + 1) * d = a * d + d
    OBVIOUS
  <2>2. (a + 1) * d <= b * d
    BY <1>2
  <2> QED
    BY <1>1, <2>1, <2>2
<1>3. CASE a = b /\ x <= y
  BY <1>1, <1>3
<1> QED
  BY <1>2, <1>3

(* Cutting a value of w bits leaves no more bits than asked for.           *)
LEMMA CutFits ==
    ASSUME NEW w \in 1 .. 32, NEW b \in 1 .. w, NEW h \in 0 .. 2^w - 1
    PROVE  /\ (IF b < w THEN h % 2^b ELSE h) \in Nat
           /\ (IF b < w THEN h % 2^b ELSE h) < 2^b
<1>1. 2^b \in Nat \ {0} /\ 2^w \in Nat \ {0}
  <2>1. b \in 0 .. 38 /\ w \in 0 .. 38
    OBVIOUS
  <2> QED
    BY <2>1, Powers, Zenon
<1>2. h \in Nat /\ h < 2^w
  BY <1>1
<1>3. CASE b < w
  <2>1. h % 2^b \in 0 .. 2^b - 1
    BY <1>1, <1>2, Division
  <2> QED
    BY <1>1, <1>3, <2>1
<1>4. CASE ~(b < w)
  <2>1. b = w
    BY <1>4
  <2> QED
    BY <1>2, <1>4, <2>1
<1> QED
  BY <1>3, <1>4

(* Keys that are sorted by their lowest bits, and sorted.                  *)
SortedLow(keys, bits) ==
    \A i, j \in 1 .. Len(keys) : i < j => keys[i] % 2^bits <= keys[j] % 2^bits

SortedKeys(keys) == \A i, j \in 1 .. Len(keys) : i < j => keys[i] <= keys[j]

(* The digits of pass p, of r bits each.                                   *)
PassDigits(keys, p, r) == [i \in 1 .. Len(keys) |-> (keys[i] \div 2^(p * r)) % 2^r]

(* The passes reach the highest bit of a precision, and no farther than to *)
(* complete its digit.                                                     *)
LEMMA PassesReach ==
    ASSUME NEW b \in 1 .. 32, NEW r \in 1 .. 8
    PROVE  LET last == (b + r - 1) \div r
           IN  /\ last \in Nat
               /\ \A p \in Nat : p < last => p * r \in 0 .. 31
               /\ last * r \in b .. b + r - 1
<1> DEFINE n == b + r - 1
           q == n \div r
<1>1. n \in Nat /\ r \in Nat \ {0}
  OBVIOUS
<1> HIDE DEF n
<1>2. /\ q \in Nat /\ n % r \in 0 .. r - 1
      /\ n = q * r + (n % r)
  BY <1>1, Division
<1> HIDE DEF q
<1>3. q * r \in Nat
  BY <1>1, <1>2
<1>4. q * r \in b .. b + r - 1
  BY <1>1, <1>2, <1>3 DEF n
<1>5. ASSUME NEW p \in Nat, p < q PROVE p * r \in 0 .. 31
  <2>1. p + 1 <= q
    BY <1>2, <1>5
  <2>2. (p + 1) * r <= q * r
    BY <1>1, <1>2, <2>1
  <2>3. (p + 1) * r = p * r + r /\ p * r \in Nat
    BY <1>1
  <2> QED
    BY <1>4, <2>2, <2>3
<1> QED
  BY <1>2, <1>4, <1>5 DEF q, n

(* The bits below the next digit and the digit.                            *)
LEMMA NextBits ==
    ASSUME NEW x \in Nat, NEW p \in Nat, NEW r \in 1 .. 8, p * r \in 0 .. 31
    PROVE  /\ (p + 1) * r = p * r + r
           /\ x % 2^((p + 1) * r) =
                 ((x \div 2^(p * r)) % 2^r) * 2^(p * r) + (x % 2^(p * r))
           /\ x % 2^(p * r) \in 0 .. 2^(p * r) - 1
           /\ (x \div 2^(p * r)) % 2^r \in 0 .. 2^r - 1
<1> DEFINE m == p * r
<1>1. /\ r \in 0 .. 8 /\ r \in 0 .. 38
      /\ m \in 0 .. 39 /\ m \in 0 .. 38 /\ m + r <= 39 /\ r \in 0 .. 39
  OBVIOUS
<1>2. (p + 1) * r = m + r
  BY <1>1
<1> HIDE DEF m
<1>3. 2^m \in Nat \ {0} /\ 2^r \in Nat \ {0}
  BY <1>1, Powers, Zenon
<1>4. 2^(m + r) = 2^r * 2^m
  BY <1>1, PowerSum, Zenon
<1>5. x % (2^r * 2^m) = ((x \div 2^m) % 2^r) * 2^m + (x % 2^m)
  BY <1>3, TwoDigits
<1>6. x % 2^m \in 0 .. 2^m - 1 /\ x \div 2^m \in Nat
  BY <1>3, Division
<1>7. (x \div 2^m) % 2^r \in 0 .. 2^r - 1
  BY <1>3, <1>6, Division
<1> QED
  BY <1>2, <1>4, <1>5, <1>6, <1>7 DEF m

LEMMA PassDigitsType ==
    ASSUME NEW keys \in Seq(Nat), NEW p \in Nat, NEW r \in 1 .. 8, p * r \in 0 .. 31
    PROVE  PassDigits(keys, p, r) \in [1 .. Len(keys) -> Nat]
<1>1. \A i \in 1 .. Len(keys) : keys[i] \in Nat
  OBVIOUS
<1>2. \A i \in 1 .. Len(keys) : (keys[i] \div 2^(p * r)) % 2^r \in 0 .. 2^r - 1
  BY <1>1, NextBits
<1>3. 2^r \in Nat \ {0}
  <2>1. r \in 0 .. 38
    OBVIOUS
  <2> QED
    BY <2>1, Powers, Zenon
<1>4. \A i \in 1 .. Len(keys) : (keys[i] \div 2^(p * r)) % 2^r \in Nat
  BY <1>2, <1>3
<1> QED
  BY <1>4 DEF PassDigits

(* A stable pass: what was sorted by the lower digits is by this, too.     *)
LEMMA PassSortsKeys ==
    ASSUME NEW keys \in Seq(Nat), NEW moved \in Seq(Nat), Len(moved) = Len(keys),
           NEW p \in Nat, NEW r \in 1 .. 8, p * r \in 0 .. 31,
           SortedLow(keys, p * r),
           \A k \in 1 .. Len(keys) : moved[Rank(PassDigits(keys, p, r), Len(keys), k)] = keys[k]
    PROVE  SortedLow(moved, (p + 1) * r)
<1> DEFINE n == Len(keys)
           dig == PassDigits(keys, p, r)
           d == 2^(p * r)
           D == 2^((p + 1) * r)
           Low(k) == keys[k] % d
<1>1. n \in Nat /\ dig \in [1 .. n -> Nat]
  <2>1. PassDigits(keys, p, r) \in [1 .. Len(keys) -> Nat]
    BY PassDigitsType, Zenon
  <2> QED
    BY <2>1
<1>0. d \in Nat \ {0}
  <2>1. p * r \in 0 .. 38
    OBVIOUS
  <2> QED
    BY <2>1, Powers, Zenon
<1>2. ASSUME NEW k \in 1 .. n
      PROVE  /\ keys[k] \in Nat /\ dig[k] \in Nat /\ Low(k) \in 0 .. d - 1
             /\ keys[k] % D = dig[k] * d + Low(k)
  <2>1. keys[k] \in Nat
    OBVIOUS
  <2>2. dig[k] = (keys[k] \div d) % 2^r
    BY DEF PassDigits
  <2>3. /\ keys[k] % D = ((keys[k] \div d) % 2^r) * d + (keys[k] % d)
        /\ keys[k] % d \in 0 .. d - 1
    BY <2>1, NextBits
  <2>4. dig[k] \in Nat
    BY <1>1
  <2> HIDE DEF dig, d, D
  <2> QED
    BY <2>1, <2>2, <2>3, <2>4, Zenon
<1>3. \A k, m \in 1 .. n : k < m => Low(k) <= Low(m)
  BY DEF SortedLow
<1>4. \A k \in 1 .. n : moved[Rank(dig, n, k)] = keys[k]
  OBVIOUS
<1> HIDE DEF dig, d, D, Low
<1>5. ASSUME NEW i \in 1 .. n, NEW j \in 1 .. n, i < j
      PROVE  moved[i] % D <= moved[j] % D
  <2>1. PICK k \in 1 .. n : Rank(dig, n, k) = i
    BY <1>1, RankOnto
  <2>2. PICK m \in 1 .. n : Rank(dig, n, m) = j
    BY <1>1, RankOnto
  <2>3. moved[i] = keys[k] /\ moved[j] = keys[m]
    BY <1>4, <2>1, <2>2
  <2>4. dig[k] < dig[m] \/ (dig[k] = dig[m] /\ k < m)
    BY <1>1, <1>5, <2>1, <2>2, RankReflects
  <2>5. dig[k] * d + Low(k) <= dig[m] * d + Low(m)
    <3>1. dig[k] < dig[m] \/ (dig[k] = dig[m] /\ Low(k) <= Low(m))
      BY <1>3, <2>4
    <3>2. /\ dig[k] \in Nat /\ dig[m] \in Nat
          /\ Low(k) \in 0 .. d - 1 /\ Low(m) \in 0 .. d - 1
      BY <1>2
    <3> QED
      BY <1>0, <3>1, <3>2, CompareDigits
  <2> QED
    BY <1>2, <2>3, <2>5
<1> QED
  BY <1>5 DEF SortedLow, D

(* Before the first pass, nothing is known and nothing need be.            *)
LEMMA NoPassSorts ==
    ASSUME NEW keys \in Seq(Nat)
    PROVE  SortedLow(keys, 0)
<1>1. 2^0 = 1
  BY Powers
<1>2. \A i \in 1 .. Len(keys) : keys[i] % 1 = 0
  OBVIOUS
<1> QED
  BY <1>1, <1>2 DEF SortedLow

(* After the last, the keys themselves are sorted.                         *)
LEMMA AllPassesSort ==
    ASSUME NEW keys \in Seq(Nat), NEW b \in 1 .. 32, NEW r \in 1 .. 8,
           \A i \in 1 .. Len(keys) : keys[i] < 2^b,
           SortedLow(keys, ((b + r - 1) \div r) * r)
    PROVE  SortedKeys(keys)
<1> DEFINE bits == ((b + r - 1) \div r) * r
<1>1. bits \in b .. b + r - 1
  BY PassesReach
<1>2. SortedLow(keys, bits)
  OBVIOUS
<1> HIDE DEF bits
<1>3. bits \in 0 .. 39 /\ b \in 0 .. 39 /\ b <= bits
  BY <1>1
<1>4. 2^b <= 2^bits /\ 2^b \in Nat \ {0} /\ 2^bits \in Nat \ {0}
  BY <1>3, PowerOrder
<1> DEFINE B == 2^b
           P == 2^bits
<1>5. B <= P /\ B \in Nat /\ P \in Nat \ {0} /\ \A i \in 1 .. Len(keys) : keys[i] < B
  BY <1>4
<1>6. \A i, j \in 1 .. Len(keys) : i < j => keys[i] % P <= keys[j] % P
  BY <1>2 DEF SortedLow
<1> HIDE DEF B, P
<1>7. ASSUME NEW i \in 1 .. Len(keys)
      PROVE  keys[i] % P = keys[i]
  <2>1. keys[i] \in Nat /\ keys[i] \in 0 .. P - 1 /\ keys[i] = 0 * P + keys[i]
    BY <1>5
  <2> QED
    BY <1>5, <2>1, UniqueDivision
<1> QED
  BY <1>6, <1>7 DEF SortedKeys

(* The last of every run of equal elements, and how many there are of them *)
(* up to a position.                                                       *)
LastOfRuns(arr) == {i \in 1 .. Len(arr) : i < Len(arr) => arr[i] # arr[i + 1]}

UpToHere(S, i) == Cardinality({j \in S : j <= i})

LEMMA CountsUp ==
    ASSUME NEW n \in Nat, NEW S \in SUBSET (1 .. n)
    PROVE  /\ IsFiniteSet(S) /\ Cardinality(S) \in Nat /\ Cardinality(S) <= n
           /\ \A i \in S : UpToHere(S, i) \in 1 .. Cardinality(S)
           /\ \A i, j \in S : i < j => UpToHere(S, i) < UpToHere(S, j)
<1>1. IsFiniteSet(1 .. n) /\ Cardinality(1 .. n) = n
  BY FS_Interval
<1>2. IsFiniteSet(S) /\ Cardinality(S) <= n
  BY <1>1, FS_Subset
<1>3. Cardinality(S) \in Nat
  BY <1>2, FS_CardinalityType
<1> DEFINE To(i) == {j \in S : j <= i}
<1>4. ASSUME NEW i \in Int
      PROVE  IsFiniteSet(To(i)) /\ Cardinality(To(i)) \in Nat /\ Cardinality(To(i)) <= Cardinality(S)
  <2>1. To(i) \in SUBSET S
    OBVIOUS
  <2>2. IsFiniteSet(To(i)) /\ Cardinality(To(i)) <= Cardinality(S)
    BY <1>2, <2>1, FS_Subset
  <2> QED
    BY <2>2, FS_CardinalityType
<1>5. ASSUME NEW i \in S
      PROVE  UpToHere(S, i) \in 1 .. Cardinality(S)
  <2>1. i \in To(i) /\ i \in Int
    OBVIOUS
  <2> HIDE DEF To
  <2>2. Cardinality(To(i)) # 0
    BY <1>4, <2>1, FS_EmptySet
  <2>3. UpToHere(S, i) = Cardinality(To(i))
    BY DEF UpToHere, To
  <2> QED
    BY <1>3, <1>4, <2>1, <2>2, <2>3
<1>6. ASSUME NEW i \in S, NEW j \in S, i < j
      PROVE  UpToHere(S, i) < UpToHere(S, j)
  <2>0. i \in Int /\ j \in Int /\ i \in 1 .. n /\ j \in 1 .. n
    OBVIOUS
  <2>1. To(i) \in SUBSET To(j) /\ j \in To(j) /\ j \notin To(i)
    <3>1. \A x \in S : x \in Int
      OBVIOUS
    <3>2. \A x \in Int : x <= i => x <= j
      BY <1>6, <2>0
    <3>3. ~(j <= i) /\ j <= j
      BY <1>6, <2>0
    <3> QED
      BY <3>1, <3>2, <3>3, Zenon
  <2>2. UpToHere(S, i) = Cardinality(To(i)) /\ UpToHere(S, j) = Cardinality(To(j))
    BY DEF UpToHere
  <2> HIDE DEF To
  <2>3. /\ Cardinality(To(i)) <= Cardinality(To(j))
        /\ Cardinality(To(j)) = Cardinality(To(i)) => To(j) = To(i)
    BY <1>4, <2>0, <2>1, FS_Subset
  <2> QED
    BY <1>4, <2>0, <2>1, <2>2, <2>3
<1> QED
  BY <1>2, <1>3, <1>5, <1>6

(* The k-th member of a set of positions.                                  *)
LEMMA CountsOnto ==
    ASSUME NEW n \in Nat, NEW S \in SUBSET (1 .. n), NEW k \in 1 .. Cardinality(S)
    PROVE  \E i \in S : UpToHere(S, i) = k
<1> DEFINE m == Cardinality(S)
           f == [i \in S |-> UpToHere(S, i)]
<1>1. m \in Nat /\ IsFiniteSet(S)
  BY CountsUp
<1>2. f \in [S -> 1 .. m]
  BY CountsUp
<1>3. ASSUME NEW i \in S, NEW j \in S, i # j
      PROVE  f[i] # f[j]
  <2>1. UpToHere(S, i) \in 1 .. m /\ UpToHere(S, j) \in 1 .. m
    BY CountsUp
  <2>2. i < j => UpToHere(S, i) < UpToHere(S, j)
    BY CountsUp
  <2>3. j < i => UpToHere(S, j) < UpToHere(S, i)
    BY CountsUp
  <2>4. i \in Nat /\ j \in Nat
    OBVIOUS
  <2> QED
    BY <1>1, <1>3, <2>1, <2>2, <2>3, <2>4
<1>4. IsFiniteSet(1 .. m) /\ Cardinality(1 .. m) = m
  BY <1>1, FS_Interval
<1>5. k \in 1 .. m /\ m = Cardinality(S)
  OBVIOUS
<1>6. \A i \in S : f[i] = UpToHere(S, i)
  OBVIOUS
<1> HIDE DEF f, m
<1>7. f \in Injection(S, 1 .. m)
  BY <1>2, <1>3 DEF Injection, IsInjective
<1>8. f \in Surjection(S, 1 .. m)
  BY <1>4, <1>5, <1>7, FS_Injection
<1>9. \E i \in S : f[i] = k
  BY <1>5, <1>8 DEF Surjection
<1> QED
  BY <1>6, <1>9

(* Every element is that of the end of its run.                            *)
LEMMA RunEnds ==
    ASSUME NEW arr \in Seq(Nat), NEW k \in 1 .. Len(arr)
    PROVE  \E i \in LastOfRuns(arr) : arr[i] = arr[k]
<1> DEFINE n == Len(arr)
           S == {m \in Nat : n - m \in 1 .. n /\ arr[n - m] = arr[k]}
<1>1. n \in Nat /\ k \in 1 .. n
  OBVIOUS
<1>2. n - k \in S
  <2>1. n - k \in Nat /\ n - (n - k) = k
    BY <1>1
  <2> QED
    BY <1>1, <2>1
<1>3. PICK m \in S : \A x \in S : m <= x
  <2>1. S \in SUBSET Nat /\ S # {}
    BY <1>2
  <2> HIDE DEF S
  <2> QED
    BY <2>1, LeastNat
<1>4. m \in Nat /\ n - m \in 1 .. n /\ arr[n - m] = arr[k]
  OBVIOUS
<1>5. ASSUME n - m < n, arr[n - m] = arr[n - m + 1]
      PROVE  FALSE
  <2>1. m - 1 \in Nat /\ n - (m - 1) = n - m + 1 /\ n - m + 1 \in 1 .. n
    BY <1>1, <1>4, <1>5
  <2>2. m - 1 \in S
    BY <1>4, <1>5, <2>1
  <2> HIDE DEF S
  <2>3. m <= m - 1
    BY <1>3, <2>2
  <2> QED
    BY <1>4, <2>3
<1>6. n - m \in LastOfRuns(arr)
  BY <1>4, <1>5 DEF LastOfRuns
<1> QED
  BY <1>4, <1>6

(* A sorted array without its repetitions.                                 *)
LEMMA UniqueCorrect ==
    ASSUME NEW arr \in Seq(Nat), SortedKeys(arr)
    PROVE  /\ Unique(arr) \in Seq(Nat)
           /\ Len(Unique(arr)) <= Len(arr)
           /\ Ascending(Unique(arr))
           /\ Range(Unique(arr)) = Range(arr)
<1> DEFINE n == Len(arr)
           S == LastOfRuns(arr)
           c == Cardinality(S)
           Nth(k) == CHOOSE i \in S : UpToHere(S, i) = k
           u == [k \in 1 .. c |-> arr[Nth(k)]]
<1>1. n \in Nat /\ DOMAIN arr = 1 .. n /\ S \in SUBSET (1 .. n)
  BY DEF LastOfRuns
<1>2. c \in Nat /\ c <= n
  BY <1>1, CountsUp
<1>3. Unique(arr) = u
  BY <1>1 DEF Unique, LastOfRuns, UpToHere
<1>4. ASSUME NEW k \in 1 .. c
      PROVE  Nth(k) \in S /\ UpToHere(S, Nth(k)) = k
  <2>1. \E i \in S : UpToHere(S, i) = k
    BY <1>1, CountsOnto
  <2> QED
    BY <2>1
<1>5. \A i \in 1 .. n : arr[i] \in Nat
  OBVIOUS
<1>6. ASSUME NEW i \in S, NEW j \in S, i < j
      PROVE  arr[i] < arr[j]
  <2>1. i \in 1 .. n /\ j \in 1 .. n /\ i < n /\ i + 1 \in 1 .. n
    BY <1>1, <1>6
  <2>2. arr[i] # arr[i + 1]
    BY <2>1 DEF LastOfRuns
  <2>3. arr[i] <= arr[i + 1] /\ (i + 1 = j \/ arr[i + 1] <= arr[j])
    BY <1>6, <2>1 DEF SortedKeys
  <2> QED
    BY <1>5, <2>1, <2>2, <2>3
<1> HIDE DEF S, c, Nth
<1>7. u \in Seq(Nat) /\ Len(u) = c /\ DOMAIN u = 1 .. c
  <2>1. \A k \in 1 .. c : arr[Nth(k)] \in Nat
    BY <1>1, <1>4, <1>5
  <2> QED
    BY <1>2, <2>1
<1>8. ASSUME NEW k \in 1 .. c, NEW m \in 1 .. c, k < m
      PROVE  u[k] < u[m]
  <2> DEFINE i == Nth(k)
             j == Nth(m)
  <2>0. i \in S /\ j \in S /\ UpToHere(S, i) = k /\ UpToHere(S, j) = m
    BY <1>4
  <2>2. u[k] = arr[i] /\ u[m] = arr[j]
    OBVIOUS
  <2> HIDE DEF i, j, u
  <2>1. i \in S /\ j \in S /\ UpToHere(S, i) = k /\ UpToHere(S, j) = m /\ i \in Nat /\ j \in Nat
    BY <1>1, <2>0
  <2>3. j < i => UpToHere(S, j) < UpToHere(S, i)
    BY <1>1, <2>1, CountsUp
  <2>4. i < j
    BY <1>2, <1>8, <2>1, <2>3
  <2> QED
    BY <1>6, <2>1, <2>2, <2>4
<1>9. Ascending(u)
  BY <1>7, <1>8 DEF Ascending
<1>10. ASSUME NEW k \in 1 .. n
       PROVE  \E p \in 1 .. c : u[p] = arr[k]
  <2>1. PICK i \in S : arr[i] = arr[k]
    BY RunEnds DEF S
  <2> DEFINE p == UpToHere(S, i)
  <2>2. p \in 1 .. c
    BY <1>1, CountsUp DEF c
  <2>3. Nth(p) \in S /\ UpToHere(S, Nth(p)) = p
    BY <1>4, <2>2
  <2> DEFINE j == Nth(p)
  <2>4. u[p] = arr[j]
    BY <2>2
  <2>5. j \in S /\ UpToHere(S, j) = p /\ UpToHere(S, i) = p
    BY <2>3
  <2> HIDE DEF j, p, u
  <2>6. i \in Nat /\ j \in Nat /\ p \in Nat
    BY <1>1, <2>2, <2>5
  <2>7. /\ i < j => UpToHere(S, i) < UpToHere(S, j)
        /\ j < i => UpToHere(S, j) < UpToHere(S, i)
    BY <1>1, <2>5, CountsUp
  <2>8. i = j
    BY <2>5, <2>6, <2>7
  <2> QED
    BY <2>1, <2>2, <2>4, <2>8
<1>11. Range(u) = Range(arr)
  <2>1. \A p \in 1 .. c : \E k \in 1 .. n : u[p] = arr[k]
    BY <1>1, <1>4
  <2>2. Range(u) = {u[p] : p \in 1 .. c} /\ Range(arr) = {arr[k] : k \in 1 .. n}
    BY <1>1, <1>7 DEF Range
  <2> HIDE DEF u
  <2> QED
    BY <1>10, <2>1, <2>2
<1> QED
  BY <1>2, <1>3, <1>7, <1>9, <1>11
===============================================================================
