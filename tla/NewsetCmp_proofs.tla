--------------------------- MODULE NewsetCmp_proofs ---------------------------
(***************************************************************************)
(* The comparison of newset.c, from the inside out, and its builder.       *)
(*                                                                         *)
(* The walk, for ascending arrays of any length over any values: the       *)
(* galloping search leaves a window that holds the lower bound, and the    *)
(* two flags decide both inclusions wherever the walk ends.                *)
(*                                                                         *)
(* The cache, of any size, with its pivot anywhere: the strings hit last   *)
(* lead it.                                                                *)
(*                                                                         *)
(* rpmsetcmp, over both: it answers as SetVersion, which knows neither.    *)
(*                                                                         *)
(* The builder, for any names and hash values: it is a set of symbols.     *)
(***************************************************************************)
EXTENDS NewsetCmp, NewsetBuilder, CommonFacts, SequenceTheorems

(* What the walk relies on, and decoding and reducing deliver.             *)
Walkable(arr) == arr \in Seq(Nat) /\ Len(arr) >= 1 /\ Ascending(arr)

TypeOK ==
    /\ Walkable(arr1)
    /\ Walkable(arr2)
    /\ at1 \in 0 .. Len(arr1)
    /\ at2 \in 0 .. Len(arr2)
    /\ ge \in BOOLEAN
    /\ le \in BOOLEAN
    /\ lo \in Nat /\ hi \in Nat /\ left \in Nat /\ right \in Nat
    /\ pc \in {"merge", "gallop", "bisect", "done"}
    /\ result \in Int

In1(v) == \E i \in 1 .. Len(arr1) : arr1[i] = v
In2(v) == \E j \in 1 .. Len(arr2) : arr2[j] = v

(* What either flag says of the part walked over.                          *)
GeInv ==
    /\ ge => \A j \in 1 .. at2 : In1(arr2[j])
    /\ ~ge => \E j \in 1 .. Len(arr2) : ~In1(arr2[j])
LeInv ==
    /\ le => \A i \in 1 .. at1 : In2(arr1[i])
    /\ ~le => \E i \in 1 .. Len(arr1) : ~In2(arr1[i])

(* What was passed in one array is below all that is left of the other.    *)
OrderInv ==
    /\ \A i \in 1 .. at1 : \A j \in at2 + 1 .. Len(arr2) : arr1[i] < arr2[j]
    /\ \A j \in 1 .. at2 : \A i \in at1 + 1 .. Len(arr1) : arr2[j] < arr1[i]

(* A search is under way: an element of the first array was missed.        *)
Searching == pc \in {"gallop", "bisect"}
HeadsInv == Searching => at1 < Len(arr1) /\ at2 < Len(arr2) /\ ~le

(* The doubling has left an element below the value behind it.             *)
GallopInv == pc = "gallop" => lo < hi /\ hi <= n /\ First(lo) < head2

IInv == /\ TypeOK
        /\ GeInv
        /\ LeInv
        /\ OrderInv
        /\ HeadsInv
        /\ GallopInv
        /\ WindowHolds
        /\ AnswersVerdict

-----------------------------------------------------------------------------
(* The arrays are ascending sequences of naturals.                         *)
LEMMA ArrayFacts ==
    ASSUME TypeOK
    PROVE  /\ Len(arr1) \in Nat /\ Len(arr2) \in Nat
           /\ at1 \in Nat /\ at2 \in Nat
           /\ at1 <= Len(arr1) /\ at2 <= Len(arr2)
           /\ DOMAIN arr1 = 1 .. Len(arr1) /\ DOMAIN arr2 = 1 .. Len(arr2)
           /\ \A i \in 1 .. Len(arr1) : arr1[i] \in Nat
           /\ \A j \in 1 .. Len(arr2) : arr2[j] \in Nat
           /\ \A i, j \in 1 .. Len(arr1) : i < j => arr1[i] < arr1[j]
           /\ \A i, j \in 1 .. Len(arr2) : i < j => arr2[i] < arr2[j]
<1>1. /\ arr1 \in Seq(Nat) /\ Ascending(arr1)
      /\ arr2 \in Seq(Nat) /\ Ascending(arr2)
  BY DEF TypeOK, Walkable
<1>2. /\ Len(arr1) \in Nat /\ DOMAIN arr1 = 1 .. Len(arr1)
      /\ Len(arr2) \in Nat /\ DOMAIN arr2 = 1 .. Len(arr2)
  BY <1>1
<1>3. /\ \A i \in 1 .. Len(arr1) : arr1[i] \in Nat
      /\ \A j \in 1 .. Len(arr2) : arr2[j] \in Nat
  BY <1>1
<1>4. at1 \in 0 .. Len(arr1) /\ at2 \in 0 .. Len(arr2)
  BY DEF TypeOK
<1>5. at1 \in Nat /\ at2 \in Nat /\ at1 <= Len(arr1) /\ at2 <= Len(arr2)
  BY <1>2, <1>4
<1> QED
  BY <1>1, <1>2, <1>3, <1>5 DEF Ascending

(* The counts of the two walks.                                            *)
LEMMA CountFacts ==
    ASSUME TypeOK
    PROVE  /\ Len(arr1) \in Nat /\ Len(arr2) \in Nat
           /\ at1 \in Nat /\ at2 \in Nat
           /\ at1 <= Len(arr1) /\ at2 <= Len(arr2)
  BY ArrayFacts

(* A value above what was passed and below the head of the first array is  *)
(* not in it.                                                              *)
LEMMA NotInFirst ==
    ASSUME TypeOK, OrderInv, at2 < Len(arr2), at1 < Len(arr1) => head2 < head1
    PROVE  ~In1(head2)
<1>1. ASSUME NEW i \in 1 .. Len(arr1), arr1[i] = head2 PROVE FALSE
  <2>1. CASE i <= at1
    BY <1>1, <2>1, ArrayFacts DEF OrderInv, head2
  <2>2. CASE i > at1
    <3>1. at1 < Len(arr1) /\ head2 < arr1[at1 + 1]
      BY <1>1, <2>2, ArrayFacts DEF head1
    <3>2. i = at1 + 1 \/ arr1[at1 + 1] < arr1[i]
      BY <1>1, <2>2, <3>1, ArrayFacts
    <3>3. arr1[at1 + 1] \in Nat /\ arr1[i] \in Nat
      BY <1>1, <3>1, ArrayFacts
    <3> QED
      BY <1>1, <3>1, <3>2, <3>3
  <2> QED
    BY <1>1, <2>1, <2>2, ArrayFacts
<1> QED
  BY <1>1 DEF In1

(* The same of the second array.                                           *)
LEMMA NotInSecond ==
    ASSUME TypeOK, OrderInv, at1 < Len(arr1), at2 < Len(arr2) => head1 < head2
    PROVE  ~In2(head1)
<1>1. ASSUME NEW j \in 1 .. Len(arr2), arr2[j] = head1 PROVE FALSE
  <2>1. CASE j <= at2
    BY <1>1, <2>1, ArrayFacts DEF OrderInv, head1
  <2>2. CASE j > at2
    <3>1. at2 < Len(arr2) /\ head1 < arr2[at2 + 1]
      BY <1>1, <2>2, ArrayFacts DEF head2
    <3>2. j = at2 + 1 \/ arr2[at2 + 1] < arr2[j]
      BY <1>1, <2>2, <3>1, ArrayFacts
    <3>3. arr2[at2 + 1] \in Nat /\ arr2[j] \in Nat
      BY <1>1, <3>1, ArrayFacts
    <3> QED
      BY <1>1, <3>1, <3>2, <3>3
  <2> QED
    BY <1>1, <2>1, <2>2, ArrayFacts
<1> QED
  BY <1>1 DEF In2

(* The walk starts with the invariant.                                     *)
LEMMA InitInv == Init => IInv
<1> SUFFICES ASSUME Init PROVE IInv
  OBVIOUS
<1>0. Walkable(arr1) /\ Walkable(arr2)
  BY ArraysAssumption DEF Init, Walkable
<1>1. Len(arr1) \in Nat /\ Len(arr2) \in Nat
  BY <1>0 DEF Walkable
<1>2. TypeOK
  BY <1>0, <1>1 DEF Init, WalkStart, TypeOK
<1>3. GeInv /\ LeInv /\ OrderInv
  BY <1>1 DEF Init, WalkStart, GeInv, LeInv, OrderInv
<1>4. HeadsInv /\ GallopInv /\ WindowHolds /\ AnswersVerdict
  BY DEF Init, HeadsInv, Searching, GallopInv, WindowHolds, AnswersVerdict
<1> QED
  BY <1>2, <1>3, <1>4 DEF IInv

-----------------------------------------------------------------------------
(* The steps of the walk.                                                  *)
LEMMA OnlyInSecondInv == IInv /\ OnlyInSecond => IInv'
<1> SUFFICES ASSUME IInv, OnlyInSecond PROVE IInv'
  OBVIOUS
<1>0. TypeOK /\ GeInv /\ LeInv /\ OrderInv
  BY DEF IInv
<1>a. /\ pc = "merge" /\ at1 < Len(arr1) /\ at2 < Len(arr2) /\ head2 < head1
      /\ ge' = FALSE /\ at2' = at2 + 1
      /\ UNCHANGED <<arr1, arr2, at1, le, lo, hi, left, right, pc, result>>
  BY DEF OnlyInSecond, InBoth, gallop
<1>b. at2 + 1 \in 0 .. Len(arr2)
  BY <1>0, <1>a, CountFacts
<1>1. TypeOK'
  BY <1>0, <1>a, <1>b DEF TypeOK
<1>2. GeInv'
  <2>1. ~In1(head2)
    BY <1>0, <1>a, NotInFirst
  <2>2. at2 + 1 \in 1 .. Len(arr2)
    BY <1>0, <1>a, ArrayFacts
  <2> QED
    BY <1>a, <2>1, <2>2 DEF GeInv, In1, head2
<1>3. LeInv'
  BY <1>0, <1>a DEF LeInv, In2
<1>4. OrderInv'
  <2>1. ASSUME NEW i \in at1 + 1 .. Len(arr1) PROVE arr2[at2 + 1] < arr1[i]
    <3>1. i = at1 + 1 \/ arr1[at1 + 1] < arr1[i]
      BY <1>0, <1>a, ArrayFacts
    <3>2. arr1[at1 + 1] \in Nat /\ arr1[i] \in Nat /\ arr2[at2 + 1] \in Nat
      BY <1>0, <1>a, ArrayFacts
    <3> QED
      BY <1>a, <3>1, <3>2 DEF head1, head2
  <2>2. at2 \in Nat /\ Len(arr1) \in Nat /\ Len(arr2) \in Nat
    BY <1>0, CountFacts
  <2>3. ASSUME NEW i \in 1 .. at1, NEW j \in (at2 + 1) + 1 .. Len(arr2)
        PROVE  arr1[i] < arr2[j]
    <3>1. j \in at2 + 1 .. Len(arr2)
      BY <2>2
    <3> QED
      BY <1>0, <3>1 DEF OrderInv
  <2>4. ASSUME NEW j \in 1 .. at2 + 1, NEW i \in at1 + 1 .. Len(arr1)
        PROVE  arr2[j] < arr1[i]
    <3>1. j = at2 + 1 \/ j \in 1 .. at2
      BY <2>2
    <3> QED
      BY <1>0, <2>1, <3>1 DEF OrderInv
  <2> QED
    BY <1>a, <2>3, <2>4 DEF OrderInv
<1>5. HeadsInv' /\ GallopInv' /\ WindowHolds' /\ AnswersVerdict'
  BY <1>a DEF HeadsInv, Searching, GallopInv, WindowHolds, AnswersVerdict
<1> QED
  BY <1>1, <1>2, <1>3, <1>4, <1>5 DEF IInv

LEMMA CommonInv == IInv /\ Common => IInv'
<1> SUFFICES ASSUME IInv, Common PROVE IInv'
  OBVIOUS
<1>0. TypeOK /\ GeInv /\ LeInv /\ OrderInv
  BY DEF IInv
<1>a. /\ pc = "merge" /\ at1 < Len(arr1) /\ at2 < Len(arr2)
      /\ arr1[at1 + 1] = arr2[at2 + 1]
      /\ at1' = at1 + 1 /\ at2' = at2 + 1
      /\ UNCHANGED <<arr1, arr2, ge, le, lo, hi, left, right, pc, result>>
  BY DEF Common, InBoth, gallop, head1, head2
<1>b. at1 + 1 \in 1 .. Len(arr1) /\ at2 + 1 \in 1 .. Len(arr2)
  BY <1>0, <1>a, ArrayFacts
<1>1. TypeOK'
  BY <1>0, <1>a, ArrayFacts DEF TypeOK
<1>2. GeInv'
  <2>1. ASSUME ge, NEW j \in 1 .. at2 + 1 PROVE In1(arr2[j])
    <3>1. CASE j = at2 + 1
      BY <1>a, <1>b, <3>1 DEF In1
    <3>2. CASE j # at2 + 1
      BY <1>0, <2>1, <3>2, ArrayFacts DEF GeInv
    <3> QED
      BY <3>1, <3>2
  <2> QED
    BY <1>0, <1>a, <2>1 DEF GeInv, In1
<1>3. LeInv'
  <2>1. ASSUME le, NEW i \in 1 .. at1 + 1 PROVE In2(arr1[i])
    <3>1. CASE i = at1 + 1
      BY <1>a, <1>b, <3>1 DEF In2
    <3>2. CASE i # at1 + 1
      BY <1>0, <2>1, <3>2, ArrayFacts DEF LeInv
    <3> QED
      BY <3>1, <3>2
  <2> QED
    BY <1>0, <1>a, <2>1 DEF LeInv, In2
<1>4. OrderInv'
  <2>1. ASSUME NEW j \in at2 + 2 .. Len(arr2) PROVE arr1[at1 + 1] < arr2[j]
    BY <1>0, <1>a, ArrayFacts
  <2>2. ASSUME NEW i \in at1 + 2 .. Len(arr1) PROVE arr2[at2 + 1] < arr1[i]
    BY <1>0, <1>a, ArrayFacts
  <2>3. /\ at1 \in Nat /\ at2 \in Nat /\ Len(arr1) \in Nat /\ Len(arr2) \in Nat
    BY <1>0, CountFacts
  <2>4. ASSUME NEW i \in 1 .. at1 + 1, NEW j \in (at2 + 1) + 1 .. Len(arr2)
        PROVE  arr1[i] < arr2[j]
    <3>1. j \in at2 + 1 .. Len(arr2) /\ j \in at2 + 2 .. Len(arr2)
      BY <2>3
    <3>2. i = at1 + 1 \/ i \in 1 .. at1
      BY <2>3
    <3> QED
      BY <1>0, <2>1, <3>1, <3>2 DEF OrderInv
  <2>5. ASSUME NEW j \in 1 .. at2 + 1, NEW i \in (at1 + 1) + 1 .. Len(arr1)
        PROVE  arr2[j] < arr1[i]
    <3>1. i \in at1 + 1 .. Len(arr1) /\ i \in at1 + 2 .. Len(arr1)
      BY <2>3
    <3>2. j = at2 + 1 \/ j \in 1 .. at2
      BY <2>3
    <3> QED
      BY <1>0, <2>2, <3>1, <3>2 DEF OrderInv
  <2> QED
    BY <1>a, <2>4, <2>5 DEF OrderInv
<1>5. HeadsInv' /\ GallopInv' /\ WindowHolds' /\ AnswersVerdict'
  BY <1>a DEF HeadsInv, Searching, GallopInv, WindowHolds, AnswersVerdict
<1> QED
  BY <1>1, <1>2, <1>3, <1>4, <1>5 DEF IInv

LEMMA OnlyInFirstInv == IInv /\ OnlyInFirst => IInv'
<1> SUFFICES ASSUME IInv, OnlyInFirst PROVE IInv'
  OBVIOUS
<1>0. TypeOK /\ GeInv /\ LeInv /\ OrderInv
  BY DEF IInv
<1>a. /\ pc = "merge" /\ at1 < Len(arr1) /\ at2 < Len(arr2) /\ head1 < head2
      /\ le' = FALSE /\ lo' = 0 /\ hi' = 1 /\ pc' = "gallop"
      /\ UNCHANGED <<arr1, arr2, at1, at2, ge, left, right, result>>
  BY DEF OnlyInFirst, InBoth
<1>1. TypeOK'
  BY <1>0, <1>a DEF TypeOK
<1>2. GeInv'
  BY <1>0, <1>a DEF GeInv, In1
<1>3. LeInv'
  <2>1. ~In2(head1)
    BY <1>0, <1>a, NotInSecond
  <2>2. at1 + 1 \in 1 .. Len(arr1)
    BY <1>0, <1>a, ArrayFacts
  <2> QED
    BY <1>a, <2>1, <2>2 DEF LeInv, In2, head1
<1>4. OrderInv'
  BY <1>0, <1>a DEF OrderInv
<1>5. HeadsInv' /\ GallopInv'
  BY <1>0, <1>a, ArrayFacts DEF HeadsInv, Searching, GallopInv, n, First, head1, head2
<1>6. WindowHolds' /\ AnswersVerdict'
  BY <1>a DEF WindowHolds, AnswersVerdict
<1> QED
  BY <1>1, <1>2, <1>3, <1>4, <1>5, <1>6 DEF IInv

-----------------------------------------------------------------------------
(* The steps of the search.                                                *)
LEMMA DoubleInv == IInv /\ Double => IInv'
<1> SUFFICES ASSUME IInv, Double PROVE IInv'
  OBVIOUS
<1>0. TypeOK /\ GeInv /\ LeInv /\ OrderInv /\ HeadsInv /\ GallopInv
  BY DEF IInv
<1>a. /\ pc = "gallop" /\ hi < n /\ First(hi) < head2 /\ lo' = hi
      /\ hi' = IF hi > n \div 2 THEN n ELSE 2 * hi
      /\ UNCHANGED <<arr1, arr2, at1, at2, ge, le, left, right, pc, result>>
  BY DEF Double, Below, LowBound
<1>b. hi \in Nat /\ lo \in Nat /\ n \in Nat /\ lo < hi
  BY <1>0, <1>a, ArrayFacts DEF TypeOK, GallopInv, n
<1>c. hi' \in Nat /\ hi < hi' /\ hi' <= n
  BY <1>a, <1>b
<1>1. TypeOK'
  BY <1>0, <1>a, <1>b, <1>c DEF TypeOK
<1>2. GeInv' /\ LeInv' /\ OrderInv'
  BY <1>0, <1>a DEF GeInv, LeInv, OrderInv, In1, In2
<1>3. HeadsInv' /\ GallopInv'
  BY <1>0, <1>a, <1>c DEF HeadsInv, Searching, GallopInv, n, First, head2
<1>4. WindowHolds' /\ AnswersVerdict'
  BY <1>a DEF WindowHolds, AnswersVerdict
<1> QED
  BY <1>1, <1>2, <1>3, <1>4 DEF IInv

LEMMA BracketInv == IInv /\ Bracket => IInv'
<1> SUFFICES ASSUME IInv, Bracket PROVE IInv'
  OBVIOUS
<1>0. TypeOK /\ GeInv /\ LeInv /\ OrderInv /\ HeadsInv /\ GallopInv
  BY DEF IInv
<1>a. /\ pc = "gallop" /\ ~(hi < n /\ First(hi) < head2)
      /\ left' = lo + 1 /\ right' = (IF hi < n THEN hi + 1 ELSE n)
      /\ pc' = "bisect"
      /\ UNCHANGED <<arr1, arr2, at1, at2, ge, le, lo, hi, result>>
  BY DEF Bracket, Below
<1>b. hi \in Nat /\ lo \in Nat /\ n \in Nat /\ lo < hi /\ hi <= n /\ First(lo) < head2
  BY <1>0, <1>a, ArrayFacts DEF TypeOK, GallopInv, n
<1>c. left' \in Nat /\ right' \in Nat /\ 1 <= left' /\ left' <= right' /\ right' <= n
  BY <1>a, <1>b
<1>1. TypeOK'
  BY <1>0, <1>a, <1>c DEF TypeOK
<1>2. GeInv' /\ LeInv' /\ OrderInv'
  BY <1>0, <1>a DEF GeInv, LeInv, OrderInv, In1, In2
<1>3. HeadsInv' /\ GallopInv' /\ AnswersVerdict'
  BY <1>0, <1>a DEF HeadsInv, Searching, GallopInv, AnswersVerdict
<1>4. WindowHolds'
  <2>1. First(left' - 1) < head2
    BY <1>a, <1>b
  <2>2. ASSUME right' < n PROVE First(right') >= head2
    <3>1. hi < n /\ right' = hi + 1 /\ ~(First(hi) < head2)
      BY <1>a, <1>b, <2>2
    <3>2. /\ at1 + hi + 1 \in 1 .. Len(arr1) /\ at1 + (hi + 1) + 1 \in 1 .. Len(arr1)
          /\ at2 + 1 \in 1 .. Len(arr2)
      <4>1. hi + 1 < Len(arr1) - at1 /\ at2 < Len(arr2)
        BY <1>0, <1>a, <2>2, <3>1 DEF n, HeadsInv, Searching
      <4> QED
        BY <1>0, <1>b, <4>1, CountFacts
    <3>3. at1 + hi + 1 < at1 + (hi + 1) + 1
      BY <1>0, <1>b, ArrayFacts
    <3>4. First(hi) < First(hi + 1)
      BY <1>0, <3>2, <3>3, ArrayFacts DEF First
    <3>5. First(hi) \in Nat /\ First(hi + 1) \in Nat /\ head2 \in Nat
      BY <1>0, <3>2, ArrayFacts DEF First, head2
    <3> QED
      BY <3>1, <3>4, <3>5
  <2> QED
    BY <1>a, <1>c, <2>1, <2>2 DEF WindowHolds, n, First, head2
<1> QED
  BY <1>1, <1>2, <1>3, <1>4 DEF IInv

LEMMA BisectInv == IInv /\ Bisect => IInv'
<1> SUFFICES ASSUME IInv, Bisect PROVE IInv'
  OBVIOUS
<1> DEFINE mid == left + ((right - left) \div 2)
<1>0. TypeOK /\ GeInv /\ LeInv /\ OrderInv /\ HeadsInv /\ WindowHolds
  BY DEF IInv
<1>a. /\ pc = "bisect" /\ left < right
      /\ IF First(mid) < head2 THEN left' = mid + 1 /\ right' = right
                               ELSE right' = mid /\ left' = left
      /\ UNCHANGED <<arr1, arr2, at1, at2, ge, le, lo, hi, pc, result>>
  BY DEF Bisect, AfterMid
<1>b. /\ left \in Nat /\ right \in Nat /\ n \in Nat /\ 1 <= left /\ right <= n
      /\ First(left - 1) < head2
      /\ right < n => First(right) >= head2
  BY <1>0, <1>a, ArrayFacts DEF TypeOK, WindowHolds, n
<1>c. mid \in Nat /\ left <= mid /\ mid < right
  BY <1>a, <1>b
<1>d. First(mid) \in Nat /\ head2 \in Nat
  <2>1. at1 + mid + 1 \in 1 .. Len(arr1) /\ at2 + 1 \in 1 .. Len(arr2)
    <3> HIDE DEF mid
    <3>1. at1 \in Nat /\ at2 \in Nat /\ Len(arr1) \in Nat /\ Len(arr2) \in Nat
      BY <1>0, ArrayFacts
    <3>2. at2 < Len(arr2)
      BY <1>0, <1>a DEF HeadsInv, Searching
    <3>3. mid < n /\ n = Len(arr1) - at1
      BY <1>b, <1>c, <3>1 DEF n
    <3> HIDE DEF n
    <3> QED
      BY ONLY <3>1, <3>2, <3>3, <1>c
  <2> HIDE DEF mid
  <2> QED
    BY <1>0, <2>1, ArrayFacts DEF First, head2
<1> HIDE DEF mid
<1>1. TypeOK'
  BY <1>0, <1>a, <1>b, <1>c DEF TypeOK
<1>2. GeInv' /\ LeInv' /\ OrderInv'
  BY <1>0, <1>a DEF GeInv, LeInv, OrderInv, In1, In2
<1>3. HeadsInv' /\ GallopInv' /\ AnswersVerdict'
  BY <1>0, <1>a DEF HeadsInv, Searching, GallopInv, AnswersVerdict
<1>4. WindowHolds'
  <2>1. n' = n /\ head2' = head2 /\ (pc = "bisect")'
    BY <1>a DEF n, head2
  <2>2. First(left' - 1) < head2
    BY <1>a, <1>b, <1>c
  <2>3. right' < n => First(right') >= head2
    BY <1>a, <1>b, <1>c, <1>d
  <2>4. 1 <= left' /\ left' <= right' /\ right' <= n
    BY <1>a, <1>b, <1>c
  <2> QED
    BY <1>a, <2>1, <2>2, <2>3, <2>4 DEF WindowHolds, First
<1> QED
  BY <1>1, <1>2, <1>3, <1>4 DEF IInv

(* The search stands on the lower bound: all before it is below the head   *)
(* of the second array, and the element there is not.                      *)
LEMMA BoundFound ==
    ASSUME IInv, pc = "bisect", left >= right
    PROVE  /\ left \in Nat /\ 1 <= left /\ at1 + left <= Len(arr1)
           /\ at2 < Len(arr2) /\ ~le
           /\ \A i \in 1 .. at1 + left : arr1[i] < head2
           /\ at1 + left < Len(arr1) => arr1[at1 + left + 1] >= head2
<1>0. TypeOK /\ HeadsInv /\ WindowHolds
  BY DEF IInv
<1>1. /\ left \in Nat /\ right \in Nat /\ left = right /\ 1 <= left /\ left <= n
      /\ First(left - 1) < head2 /\ (left < n => First(left) >= head2)
  BY <1>0 DEF WindowHolds, TypeOK
<1>2. at2 < Len(arr2) /\ ~le
  BY <1>0 DEF HeadsInv, Searching
<1>3. at1 + left <= Len(arr1)
  BY <1>0, <1>1, ArrayFacts DEF n
<1>4. arr1[at1 + left] < head2
  <2>1. at1 + (left - 1) + 1 = at1 + left
    BY <1>0, <1>1, ArrayFacts
  <2> QED
    BY <1>1, <2>1 DEF First
<1>5. ASSUME NEW i \in 1 .. at1 + left PROVE arr1[i] < head2
  <2>1. i = at1 + left \/ arr1[i] < arr1[at1 + left]
    BY <1>0, <1>1, <1>3, ArrayFacts
  <2>2. arr1[i] \in Nat /\ arr1[at1 + left] \in Nat /\ head2 \in Nat
    BY <1>0, <1>1, <1>2, <1>3, ArrayFacts DEF head2
  <2> QED
    BY <1>4, <2>1, <2>2
<1>6. at1 + left < Len(arr1) => arr1[at1 + left + 1] >= head2
  BY <1>0, <1>1, ArrayFacts DEF n, First
<1> QED
  BY <1>1, <1>2, <1>3, <1>5, <1>6

LEMMA LandedInv == IInv /\ Landed => IInv'
<1> SUFFICES ASSUME IInv, Landed PROVE IInv'
  OBVIOUS
<1> DEFINE k == at1 + left
<1>0. TypeOK /\ GeInv /\ LeInv /\ OrderInv
  BY DEF IInv
<1>a. /\ pc = "bisect" /\ left >= right
      /\ IF k = Len(arr1) THEN at1' = k /\ at2' = at2 /\ ge' = ge
         ELSE IF arr1[k + 1] = head2 THEN at1' = k + 1 /\ at2' = at2 + 1 /\ ge' = ge
         ELSE at1' = k /\ at2' = at2 + 1 /\ ge' = FALSE
      /\ pc' = "merge"
      /\ UNCHANGED <<arr1, arr2, le, lo, hi, left, right, result>>
  BY DEF Landed, gallop, GeAfterMiss
<1>b. /\ k \in Nat /\ k <= Len(arr1) /\ k >= 1 /\ at2 < Len(arr2) /\ ~le
      /\ \A i \in 1 .. k : arr1[i] < head2
      /\ k < Len(arr1) => arr1[k + 1] >= head2
  BY <1>0, <1>a, BoundFound, ArrayFacts
<1> HIDE DEF k
<1>c. at2 + 1 \in 1 .. Len(arr2) /\ head2 = arr2[at2 + 1] /\ head2 \in Nat
  BY <1>0, <1>b, ArrayFacts DEF head2
(* All that was skipped is below all that is left of the second array.     *)
<1>d. \A i \in 1 .. k : \A j \in at2 + 1 .. Len(arr2) : arr1[i] < arr2[j]
  <2> TAKE i \in 1 .. k
  <2> TAKE j \in at2 + 1 .. Len(arr2)
  <2>1. j = at2 + 1 \/ arr2[at2 + 1] < arr2[j]
    BY <1>0, <1>c, ArrayFacts
  <2>2. arr1[i] \in Nat /\ arr2[j] \in Nat
    BY <1>0, <1>b, ArrayFacts
  <2> QED
    BY <1>b, <1>c, <2>1, <2>2
<1>e. \A j \in 1 .. at2 : \A i \in k + 1 .. Len(arr1) : arr2[j] < arr1[i]
  <2> SUFFICES ASSUME NEW j \in 1 .. at2, NEW i \in k + 1 .. Len(arr1)
               PROVE  i \in at1 + 1 .. Len(arr1)
    BY <1>0 DEF OrderInv
  <2>1. at1 <= k
    <3>1. at1 \in Nat /\ left \in Nat
      BY <1>0, CountFacts DEF TypeOK
    <3> QED
      BY <3>1 DEF k
  <2> QED
    BY <1>0, <1>b, <2>1, ArrayFacts
<1>f. LeInv'
  BY <1>0, <1>a, <1>b DEF LeInv, In2
<1>g. HeadsInv' /\ GallopInv' /\ WindowHolds' /\ AnswersVerdict'
  BY <1>a DEF HeadsInv, Searching, GallopInv, WindowHolds, AnswersVerdict
<1>1. CASE k = Len(arr1)
  <2>a. at1' = k /\ at2' = at2 /\ ge' = ge
    BY <1>a, <1>1
  <2>1. TypeOK'
    BY <1>0, <1>a, <1>b, <2>a DEF TypeOK
  <2>2. GeInv'
    BY <1>0, <1>a, <2>a DEF GeInv, In1
  <2>3. OrderInv'
    BY <1>a, <1>d, <1>e, <2>a DEF OrderInv
  <2> QED
    BY <1>f, <1>g, <2>1, <2>2, <2>3 DEF IInv
<1>2. CASE k # Len(arr1) /\ arr1[k + 1] = head2
  <2>a. at1' = k + 1 /\ at2' = at2 + 1 /\ ge' = ge
    BY <1>a, <1>2
  <2>b. k + 1 \in 1 .. Len(arr1) /\ k + 1 \in 0 .. Len(arr1)
    BY <1>0, <1>b, <1>2, CountFacts
  <2>1. TypeOK'
    <3>1. at2 + 1 \in 0 .. Len(arr2)
      BY <1>0, <1>b, CountFacts
    <3> QED
      BY <1>0, <1>a, <2>a, <2>b, <3>1 DEF TypeOK
  <2>2. GeInv'
    <3>1. ASSUME ge, NEW j \in 1 .. at2 + 1 PROVE In1(arr2[j])
      <4>1. CASE j = at2 + 1
        BY <1>2, <1>c, <2>b, <4>1 DEF In1
      <4>2. CASE j # at2 + 1
        BY <1>0, <3>1, <4>2, ArrayFacts DEF GeInv
      <4> QED
        BY <4>1, <4>2
    <3> QED
      BY <1>0, <1>a, <2>a, <3>1 DEF GeInv, In1
  <2>3. OrderInv'
    <3>1. ASSUME NEW j \in at2 + 2 .. Len(arr2) PROVE arr1[k + 1] < arr2[j]
      BY <1>0, <1>2, <1>c, ArrayFacts
    <3>2. ASSUME NEW i \in k + 2 .. Len(arr1) PROVE arr2[at2 + 1] < arr1[i]
      <4>1. i \in 1 .. Len(arr1) /\ k + 1 < i
        BY <1>0, <1>b, CountFacts
      <4> QED
        BY <1>0, <1>2, <1>c, <2>b, <4>1, ArrayFacts
    <3>3. at2 \in Nat /\ Len(arr1) \in Nat /\ Len(arr2) \in Nat
      BY <1>0, ArrayFacts
    <3>4. \A i \in 1 .. k + 1 : \A j \in at2 + 2 .. Len(arr2) : arr1[i] < arr2[j]
      <4> SUFFICES ASSUME NEW i \in 1 .. k + 1, NEW j \in at2 + 2 .. Len(arr2)
                   PROVE  arr1[i] < arr2[j]
        OBVIOUS
      <4>1. CASE i = k + 1
        BY <3>1, <4>1
      <4>2. CASE i # k + 1
        <5>1. i \in 1 .. k /\ j \in at2 + 1 .. Len(arr2)
          BY <4>2, <1>b, <3>3
        <5> QED
          BY <5>1, <1>d
      <4> QED
        BY <4>1, <4>2
    <3>5. \A j \in 1 .. at2 + 1 : \A i \in k + 2 .. Len(arr1) : arr2[j] < arr1[i]
      <4> SUFFICES ASSUME NEW j \in 1 .. at2 + 1, NEW i \in k + 2 .. Len(arr1)
                   PROVE  arr2[j] < arr1[i]
        OBVIOUS
      <4>1. CASE j = at2 + 1
        BY <3>2, <4>1
      <4>2. CASE j # at2 + 1
        <5>1. j \in 1 .. at2 /\ i \in k + 1 .. Len(arr1)
          BY <4>2, <1>b, <3>3
        <5> QED
          BY <5>1, <1>e
      <4> QED
        BY <4>1, <4>2
    <3>6. at1' + 1 = k + 2 /\ at2' + 1 = at2 + 2
      BY <1>b, <2>a, <3>3
    <3> QED
      BY <1>a, <2>a, <3>4, <3>5, <3>6 DEF OrderInv
  <2> QED
    BY <1>f, <1>g, <2>1, <2>2, <2>3 DEF IInv
<1>3. CASE k # Len(arr1) /\ arr1[k + 1] # head2
  <2>a. at1' = k /\ at2' = at2 + 1 /\ ge' = FALSE
    BY <1>a, <1>3
  <2>b. k + 1 \in 1 .. Len(arr1) /\ arr1[k + 1] \in Nat
    <3>1. k + 1 \in 1 .. Len(arr1)
      BY <1>0, <1>b, <1>3, CountFacts
    <3> QED
      BY <1>0, <3>1, ArrayFacts
  <2>c. head2 < arr1[k + 1]
    BY <1>b, <1>c, <1>3, <2>b
  <2>d. ASSUME NEW i \in k + 1 .. Len(arr1) PROVE head2 < arr1[i]
    <3>1. i = k + 1 \/ arr1[k + 1] < arr1[i]
      BY <1>0, <1>b, <2>b, ArrayFacts
    <3>2. arr1[i] \in Nat
      BY <1>0, <1>b, ArrayFacts
    <3> QED
      BY <1>c, <2>b, <2>c, <3>1, <3>2
  <2>1. TypeOK'
    <3>1. at2 + 1 \in 0 .. Len(arr2) /\ k \in 0 .. Len(arr1)
      BY <1>0, <1>b, CountFacts
    <3> QED
      BY <1>0, <1>a, <2>a, <3>1 DEF TypeOK
  <2>2. GeInv'
    <3>1. ASSUME NEW i \in 1 .. Len(arr1) PROVE arr1[i] # arr2[at2 + 1]
      <4>1. arr1[i] \in Nat /\ (i <= k \/ i \in k + 1 .. Len(arr1))
        BY <1>0, <1>b, ArrayFacts
      <4> QED
        BY <1>b, <1>c, <2>d, <4>1
    <3> QED
      BY <1>a, <1>c, <2>a, <3>1 DEF GeInv, In1
  <2>3. OrderInv'
    <3>1. at2 \in Nat /\ Len(arr2) \in Nat
      BY <1>0, ArrayFacts
    <3> QED
      BY <1>a, <1>c, <1>d, <1>e, <2>a, <2>d, <3>1 DEF OrderInv
  <2> QED
    BY <1>f, <1>g, <2>1, <2>2, <2>3 DEF IInv
<1> QED
  BY <1>1, <1>2, <1>3

-----------------------------------------------------------------------------
(* The end: what is left of an array decides with its flag.                *)
LEMMA ConcludeInv == IInv /\ Conclude => IInv'
<1> SUFFICES ASSUME IInv, Conclude PROVE IInv'
  OBVIOUS
<1> DEFINE leAll == le /\ at1 = Len(arr1)
           geAll == ge /\ at2 = Len(arr2)
<1>0. TypeOK /\ GeInv /\ LeInv /\ OrderInv
  BY DEF IInv
<1>a. /\ pc = "merge" /\ ~InBoth
      /\ result' = (IF geAll /\ leAll THEN 0 ELSE IF geAll THEN 1 ELSE IF leAll THEN -1 ELSE -2)
      /\ pc' = "done"
      /\ UNCHANGED <<arr1, arr2, at1, at2, ge, le, lo, hi, left, right>>
  BY DEF Conclude, merge, gallop
<1>b. /\ result' \in -2 .. 1
      /\ (result' \in {0, 1}) <=> geAll
      /\ (result' \in {0, -1}) <=> leAll
  BY <1>a
<1>1. geAll <=> \A j \in 1 .. Len(arr2) : In1(arr2[j])
  <2>1. CASE ge /\ at2 < Len(arr2)
    <3>1. at1 = Len(arr1)
      BY <1>0, <1>a, <2>1, ArrayFacts DEF InBoth
    <3>2. ~In1(head2)
      BY <1>0, <2>1, <3>1, NotInFirst, ArrayFacts
    <3>3. at2 + 1 \in 1 .. Len(arr2) /\ at2 # Len(arr2)
      BY <1>0, <2>1, ArrayFacts
    <3> QED
      BY <3>2, <3>3 DEF head2
  <2>2. CASE ~ge \/ at2 = Len(arr2)
    BY <1>0, <2>2 DEF GeInv
  <2> QED
    BY <1>0, <2>1, <2>2, ArrayFacts
<1>2. leAll <=> \A i \in 1 .. Len(arr1) : In2(arr1[i])
  <2>1. CASE le /\ at1 < Len(arr1)
    <3>1. at2 = Len(arr2)
      BY <1>0, <1>a, <2>1, ArrayFacts DEF InBoth
    <3>2. ~In2(head1)
      BY <1>0, <2>1, <3>1, NotInSecond, ArrayFacts
    <3>3. at1 + 1 \in 1 .. Len(arr1) /\ at1 # Len(arr1)
      BY <1>0, <2>1, ArrayFacts
    <3> QED
      BY <3>2, <3>3 DEF head1
  <2>2. CASE ~le \/ at1 = Len(arr1)
    BY <1>0, <2>2 DEF LeInv
  <2> QED
    BY <1>0, <2>1, <2>2, ArrayFacts
<1>3. (\A j \in 1 .. Len(arr2) : In1(arr2[j])) <=> Range(arr2) \subseteq Range(arr1)
  <2>1. DOMAIN arr1 = 1 .. Len(arr1) /\ DOMAIN arr2 = 1 .. Len(arr2)
    BY <1>0, ArrayFacts
  <2> QED
    BY <2>1 DEF In1, Range
<1>4. (\A i \in 1 .. Len(arr1) : In2(arr1[i])) <=> Range(arr1) \subseteq Range(arr2)
  <2>1. DOMAIN arr1 = 1 .. Len(arr1) /\ DOMAIN arr2 = 1 .. Len(arr2)
    BY <1>0, ArrayFacts
  <2> QED
    BY <2>1 DEF In2, Range
<1> HIDE DEF leAll, geAll
<1>5. TypeOK'
  BY <1>0, <1>a, <1>b DEF TypeOK
<1>6. GeInv' /\ LeInv' /\ OrderInv'
  BY <1>0, <1>a DEF GeInv, LeInv, OrderInv, In1, In2
<1>7. HeadsInv' /\ GallopInv' /\ WindowHolds'
  BY <1>a DEF HeadsInv, Searching, GallopInv, WindowHolds
<1>8. AnswersVerdict'
  BY <1>a, <1>b, <1>1, <1>2, <1>3, <1>4 DEF AnswersVerdict
<1> QED
  BY <1>5, <1>6, <1>7, <1>8 DEF IInv

(* A step that changes nothing.                                            *)
LEMMA StutterInv == IInv /\ UNCHANGED vars => IInv'
<1> SUFFICES ASSUME IInv, UNCHANGED vars PROVE IInv'
  OBVIOUS
<1>1. UNCHANGED <<arr1, arr2, at1, at2, ge, le, lo, hi, left, right, pc, result>>
  BY DEF vars, merge, gallop
<1> QED
  BY <1>1 DEF IInv, TypeOK, GeInv, LeInv, OrderInv, HeadsInv, Searching, GallopInv,
              WindowHolds, AnswersVerdict, In1, In2, n, First, head2

LEMMA NextInv == IInv /\ [MergeStep \/ Returned]_vars => IInv'
  BY OnlyInSecondInv, CommonInv, OnlyInFirstInv, DoubleInv, BracketInv, BisectInv,
     LandedInv, ConcludeInv, StutterInv DEF MergeStep, Returned

(* The invariant, for arrays of any length.                                *)
LEMMA Invariance == Spec => []IInv
  BY InitInv, NextInv, PTL DEF Spec

-----------------------------------------------------------------------------
(* Whatever ended the doubling, the window that is bisected starts behind  *)
(* an element below the value and ends at one that is not, or at the end   *)
(* of the array (newset.c:638-650).                                        *)
THEOREM WindowCorrect == Spec => []WindowHolds
<1>1. IInv => WindowHolds
  BY DEF IInv
<1> QED
  BY <1>1, Invariance, PTL

(* The answer of the two flags is inclusion both ways, wherever the walk   *)
(* was left (newset.c:719-760).                                            *)
THEOREM VerdictCorrect == Spec => []AnswersVerdict
<1>1. IInv => AnswersVerdict
  BY DEF IInv
<1> QED
  BY <1>1, Invariance, PTL

-----------------------------------------------------------------------------
(* The cache: an array of entries that is rearranged in place.             *)

(* An element taken out of a sequence.                                     *)
LEMMA RemoveAtFacts ==
    ASSUME NEW S, NEW s \in Seq(S), NEW i \in 1 .. Len(s)
    PROVE  /\ RemoveAt(s, i) \in Seq(S)
           /\ Len(RemoveAt(s, i)) = Len(s) - 1
           /\ \A k \in 1 .. Len(s) - 1 :
                 RemoveAt(s, i)[k] = IF k < i THEN s[k] ELSE s[k + 1]
<1> DEFINE front == SubSeq(s, 1, i - 1)
           rest == SubSeq(s, i + 1, Len(s))
<1>1. /\ front \in Seq(S) /\ Len(front) = i - 1
      /\ \A k \in 1 .. i - 1 : front[k] = s[k]
  OBVIOUS
<1>2. /\ rest \in Seq(S) /\ Len(rest) = Len(s) - i
      /\ \A k \in 1 .. Len(s) - i : rest[k] = s[i + k]
  OBVIOUS
<1>3. RemoveAt(s, i) = front \o rest
  BY DEF RemoveAt
<1> HIDE DEF front, rest
<1>4. /\ front \o rest \in Seq(S)
      /\ Len(front \o rest) = Len(front) + Len(rest)
      /\ \A k \in 1 .. Len(front) + Len(rest) : (front \o rest)[k] =
            IF k <= Len(front) THEN front[k] ELSE rest[k - Len(front)]
  <2>1. front \in Seq(S) /\ rest \in Seq(S)
    BY <1>1, <1>2
  <2> QED
    BY ONLY <2>1, ConcatProperties
<1>5. Len(s) \in Nat /\ i \in Nat
  OBVIOUS
<1>6. ASSUME NEW k \in 1 .. Len(s) - 1
      PROVE  (front \o rest)[k] = IF k < i THEN s[k] ELSE s[k + 1]
  <2>1. CASE k < i
    BY <1>1, <1>2, <1>4, <1>5, <2>1
  <2>2. CASE ~(k < i)
    <3>1. (front \o rest)[k] = rest[k - (i - 1)]
      BY <1>1, <1>2, <1>4, <1>5, <2>2
    <3>2. k - (i - 1) \in 1 .. Len(s) - i /\ i + (k - (i - 1)) = k + 1
      BY <1>5, <2>2
    <3> QED
      BY <1>2, <2>2, <3>1, <3>2
  <2> QED
    BY <2>1, <2>2
<1> QED
  BY <1>1, <1>2, <1>3, <1>4, <1>5, <1>6

(* An element moved to the front, or a new one put there.                  *)
LEMMA FrontedFacts ==
    ASSUME NEW S, NEW s \in Seq(S), NEW x \in S
    PROVE  /\ <<x>> \o s \in Seq(S)
           /\ Len(<<x>> \o s) = Len(s) + 1
           /\ \A k \in 1 .. Len(s) + 1 :
                 (<<x>> \o s)[k] = IF k = 1 THEN x ELSE s[k - 1]
  OBVIOUS

IsMoved(s, i, m) ==
    /\ Len(m) = Len(s)
    /\ \A k \in 1 .. Len(s) :
          m[k] = IF k = 1 THEN s[i] ELSE IF k <= i THEN s[k - 1] ELSE s[k]

LEMMA MovedFacts ==
    ASSUME NEW S, NEW s \in Seq(S), NEW i \in 1 .. Len(s)
    PROVE  LET m == <<s[i]>> \o RemoveAt(s, i)
           IN  m \in Seq(S) /\ IsMoved(s, i, m)
<1> DEFINE m == <<s[i]>> \o RemoveAt(s, i)
<1> DEFINE out == RemoveAt(s, i)
<1>1. /\ out \in Seq(S) /\ Len(out) = Len(s) - 1
      /\ \A k \in 1 .. Len(s) - 1 : out[k] = IF k < i THEN s[k] ELSE s[k + 1]
  BY RemoveAtFacts
<1>2. s[i] \in S /\ Len(s) \in Nat /\ i \in Nat
  OBVIOUS
<1> DEFINE x == s[i]
<1> HIDE DEF out, x
<1>3. /\ <<x>> \o out \in Seq(S)
      /\ Len(<<x>> \o out) = Len(out) + 1
      /\ \A k \in 1 .. Len(out) + 1 :
            (<<x>> \o out)[k] = IF k = 1 THEN x ELSE out[k - 1]
  <2>1. x \in S /\ out \in Seq(S)
    BY <1>1, <1>2 DEF x
  <2> QED
    BY ONLY <2>1, FrontedFacts
<1>4. m = <<x>> \o out
  BY DEF x, out
<1>5. Len(m) = Len(s)
  BY <1>1, <1>2, <1>3, <1>4
<1>6. ASSUME NEW k \in 1 .. Len(s)
      PROVE  m[k] = IF k = 1 THEN x ELSE IF k <= i THEN s[k - 1] ELSE s[k]
  <2>1. m[k] = IF k = 1 THEN x ELSE out[k - 1]
    <3>1. k \in 1 .. Len(out) + 1
      BY <1>1, <1>2
    <3> QED
      BY <3>1, <1>3, <1>4
  <2>2. CASE k # 1
    <3>1. k - 1 \in 1 .. Len(s) - 1 /\ (k - 1 < i <=> k <= i) /\ (k - 1) + 1 = k
      BY <1>2, <2>2
    <3> QED
      BY <1>1, <2>1, <2>2, <3>1
  <2> QED
    BY <2>1, <2>2
<1> QED
  BY <1>3, <1>4, <1>5, <1>6 DEF x, IsMoved

(* The history keeps its order when a string comes to its front.           *)
LEMMA RemoveFirstFacts ==
    ASSUME NEW s, NEW e
    PROVE  \/ (\A k \in 1 .. Len(s) : s[k] # e) /\ RemoveFirst(s, e) = s
           \/ \E i \in 1 .. Len(s) : s[i] = e /\ RemoveFirst(s, e) = RemoveAt(s, i)
<1> DEFINE T == {k \in 1 .. Len(s) : s[k] = e}
<1>1. CASE T = {}
  BY <1>1 DEF RemoveFirst
<1>2. CASE T # {}
  <2>1. PICK low \in T : \A k \in T : low <= k
    <3>1. T \subseteq Nat
      OBVIOUS
    <3> QED
      BY <3>1, <1>2, LeastNat
  <2>2. Min(T) \in T
    BY <2>1, Zenon DEF Min
  <2>3. RemoveFirst(s, e) = RemoveAt(s, SelectInSeq(s, LAMBDA v : v = e))
    BY <1>2 DEF RemoveFirst
  <2>4. SelectInSeq(s, LAMBDA v : v = e) = Min(T)
    BY <1>2 DEF SelectInSeq
  <2> QED
    BY <2>2, <2>3, <2>4
<1> QED
  BY <1>1, <1>2

(* What is held, and how the history relates to it.                        *)
Decodable == {s \in Str : s.values # <<>>}
Held == {Entry(s) : s \in Decodable}

SingleEntries(c) == \A i, j \in 1 .. Len(c) : c[i].str = c[j].str => i = j

Leads(h, c) ==
    /\ h \in Seq(Str)
    /\ Len(h) <= Len(c)
    /\ \A k \in 1 .. Len(h) : c[k].str = h[k]

CacheInv ==
    /\ cache \in Seq(Held)
    /\ Len(cache) <= CACHE_SIZE
    /\ SingleEntries(cache)
    /\ Leads(hits, cache)
    /\ Len(hits) <= PIVOT_SIZE

LEMMA HeldFacts ==
    ASSUME NEW e \in Held
    PROVE  /\ e.str \in Str /\ e.str.values # <<>>
           /\ e.fp = Fingerprint(e.str)
           /\ e.hash_arr = e.str.values
           /\ e = Entry(e.str)
  BY DEF Held, Decodable, Entry

AfterHit(c, h, m, all) ==
    /\ m \in Seq(Held) /\ Len(m) = Len(c)
    /\ SingleEntries(m)
    /\ Leads(all, m)
    /\ Len(all) <= Len(h) + 1

(* A hit moves its entry in the array as it moves its string in the        *)
(* history.                                                                *)
LEMMA HitLeads ==
    ASSUME NEW c \in Seq(Held), SingleEntries(c), NEW h, Leads(h, c),
           NEW i \in 1 .. Len(c), NEW s \in Str, c[i].str = s
    PROVE  AfterHit(c, h, <<c[i]>> \o RemoveAt(c, i), <<s>> \o RemoveFirst(h, s))
<1> DEFINE m == <<c[i]>> \o RemoveAt(c, i)
           all == <<s>> \o RemoveFirst(h, s)
<1> SUFFICES AfterHit(c, h, m, all)
  OBVIOUS
<1>0. /\ Len(c) \in Nat /\ i \in Nat /\ h \in Seq(Str) /\ Len(h) \in Nat /\ Len(h) <= Len(c)
      /\ \A k \in 1 .. Len(h) : c[k].str = h[k]
  BY DEF Leads
<1>1. /\ m \in Seq(Held)
      /\ Len(m) = Len(c)
      /\ \A k \in 1 .. Len(c) :
            m[k] = IF k = 1 THEN c[i] ELSE IF k <= i THEN c[k - 1] ELSE c[k]
  <2>1. c \in Seq(Held) /\ i \in 1 .. Len(c) /\ m = <<c[i]>> \o RemoveAt(c, i)
    OBVIOUS
  <2> QED
    <3>1. <<c[i]>> \o RemoveAt(c, i) \in Seq(Held)
          /\ IsMoved(c, i, <<c[i]>> \o RemoveAt(c, i))
      BY ONLY <2>1, MovedFacts
    <3> QED
      BY <2>1, <3>1 DEF IsMoved
<1>2. SingleEntries(m)
  <2> DEFINE p(k) == IF k = 1 THEN i ELSE IF k <= i THEN k - 1 ELSE k
  <2>1. \A k \in 1 .. Len(c) : p(k) \in 1 .. Len(c) /\ m[k] = c[p(k)]
    BY <1>0, <1>1
  <2>2. \A k, l \in 1 .. Len(c) : p(k) = p(l) => k = l
    BY <1>0
  <2> HIDE DEF p
  <2> SUFFICES ASSUME NEW k \in 1 .. Len(c), NEW l \in 1 .. Len(c), m[k].str = m[l].str
               PROVE  k = l
    BY <1>1 DEF SingleEntries
  <2>3. p(k) \in 1 .. Len(c) /\ p(l) \in 1 .. Len(c) /\ c[p(k)].str = c[p(l)].str
    BY <2>1
  <2>4. p(k) = p(l)
    BY <2>3 DEF SingleEntries
  <2> QED
    BY <2>2, <2>4
<1>3. CASE (\A k \in 1 .. Len(h) : h[k] # s) /\ RemoveFirst(h, s) = h
  <2>1. Len(h) < i
    BY <1>0, <1>3
  <2>2. /\ all \in Seq(Str) /\ Len(all) = Len(h) + 1
        /\ \A k \in 1 .. Len(h) + 1 : all[k] = IF k = 1 THEN s ELSE h[k - 1]
    BY <1>0, <1>3, FrontedFacts
  <2>3. ASSUME NEW k \in 1 .. Len(all) PROVE m[k].str = all[k]
    <3>1. k \in 1 .. Len(c) /\ k \in 1 .. Len(h) + 1 /\ k <= i
      BY <1>0, <2>1, <2>2
    <3>2. CASE k = 1
      BY <1>1, <2>2, <3>1, <3>2
    <3>3. CASE k # 1
      <4>1. k - 1 \in 1 .. Len(h) /\ m[k] = c[k - 1] /\ all[k] = h[k - 1]
        BY <1>0, <1>1, <2>2, <3>1, <3>3
      <4> QED
        BY <1>0, <4>1
    <3> QED
      BY <3>2, <3>3
  <2>4. Len(all) <= Len(m) /\ Len(all) <= Len(h) + 1
    BY <1>0, <1>1, <2>1, <2>2
  <2> QED
    BY <1>1, <1>2, <2>2, <2>3, <2>4 DEF Leads, AfterHit
<1>4. ASSUME NEW j \in 1 .. Len(h), h[j] = s, RemoveFirst(h, s) = RemoveAt(h, j)
      PROVE  Leads(all, m) /\ Len(all) <= Len(h) + 1
  <2>1. j = i
    <3>1. j \in 1 .. Len(c) /\ c[j].str = c[i].str
      BY <1>0, <1>4
    <3> QED
      BY <3>1 DEF SingleEntries
  <2>2. all = <<h[j]>> \o RemoveAt(h, j)
    BY <1>4
  <2>3. /\ all \in Seq(Str) /\ Len(all) = Len(h)
        /\ \A k \in 1 .. Len(h) :
              all[k] = IF k = 1 THEN h[j] ELSE IF k <= j THEN h[k - 1] ELSE h[k]
    <3>1. h \in Seq(Str) /\ j \in 1 .. Len(h) /\ all = <<h[j]>> \o RemoveAt(h, j)
      BY <1>0, <1>4, <2>2
    <3>2. <<h[j]>> \o RemoveAt(h, j) \in Seq(Str)
          /\ IsMoved(h, j, <<h[j]>> \o RemoveAt(h, j))
      BY ONLY <3>1, MovedFacts
    <3> QED
      BY <3>1, <3>2 DEF IsMoved
  <2>4. ASSUME NEW k \in 1 .. Len(all) PROVE m[k].str = all[k]
    <3>1. k \in 1 .. Len(c) /\ k \in 1 .. Len(h)
      BY <1>0, <2>3
    <3>2. CASE k = 1
      BY <1>1, <1>4, <2>3, <3>1, <3>2
    <3>3. CASE k # 1 /\ k <= i
      <4>1. k - 1 \in 1 .. Len(h) /\ m[k] = c[k - 1] /\ all[k] = h[k - 1]
        BY <1>0, <1>1, <2>1, <2>3, <3>1, <3>3
      <4> QED
        BY <1>0, <4>1
    <3>4. CASE k # 1 /\ ~(k <= i)
      <4>1. m[k] = c[k] /\ all[k] = h[k]
        BY <1>1, <2>1, <2>3, <3>1, <3>4
      <4> QED
        BY <1>0, <3>1, <4>1
    <3> QED
      BY <3>2, <3>3, <3>4
  <2> QED
    BY <1>0, <1>1, <2>3, <2>4 DEF Leads
<1> QED
  <2>1. \/ (\A k \in 1 .. Len(h) : h[k] # s) /\ RemoveFirst(h, s) = h
        \/ \E j \in 1 .. Len(h) : h[j] = s /\ RemoveFirst(h, s) = RemoveAt(h, j)
    BY RemoveFirstFacts
  <2> HIDE DEF m, all
  <2>2. Leads(all, m) /\ Len(all) <= Len(h) + 1
    BY <2>1, <1>3, <1>4 DEF AfterHit
  <2> QED
    BY <1>1, <1>2, <2>2 DEF AfterHit

(* The oldest string of the history is forgotten.                          *)
LEMMA FrontLeads ==
    ASSUME NEW h, NEW c, Leads(h, c), Len(c) \in Nat, Len(h) >= 1
    PROVE  Leads(Front(h), c) /\ Len(Front(h)) = Len(h) - 1
<1>1. h \in Seq(Str) /\ Len(h) \in Nat
  BY DEF Leads
<1>2. /\ Front(h) \in Seq(Str) /\ Len(Front(h)) = Len(h) - 1
      /\ \A k \in 1 .. Len(h) - 1 : Front(h)[k] = h[k]
  <2> DEFINE L == Len(h) - 1
  <2>1. L \in Nat /\ L <= Len(h) /\ Front(h) = SubSeq(h, 1, L)
    BY <1>1 DEF Front
  <2> HIDE DEF L
  <2>2. /\ SubSeq(h, 1, L) \in Seq(Str)
        /\ Len(SubSeq(h, 1, L)) = L
        /\ \A k \in 1 .. L : SubSeq(h, 1, L)[k] = h[k]
    BY <1>1, <2>1
  <2> QED
    BY <2>1, <2>2 DEF L
<1>3. Len(h) - 1 <= Len(c)
  BY <1>1 DEF Leads
<1> QED
  BY <1>1, <1>2, <1>3 DEF Leads

(* A new entry goes behind the entries that were hit.                      *)
LEMMA InsertLeads ==
    ASSUME CacheInv, NEW s \in Decodable, \A k \in 1 .. Len(cache) : cache[k].str # s,
           NEW c, c = Inserted(Entry(s))
    PROVE  /\ c \in Seq(Held)
           /\ Len(c) <= CACHE_SIZE
           /\ SingleEntries(c)
           /\ Leads(hits, c)
<1> DEFINE e == Entry(s)
<1>0. /\ cache \in Seq(Held) /\ Len(cache) \in Nat /\ Len(cache) <= CACHE_SIZE
      /\ hits \in Seq(Str) /\ Len(hits) \in Nat /\ Len(hits) <= PIVOT_SIZE
      /\ Len(hits) <= Len(cache)
      /\ \A k \in 1 .. Len(hits) : cache[k].str = hits[k]
      /\ CACHE_SIZE \in Nat /\ PIVOT_SIZE \in 1 .. CACHE_SIZE - 1
  BY CacheAssumption DEF CacheInv, Leads
<1>1. e \in Held /\ e.str = s
  BY DEF Held, Entry
<1> HIDE DEF e
<1>2. CASE Len(cache) < CACHE_SIZE
  <2>1. c = Append(cache, e)
    BY <1>2 DEF Inserted, e
  <2>2. /\ c \in Seq(Held) /\ Len(c) = Len(cache) + 1
        /\ \A k \in 1 .. Len(cache) : c[k] = cache[k]
        /\ c[Len(cache) + 1] = e
    BY <1>0, <1>1, <2>1
  <2>3. SingleEntries(c)
    <3> SUFFICES ASSUME NEW i \in 1 .. Len(cache) + 1, NEW j \in 1 .. Len(cache) + 1,
                        c[i].str = c[j].str
                 PROVE  i = j
      BY <2>2 DEF SingleEntries
    <3>1. CASE i \in 1 .. Len(cache) /\ j \in 1 .. Len(cache)
      BY <2>2, <3>1 DEF CacheInv, SingleEntries
    <3>2. CASE i \notin 1 .. Len(cache) /\ j \in 1 .. Len(cache)
      <4>1. i = Len(cache) + 1
        BY <1>0, <3>2
      <4> QED
        BY <1>1, <2>2, <3>2, <4>1
    <3>3. CASE i \in 1 .. Len(cache) /\ j \notin 1 .. Len(cache)
      <4>1. j = Len(cache) + 1
        <5> DEFINE L == Len(cache)
        <5>1. L \in Nat /\ j \in 1 .. L + 1 /\ j \notin 1 .. L
          BY <1>0, <3>3
        <5> QED
          BY ONLY <5>1
      <4> QED
        BY <1>1, <2>2, <3>3, <4>1
    <3>4. CASE i \notin 1 .. Len(cache) /\ j \notin 1 .. Len(cache)
      BY <1>0, <3>4
    <3> QED
      BY <3>1, <3>2, <3>3, <3>4
  <2>4. Leads(hits, c)
    <3>1. \A k \in 1 .. Len(hits) : k \in 1 .. Len(cache)
      BY <1>0
    <3>2. Len(hits) <= Len(c)
      BY <1>0, <2>2
    <3> QED
      BY <1>0, <2>2, <3>1, <3>2 DEF Leads
  <2>5. Len(c) <= CACHE_SIZE
    BY <1>0, <1>2, <2>2
  <2> QED
    BY <2>2, <2>3, <2>4, <2>5
<1>3. CASE Len(cache) = CACHE_SIZE
  <2> DEFINE kept == SubSeq(cache, 1, CACHE_SIZE - 1)
             before == SubSeq(kept, 1, PIVOT_SIZE)
             behind == SubSeq(kept, PIVOT_SIZE + 1, CACHE_SIZE - 1)
             L == CACHE_SIZE
             P == PIVOT_SIZE
  <2>1. /\ kept \in Seq(Held) /\ Len(kept) = L - 1
        /\ \A k \in 1 .. L - 1 : kept[k] = cache[k]
    BY <1>0, <1>3
  <2>2. c = before \o <<e>> \o behind
    <3>1. c = InsertAt(kept, P + 1, e)
      BY <1>0, <1>3 DEF Inserted, PivotIndex, e
    <3>2. (P + 1) - 1 = P
      BY <1>0
    <3> HIDE DEF kept
    <3> QED
      BY <2>1, <3>1, <3>2 DEF InsertAt
  <2> HIDE DEF kept
  <2>3. /\ before \in Seq(Held) /\ Len(before) = P
        /\ \A k \in 1 .. P : before[k] = cache[k]
    BY <1>0, <2>1
  <2>4. /\ behind \in Seq(Held) /\ Len(behind) = L - 1 - P
        /\ \A k \in 1 .. L - 1 - P : behind[k] = cache[P + k]
    BY <1>0, <2>1
  <2> HIDE DEF before, behind
  <2>5. <<e>> \in Seq(Held) /\ Len(<<e>>) = 1 /\ <<e>>[1] = e
    BY <1>1
  <2> DEFINE upto == before \o <<e>>
  <2>6. /\ upto \in Seq(Held) /\ Len(upto) = Len(before) + Len(<<e>>)
        /\ \A k \in 1 .. Len(before) + Len(<<e>>) :
              upto[k] = IF k <= Len(before) THEN before[k] ELSE <<e>>[k - Len(before)]
    <3>1. before \in Seq(Held) /\ <<e>> \in Seq(Held)
      BY <2>3, <2>5
    <3> QED
      BY ONLY <3>1, ConcatProperties
  <2> HIDE DEF upto
  <2>7. /\ upto \o behind \in Seq(Held) /\ Len(upto \o behind) = Len(upto) + Len(behind)
        /\ \A k \in 1 .. Len(upto) + Len(behind) :
              (upto \o behind)[k] = IF k <= Len(upto) THEN upto[k] ELSE behind[k - Len(upto)]
    <3>1. upto \in Seq(Held) /\ behind \in Seq(Held)
      BY <2>4, <2>6
    <3> QED
      BY ONLY <3>1, ConcatProperties
  <2>8. c = upto \o behind
    BY <2>2 DEF upto
  <2>9. /\ Len(upto) = P + 1 /\ upto[P + 1] = e
        /\ \A k \in 1 .. P : upto[k] = cache[k]
    <3>1. Len(before) + Len(<<e>>) = P + 1 /\ P + 1 \in 1 .. P + 1 /\ (P + 1) - P = 1
      BY <1>0, <2>3, <2>5
    <3>2. upto[P + 1] = e
      BY <1>0, <2>3, <2>5, <2>6, <3>1
    <3>3. ASSUME NEW k \in 1 .. P PROVE upto[k] = cache[k]
      BY <1>0, <2>3, <2>6, <3>1
    <3> QED
      BY <2>6, <3>1, <3>2, <3>3
  <2>10. /\ c \in Seq(Held) /\ Len(c) = L
         /\ c[P + 1] = e
         /\ \A k \in 1 .. P : c[k] = cache[k]
         /\ \A k \in P + 2 .. L : c[k] = cache[k - 1]
    <3>1. Len(upto) + Len(behind) = L
      BY <1>0, <2>4, <2>9
    <3>2. P + 1 \in 1 .. L
      BY <1>0
    <3>3. c[P + 1] = e
      BY <2>7, <2>8, <2>9, <3>1, <3>2
    <3>4. ASSUME NEW k \in 1 .. P PROVE c[k] = cache[k]
      BY <1>0, <2>7, <2>8, <2>9, <3>1
    <3>5. ASSUME NEW k \in P + 2 .. L PROVE c[k] = cache[k - 1]
      <4>1. k \in 1 .. L /\ ~(k <= P + 1) /\ k - (P + 1) \in 1 .. L - 1 - P
            /\ P + (k - (P + 1)) = k - 1
        BY <1>0
      <4>2. c[k] = behind[k - (P + 1)]
        BY <2>7, <2>8, <2>9, <3>1, <4>1
      <4> QED
        BY <2>4, <4>1, <4>2
    <3> QED
      BY <2>7, <2>8, <3>1, <3>3, <3>4, <3>5
  <2> DEFINE from(k) == IF k <= P THEN k ELSE k - 1
  <2>11. \A k \in 1 .. L : k # P + 1 => from(k) \in 1 .. L /\ c[k] = cache[from(k)]
    BY <1>0, <2>10
  <2>12. \A k, l \in 1 .. L : k # P + 1 /\ l # P + 1 /\ from(k) = from(l) => k = l
    BY <1>0
  <2> HIDE DEF from, L, P
  <2>13. SingleEntries(c)
    <3> SUFFICES ASSUME NEW i \in 1 .. L, NEW j \in 1 .. L, c[i].str = c[j].str
                 PROVE  i = j
      BY <2>10 DEF SingleEntries
    <3>0. Len(cache) = L
      BY <1>3 DEF L
    <3>1. CASE i # P + 1 /\ j # P + 1
      <4>1. /\ from(i) \in 1 .. Len(cache) /\ c[i] = cache[from(i)]
            /\ from(j) \in 1 .. Len(cache) /\ c[j] = cache[from(j)]
        BY <2>11, <3>0, <3>1
      <4>2. from(i) = from(j)
        BY <4>1 DEF CacheInv, SingleEntries
      <4> QED
        BY <2>12, <3>1, <4>2
    <3>2. CASE i = P + 1 /\ j # P + 1
      BY <1>1, <2>10, <2>11, <3>0, <3>2
    <3>3. CASE i # P + 1 /\ j = P + 1
      BY <1>1, <2>10, <2>11, <3>0, <3>3
    <3> QED
      BY <3>1, <3>2, <3>3
  <2>14. Leads(hits, c)
    <3>1. \A k \in 1 .. Len(hits) : k \in 1 .. P
      BY <1>0 DEF P
    <3>2. Len(hits) <= Len(c)
      BY <1>0, <1>3, <2>10 DEF L
    <3> QED
      BY <1>0, <2>10, <3>1, <3>2 DEF Leads
  <2> QED
    BY <1>0, <2>10, <2>13, <2>14 DEF L
<1> QED
  BY <1>0, <1>2, <1>3

ArgsInv == pc # "done" => \E arg1, arg2 \in Arg : args = <<arg1, arg2>>

LEMMA StringsGiven ==
    ASSUME ArgsInv, pc # "done"
    PROVE  str1 \in Str /\ str2 \in Str
  BY ArgAssumption DEF ArgsInv, str1, str2

(* A call is left only by the step that returns from it.                   *)
LEMMA ArgsNext == ArgsInv /\ [CmpNext]_allvars => ArgsInv'
<1> SUFFICES ASSUME ArgsInv, [CmpNext]_allvars PROVE ArgsInv'
  OBVIOUS
<1>1. CASE \E arg1, arg2 \in Arg : Call(arg1, arg2)
  BY <1>1 DEF Call, ArgsInv
<1>2. CASE args' = args /\ (pc' # "done" => pc # "done")
  BY <1>2 DEF ArgsInv
<1>3. CASE MergeStep /\ UNCHANGED mine
  BY <1>3, <1>2 DEF MergeStep, OnlyInSecond, Common, OnlyInFirst, Double, Bracket, Bisect,
                    Landed, Conclude, mine
<1>4. CASE CmpStep \/ UNCHANGED allvars
  BY <1>4, <1>2, <1>3 DEF CmpStep, RejectHeader, Hit, DecodeFails, Miss, Decode2, Reduce1,
     Reduce2, StartMerge, Reject, Fetching, Deliver, allvars, mine, vars
<1> QED
  BY <1>1, <1>4 DEF CmpNext

(* A hit leaves the history in the lead; so does a new entry.              *)
LEMMA CacheNext == ArgsInv /\ CacheInv /\ [CmpNext]_allvars => CacheInv'
<1> SUFFICES ASSUME ArgsInv, CacheInv, [CmpNext]_allvars PROVE CacheInv'
  OBVIOUS
<1>0. /\ cache \in Seq(Held) /\ Len(cache) \in Nat /\ Len(cache) <= CACHE_SIZE
      /\ DOMAIN cache = 1 .. Len(cache)
      /\ SingleEntries(cache) /\ Leads(hits, cache)
      /\ Len(hits) \in Nat /\ Len(hits) <= PIVOT_SIZE /\ PIVOT_SIZE \in Nat \ {0}
  BY CacheAssumption DEF CacheInv, Leads
<1>1. CASE UNCHANGED <<cache, hits>>
  BY <1>1 DEF CacheInv, Leads, SingleEntries
<1>2. CASE Hit
  <2> DEFINE all == <<str1>> \o RemoveFirst(hits, str1)
  <2>1. str1 \in Str
    BY <1>2, StringsGiven DEF Hit, Fetching
  <2>2. PICK i \in DOMAIN cache :
           /\ cache[i].str = str1
           /\ cache' = <<cache[i]>> \o RemoveAt(cache, i)
           /\ hits' = IF Len(all) > PIVOT_SIZE THEN Front(all) ELSE all
    BY <1>2 DEF Hit, Holds
  <2>3. /\ cache' \in Seq(Held) /\ Len(cache') = Len(cache)
        /\ SingleEntries(cache')
        /\ Leads(all, cache')
        /\ Len(all) <= Len(hits) + 1
    <3>1. /\ cache \in Seq(Held) /\ SingleEntries(cache) /\ Leads(hits, cache)
          /\ i \in 1 .. Len(cache) /\ str1 \in Str /\ cache[i].str = str1
      BY <1>0, <2>1, <2>2
    <3>2. AfterHit(cache, hits, <<cache[i]>> \o RemoveAt(cache, i),
                   <<str1>> \o RemoveFirst(hits, str1))
      BY ONLY <3>1, HitLeads, Zenon
    <3> QED
      BY <2>2, <3>2 DEF AfterHit
  <2>4. all \in Seq(Str) /\ Len(all) \in Nat /\ Len(all) <= PIVOT_SIZE + 1
    BY <1>0, <2>3 DEF Leads
  <2> HIDE DEF all
  <2>5. Leads(hits', cache') /\ Len(hits') <= PIVOT_SIZE
    <3>1. CASE Len(all) > PIVOT_SIZE
      <4>1. hits' = Front(all) /\ Len(all) >= 1 /\ Len(cache') \in Nat
        BY <1>0, <2>2, <2>3, <2>4, <3>1
      <4>2. Leads(Front(all), cache') /\ Len(Front(all)) = Len(all) - 1
        BY <2>3, <4>1, FrontLeads
      <4> QED
        BY <1>0, <2>4, <4>1, <4>2
    <3>2. CASE ~(Len(all) > PIVOT_SIZE)
      BY <1>0, <2>2, <2>3, <2>4, <3>2
    <3> QED
      BY <3>1, <3>2
  <2> QED
    BY <1>0, <2>3, <2>5 DEF CacheInv, Leads, SingleEntries
<1>3. CASE Miss
  <2>1. str1 \in Str /\ pc # "done"
    BY <1>3, StringsGiven DEF Miss, Fetching
  <2>2. str1 \in Decodable
    BY <1>3, <2>1 DEF Miss, Undecodable, Decodable
  <2>3. \A k \in 1 .. Len(cache) : cache[k].str # str1
    <3> SUFFICES ASSUME NEW k \in 1 .. Len(cache), cache[k].str = str1 PROVE FALSE
      OBVIOUS
    <3>1. cache[k] \in Held
      BY <1>0
    <3>2. cache[k].fp = Fingerprint(str1)
      BY <3>1, HeldFacts
    <3> QED
      BY <1>0, <1>3, <3>2 DEF Miss, Cached, Holds
  <2>4. cache' = Inserted(Entry(str1)) /\ hits' = hits
    BY <1>3 DEF Miss
  <2>5. /\ cache' \in Seq(Held)
        /\ Len(cache') <= CACHE_SIZE
        /\ SingleEntries(cache')
        /\ Leads(hits, cache')
    BY <2>2, <2>3, <2>4, InsertLeads
  <2> QED
    BY <1>0, <2>4, <2>5 DEF CacheInv, Leads, SingleEntries
<1> QED
  BY <1>1, <1>2, <1>3 DEF CmpNext, CmpStep, RejectHeader, DecodeFails, Decode2, Reduce1,
     Reduce2, StartMerge, Call, mine, allvars

(* What was hit is not given up for what was not: the strings hit last     *)
(* lead the cache, whatever was inserted and freed since, and no string    *)
(* has two entries (newset.c:508-516 and 546-556).                         *)
THEOREM HitsKept == CmpSpec => []RecentHitsKept
<1>1. CmpInit => ArgsInv /\ CacheInv
  <2> SUFFICES ASSUME CmpInit PROVE ArgsInv /\ CacheInv
    OBVIOUS
  <2>1. cache = <<>> /\ hits = <<>> /\ pc = "done"
    BY DEF CmpInit
  <2>2. CACHE_SIZE \in Nat /\ PIVOT_SIZE \in Nat
    BY CacheAssumption
  <2> QED
    BY <2>1, <2>2 DEF ArgsInv, CacheInv, SingleEntries, Leads
<1>2. CacheInv => RecentHitsKept
  <2> SUFFICES ASSUME CacheInv PROVE RecentHitsKept
    OBVIOUS
  <2>1. /\ DOMAIN cache = 1 .. Len(cache) /\ DOMAIN hits = 1 .. Len(hits)
        /\ Len(hits) <= Len(cache) /\ Len(cache) \in Nat /\ Len(hits) \in Nat
    BY DEF CacheInv, Leads
  <2> QED
    BY <2>1 DEF CacheInv, Leads, SingleEntries, RecentHitsKept
<1> QED
  BY <1>1, <1>2, ArgsNext, CacheNext, PTL DEF CmpSpec

-----------------------------------------------------------------------------
(* The answer: rpmsetcmp implements SetVersion.                            *)

(* arr is the array of s at b bits: its values, truncated and normalised.  *)
Reduces(arr, b, s) ==
    /\ b \in 10 .. s.bpp
    /\ Walkable(arr)
    /\ Range(arr) = {s.values[i] % 2^b : i \in DOMAIN s.values}
    /\ \A i \in 1 .. Len(arr) : arr[i] < 2^b

LEMMA StringFacts ==
    ASSUME NEW arg \in Arg, decode_set_check(arg.body), ~Undecodable(arg.body),
           NEW s, s = arg.body
    PROVE  /\ s.bpp \in 10 .. 32
           /\ s.values \in Seq(Nat) /\ Len(s.values) \in Nat /\ Len(s.values) >= 1
           /\ DOMAIN s.values = 1 .. Len(s.values)
           /\ Ascending(s.values)
           /\ \A i \in 1 .. Len(s.values) : s.values[i] \in Nat /\ s.values[i] < 2^s.bpp
           /\ value_capacity(s) >= 1
<1> DEFINE values == s.values
<1>1. s.bpp \in 10 .. 32
  BY DEF decode_set_check
<1>2. /\ values \in Seq(Nat)
      /\ Ascending(values)
      /\ \A i \in 1 .. Len(values) : values[i] < 2^s.bpp
      /\ values # <<>> => value_capacity(s) >= 1
  BY WrittenAssumption, Zenon
<1>3. values # <<>>
  BY DEF Undecodable
<1> HIDE DEF values
<1>4. Len(values) \in Nat /\ Len(values) >= 1 /\ DOMAIN values = 1 .. Len(values)
      /\ \A i \in 1 .. Len(values) : values[i] \in Nat
  BY <1>2, <1>3
<1> QED
  BY <1>1, <1>2, <1>3, <1>4 DEF values

(* Decoding delivers the array at the precision of the string.             *)
LEMMA DecodedReduces ==
    ASSUME NEW arg \in Arg, decode_set_check(arg.body), ~Undecodable(arg.body)
    PROVE  Reduces(arg.body.values, arg.body.bpp, arg.body)
<1> DEFINE s == arg.body
           values == s.values
           b == s.bpp
           d == 2^b
<1>1. /\ b \in 10 .. 32
      /\ values \in Seq(Nat) /\ Len(values) \in Nat /\ Len(values) >= 1
      /\ DOMAIN values = 1 .. Len(values)
      /\ Ascending(values)
      /\ \A i \in 1 .. Len(values) : values[i] \in Nat /\ values[i] < d
  BY StringFacts
<1> HIDE DEF values, b, s
<1>2. d \in Nat \ {0}
  <2>1. b \in 0 .. 38
    BY <1>1
  <2> QED
    BY <2>1, Powers
<1> HIDE DEF d
<1>3. \A i \in 1 .. Len(values) : values[i] % d = values[i]
  <2> TAKE i \in 1 .. Len(values)
  <2>1. values[i] \in Nat /\ values[i] < d /\ values[i] < 2 * d
    BY <1>1, <1>2
  <2> QED
    BY <1>2, <2>1, Masking
<1>4. Range(values) = {values[i] % d : i \in DOMAIN values}
  BY <1>1, <1>3 DEF Range
<1>5. /\ b \in 10 .. b
      /\ Walkable(values)
      /\ \A i \in 1 .. Len(values) : values[i] < d
  BY <1>1 DEF Walkable
<1>6. /\ b \in 10 .. s.bpp
      /\ Walkable(values)
      /\ Range(values) = {s.values[i] % 2^b : i \in DOMAIN s.values}
      /\ \A i \in 1 .. Len(values) : values[i] < 2^b
  BY <1>4, <1>5, Zenon DEF d, b, values
<1> QED
  BY <1>6 DEF Reduces, s, b, values

(* A bit less: the values that fall together are kept once.                *)
LEMMA ReducedOnce ==
    ASSUME NEW arg \in Arg, decode_set_check(arg.body), ~Undecodable(arg.body),
           NEW arr, NEW b, Reduces(arr, b, arg.body), b - 1 \in 10 .. arg.body.bpp
    PROVE  Reduces(downsample_set(arr, b - 1), b - 1, arg.body)
<1> DEFINE s == arg.body
           values == s.values
           t == b - 1
           ds == downsample_set(arr, t)
<1>1. /\ s.bpp \in 10 .. 32
      /\ values \in Seq(Nat) /\ Len(values) \in Nat /\ Len(values) >= 1
      /\ DOMAIN values = 1 .. Len(values)
      /\ \A i \in 1 .. Len(values) : values[i] \in Nat
  BY StringFacts
<1>2. /\ b \in 10 .. s.bpp
      /\ arr \in Seq(Nat) /\ Len(arr) >= 1 /\ Ascending(arr)
      /\ Range(arr) = {values[i] % 2^b : i \in DOMAIN values}
      /\ \A i \in 1 .. Len(arr) : arr[i] < 2^b
  BY DEF Reduces, Walkable
<1>3. t \in 0 .. 38 /\ t + 1 = b /\ t \in 10 .. s.bpp
  <2>1. s.bpp \in 10 .. 32 /\ b \in 10 .. s.bpp /\ b - 1 \in 10 .. s.bpp
    BY <1>1, <1>2
  <2> QED
    BY ONLY <2>1
<1> HIDE DEF t, values, s
<1>4. /\ ds \in Seq(Nat)
      /\ Ascending(ds)
      /\ Range(ds) = {arr[i] % 2^t : i \in 1 .. Len(arr)}
      /\ \A i \in 1 .. Len(ds) : ds[i] < 2^t
  <2>1. \A i \in 1 .. Len(arr) : arr[i] < 2^(t + 1)
    BY <1>2, <1>3
  <2> QED
    BY <1>2, <1>3, <2>1, DownsampleCorrect
<1> HIDE DEF ds
<1>5. {arr[i] % 2^t : i \in 1 .. Len(arr)} = {x % 2^t : x \in Range(arr)}
  <2>1. DOMAIN arr = 1 .. Len(arr)
    BY <1>2
  <2> QED
    BY <2>1 DEF Range
<1>6. {x % 2^t : x \in Range(arr)} = {(values[i] % 2^(t + 1)) % 2^t : i \in DOMAIN values}
  BY <1>2, <1>3
<1>7. \A i \in DOMAIN values : (values[i] % 2^(t + 1)) % 2^t = values[i] % 2^t
  BY <1>1, <1>3, Retruncation
<1>8. {(values[i] % 2^(t + 1)) % 2^t : i \in DOMAIN values}
          = {values[i] % 2^t : i \in DOMAIN values}
  BY <1>7
<1>9. Len(ds) >= 1
  <2>1. 1 \in DOMAIN values
    BY <1>1
  <2>2. values[1] % 2^t \in Range(ds)
    BY <2>1, <1>4, <1>5, <1>6, <1>8
  <2>3. DOMAIN ds # {} /\ DOMAIN ds = 1 .. Len(ds) /\ Len(ds) \in Nat
    BY <2>2, <1>4 DEF Range
  <2> QED
    BY <2>3
<1>10. /\ t \in 10 .. s.bpp
       /\ Walkable(ds)
       /\ Range(ds) = {s.values[i] % 2^t : i \in DOMAIN s.values}
       /\ \A i \in 1 .. Len(ds) : ds[i] < 2^t
  BY <1>3, <1>4, <1>5, <1>6, <1>8, <1>9 DEF Walkable, values
<1> QED
  BY <1>10 DEF Reduces, s, t, ds

FirstDecoded == pc \in {"decode2", "reduce", "merge", "gallop", "bisect"}
BothDecoded == pc \in {"reduce", "merge", "gallop", "bisect"}
Walking == pc \in {"merge", "gallop", "bisect"}

Coarser == IF str1.bpp < str2.bpp THEN str1.bpp ELSE str2.bpp

(* The reduction stops at the coarser precision and goes no further.       *)
ReduceInv ==
    /\ pc \in {"headers", "decode2", "reduce", "merge", "gallop", "bisect", "done"}
    /\ result \in Int
    /\ FirstDecoded => /\ decode_set_check(str1) /\ decode_set_check(str2)
                       /\ ~Undecodable(str1)
                       /\ Reduces(arr1, bpp1, str1)
    /\ BothDecoded => /\ ~Undecodable(str2)
                      /\ Reduces(arr2, bpp2, str2)
                      /\ bpp1 >= Coarser /\ bpp2 >= Coarser
                      /\ bpp1 = Coarser \/ bpp2 = Coarser
    /\ pc = "decode2" => bpp1 = str1.bpp
    /\ pc \in {"headers", "decode2", "reduce"} => WalkStart
    /\ Walking => bpp1 = bpp2 /\ IInv

RefineInv == ArgsInv /\ CacheInv /\ ReduceInv

LEMMA PrecisionFacts ==
    ASSUME decode_set_check(str1), decode_set_check(str2)
    PROVE  /\ str1.bpp \in 10 .. 32 /\ str2.bpp \in 10 .. 32
           /\ Coarser \in 10 .. str1.bpp /\ Coarser \in 10 .. str2.bpp
           /\ Coarser = str1.bpp \/ Coarser = str2.bpp
  BY DEF decode_set_check, Coarser

(* The walk starts at both heads.                                          *)
LEMMA StartMergeInv ==
    ASSUME ReduceInv, StartMerge
    PROVE  IInv'
<1>a. /\ arr1' = arr1 /\ arr2' = arr2 /\ at1' = at1 /\ at2' = at2 /\ ge' = ge /\ le' = le
      /\ lo' = lo /\ hi' = hi /\ left' = left /\ right' = right /\ result' = result
      /\ pc = "reduce" /\ pc' = "merge"
  BY DEF StartMerge, merge, gallop
<1>b. Walkable(arr1) /\ Walkable(arr2) /\ WalkStart /\ result \in Int
  BY <1>a DEF ReduceInv, FirstDecoded, BothDecoded, Reduces
<1>1. Len(arr1) \in Nat /\ Len(arr2) \in Nat
  BY <1>b DEF Walkable
<1>2. TypeOK'
  BY <1>a, <1>b, <1>1 DEF WalkStart, TypeOK
<1>3. GeInv' /\ LeInv' /\ OrderInv'
  BY <1>a, <1>b, <1>1 DEF WalkStart, GeInv, LeInv, OrderInv
<1>4. HeadsInv' /\ GallopInv' /\ WindowHolds' /\ AnswersVerdict'
  BY <1>a DEF HeadsInv, Searching, GallopInv, WindowHolds, AnswersVerdict
<1> QED
  BY <1>2, <1>3, <1>4 DEF IInv

(* Every step of the walk keeps what the walk is on.                       *)
LEMMA WalkFacts ==
    ASSUME MergeStep
    PROVE  /\ arr1' = arr1 /\ arr2' = arr2 /\ Walking
           /\ (Walking' /\ result' = result) \/ (Conclude /\ pc' = "done")
  BY DEF MergeStep, OnlyInSecond, Common, OnlyInFirst, Double, Bracket, Bisect, Landed,
         Conclude, Walking, merge

LEMMA ReduceNext == RefineInv /\ [CmpNext]_allvars => RefineInv'
<1> SUFFICES ASSUME RefineInv, [CmpNext]_allvars PROVE RefineInv'
  OBVIOUS
<1>0. ArgsInv /\ CacheInv /\ ReduceInv
  BY DEF RefineInv
<1>1. ArgsInv' /\ CacheInv'
  BY <1>0, ArgsNext, CacheNext
<1> SUFFICES ReduceInv'
  BY <1>1 DEF RefineInv
<1>2. ASSUME args' = args PROVE str1' = str1 /\ str2' = str2 /\ Coarser' = Coarser
  BY <1>2 DEF str1, str2, Coarser
<1>3. ASSUME pc # "done"
      PROVE  \E arg1, arg2 \in Arg : str1 = arg1.body /\ str2 = arg2.body
  BY <1>0, <1>3 DEF ArgsInv, str1, str2
<1>4. ASSUME pc' = "done", result' \in Int PROVE ReduceInv'
  BY <1>4 DEF ReduceInv, FirstDecoded, BothDecoded, Walking
<1>5. CASE RejectHeader \/ DecodeFails \/ (Decode2 /\ Undecodable(str2))
  <2>1. PICK value \in {-3, -4} : Reject(value)
    BY <1>5 DEF RejectHeader, DecodeFails, Decode2
  <2>2. pc' = "done" /\ result' \in Int
    BY <2>1 DEF Reject
  <2> QED
    BY <1>4, <2>2
<1>6. CASE Hit \/ Miss
  <2>1. /\ pc = "headers" /\ decode_set_check(str1) /\ decode_set_check(str2)
        /\ pc' = "decode2" /\ args' = args /\ bpp1' = str1.bpp /\ result' = result
    BY <1>6 DEF Hit, Miss, Fetching, Deliver
  <2>2. arr1' = str1.values /\ ~Undecodable(str1)
    <3>1. CASE Hit
      <4>1. PICK i \in DOMAIN cache : cache[i].str = str1 /\ arr1' = cache[i].hash_arr
        BY <3>1 DEF Hit, Holds, Deliver
      <4>2. cache[i] \in Held
        BY <1>0, <4>1 DEF CacheInv
      <4> QED
        BY <4>1, <4>2, HeldFacts DEF Undecodable
    <3>2. CASE Miss
      BY <3>2 DEF Miss, Deliver
    <3> QED
      BY <1>6, <3>1, <3>2
  <2>3. PICK arg1 \in Arg, arg2 \in Arg : str1 = arg1.body /\ str2 = arg2.body
    BY <1>3, <2>1
  <2>4. Reduces(str1.values, str1.bpp, str1)
    <3>1. decode_set_check(arg1.body) /\ ~Undecodable(arg1.body)
      BY <2>1, <2>2, <2>3
    <3>2. Reduces(arg1.body.values, arg1.body.bpp, arg1.body)
      BY <3>1, DecodedReduces
    <3> QED
      BY <2>3, <3>2
  <2>5. WalkStart'
    BY <1>0, <1>6, <2>1 DEF ReduceInv, Hit, Miss, Deliver, WalkStart, gallop
  <2> QED
    BY <1>0, <1>2, <2>1, <2>2, <2>4, <2>5 DEF ReduceInv, FirstDecoded, BothDecoded, Walking
<1>7. CASE Decode2 /\ ~Undecodable(str2)
  <2>1. /\ pc = "decode2" /\ pc' = "reduce" /\ args' = args /\ result' = result
        /\ arr2' = str2.values /\ bpp2' = str2.bpp /\ arr1' = arr1 /\ bpp1' = bpp1
    BY <1>7 DEF Decode2
  <2>2. /\ decode_set_check(str1) /\ decode_set_check(str2) /\ ~Undecodable(str1)
        /\ Reduces(arr1, bpp1, str1) /\ bpp1 = str1.bpp
    BY <1>0, <2>1 DEF ReduceInv, FirstDecoded
  <2>3. PICK arg1 \in Arg, arg2 \in Arg : str1 = arg1.body /\ str2 = arg2.body
    BY <1>3, <2>1
  <2>4. Reduces(str2.values, str2.bpp, str2)
    <3>1. decode_set_check(arg2.body) /\ ~Undecodable(arg2.body)
      BY <1>7, <2>2, <2>3
    <3>2. Reduces(arg2.body.values, arg2.body.bpp, arg2.body)
      BY <3>1, DecodedReduces
    <3> QED
      BY <2>3, <3>2
  <2>5. WalkStart'
    BY <1>0, <1>7, <2>1 DEF ReduceInv, Decode2, WalkStart, gallop
  <2>6. str1.bpp >= Coarser /\ str2.bpp >= Coarser /\ (str1.bpp = Coarser \/ str2.bpp = Coarser)
    BY <2>2, PrecisionFacts
  <2> QED
    BY <1>0, <1>2, <1>7, <2>1, <2>2, <2>4, <2>5, <2>6
       DEF ReduceInv, FirstDecoded, BothDecoded, Walking
<1>8. ASSUME pc = "reduce" PROVE
         /\ decode_set_check(str1) /\ decode_set_check(str2)
         /\ ~Undecodable(str1) /\ ~Undecodable(str2)
         /\ Reduces(arr1, bpp1, str1) /\ Reduces(arr2, bpp2, str2)
         /\ Coarser \in 10 .. 32 /\ bpp1 \in Int /\ bpp2 \in Int
         /\ Coarser \in 10 .. str1.bpp /\ Coarser \in 10 .. str2.bpp
         /\ bpp1 >= Coarser /\ bpp2 >= Coarser /\ (bpp1 = Coarser \/ bpp2 = Coarser)
         /\ bpp1 <= str1.bpp /\ bpp2 <= str2.bpp
         /\ str1.bpp \in 10 .. 32 /\ str2.bpp \in 10 .. 32
  <2>1. /\ decode_set_check(str1) /\ decode_set_check(str2)
        /\ ~Undecodable(str1) /\ ~Undecodable(str2)
        /\ Reduces(arr1, bpp1, str1) /\ Reduces(arr2, bpp2, str2)
        /\ bpp1 >= Coarser /\ bpp2 >= Coarser /\ (bpp1 = Coarser \/ bpp2 = Coarser)
    BY <1>0, <1>8 DEF ReduceInv, FirstDecoded, BothDecoded
  <2>2. /\ str1.bpp \in 10 .. 32 /\ str2.bpp \in 10 .. 32
        /\ Coarser \in 10 .. str1.bpp /\ Coarser \in 10 .. str2.bpp
    BY <2>1, PrecisionFacts
  <2>3. bpp1 \in 10 .. str1.bpp /\ bpp2 \in 10 .. str2.bpp
    BY <2>1 DEF Reduces
  <2> QED
    BY <2>1, <2>2, <2>3
<1>9. CASE Reduce1
  <2>1. /\ pc = "reduce" /\ bpp1 > bpp2 /\ bpp1' = bpp1 - 1 /\ bpp2' = bpp2
        /\ arr1' = downsample_set(arr1, bpp1 - 1) /\ arr2' = arr2
        /\ pc' = "reduce" /\ args' = args /\ result' = result
    BY <1>9 DEF Reduce1, Finer, reduced
  <2>2. bpp1 - 1 \in 10 .. str1.bpp /\ bpp1 - 1 >= Coarser /\ bpp2 = Coarser
    BY <1>8, <2>1
  <2>3. PICK arg1 \in Arg, arg2 \in Arg : str1 = arg1.body /\ str2 = arg2.body
    BY <1>3, <2>1
  <2>4. Reduces(arr1', bpp1', str1)
    <3>1. /\ decode_set_check(arg1.body) /\ ~Undecodable(arg1.body)
          /\ Reduces(arr1, bpp1, arg1.body) /\ bpp1 - 1 \in 10 .. arg1.body.bpp
      BY <1>8, <2>1, <2>2, <2>3
    <3>2. Reduces(downsample_set(arr1, bpp1 - 1), bpp1 - 1, arg1.body)
      BY <3>1, ReducedOnce
    <3> QED
      BY <2>1, <2>3, <3>2
  <2>5. WalkStart'
    BY <1>0, <1>9, <2>1 DEF ReduceInv, Reduce1, WalkStart, gallop
  <2> QED
    BY <1>0, <1>2, <1>8, <2>1, <2>2, <2>4, <2>5 DEF ReduceInv, FirstDecoded, BothDecoded, Walking
<1>10. CASE Reduce2
  <2>1. /\ pc = "reduce" /\ bpp2 > bpp1 /\ bpp2' = bpp2 - 1 /\ bpp1' = bpp1
        /\ arr2' = downsample_set(arr2, bpp2 - 1) /\ arr1' = arr1
        /\ pc' = "reduce" /\ args' = args /\ result' = result
    BY <1>10 DEF Reduce2, Finer, reduced
  <2>2. bpp2 - 1 \in 10 .. str2.bpp /\ bpp2 - 1 >= Coarser /\ bpp1 = Coarser
    BY <1>8, <2>1
  <2>3. PICK arg1 \in Arg, arg2 \in Arg : str1 = arg1.body /\ str2 = arg2.body
    BY <1>3, <2>1
  <2>4. Reduces(arr2', bpp2', str2)
    <3>1. /\ decode_set_check(arg2.body) /\ ~Undecodable(arg2.body)
          /\ Reduces(arr2, bpp2, arg2.body) /\ bpp2 - 1 \in 10 .. arg2.body.bpp
      BY <1>8, <2>1, <2>2, <2>3
    <3>2. Reduces(downsample_set(arr2, bpp2 - 1), bpp2 - 1, arg2.body)
      BY <3>1, ReducedOnce
    <3> QED
      BY <2>1, <2>3, <3>2
  <2>5. WalkStart'
    BY <1>0, <1>10, <2>1 DEF ReduceInv, Reduce2, WalkStart, gallop
  <2> QED
    BY <1>0, <1>2, <1>8, <2>1, <2>2, <2>4, <2>5 DEF ReduceInv, FirstDecoded, BothDecoded, Walking
<1>11. CASE StartMerge
  <2>1. /\ pc = "reduce" /\ pc' = "merge" /\ args' = args /\ result' = result
        /\ bpp1' = bpp1 /\ bpp2' = bpp2 /\ arr1' = arr1 /\ arr2' = arr2
        /\ ~(bpp1 > bpp2) /\ ~(bpp2 > bpp1)
    BY <1>11 DEF StartMerge, Finer, merge, mine
  <2>2. bpp1 = bpp2
    BY <1>8, <2>1
  <2>3. IInv'
    BY <1>0, <1>11, StartMergeInv
  <2> QED
    BY <1>0, <1>2, <1>8, <2>1, <2>2, <2>3 DEF ReduceInv, FirstDecoded, BothDecoded, Walking
<1>12. CASE MergeStep /\ UNCHANGED mine
  <2>1. /\ args' = args /\ bpp1' = bpp1 /\ bpp2' = bpp2 /\ arr1' = arr1 /\ arr2' = arr2
        /\ Walking /\ ((Walking' /\ result' = result) \/ pc' = "done")
    BY <1>12, WalkFacts DEF mine
  <2>2. IInv'
    BY <1>0, <1>12, <2>1, NextInv DEF ReduceInv
  <2>3. result' \in Int
    BY <2>2 DEF IInv, TypeOK
  <2>4. CASE pc' = "done"
    BY <1>4, <2>3, <2>4
  <2>5. CASE Walking'
    BY <1>0, <1>2, <2>1, <2>2, <2>3, <2>5 DEF ReduceInv, FirstDecoded, BothDecoded, Walking
  <2> QED
    BY <2>1, <2>4, <2>5
<1>13. CASE \E arg1, arg2 \in Arg : Call(arg1, arg2)
  BY <1>0, <1>13 DEF Call, ReduceInv, FirstDecoded, BothDecoded, Walking, WalkStart
<1>14. CASE UNCHANGED allvars
  <2>1. /\ args' = args /\ bpp1' = bpp1 /\ bpp2' = bpp2 /\ arr1' = arr1 /\ arr2' = arr2
        /\ pc' = pc /\ result' = result /\ UNCHANGED vars /\ WalkStart' = WalkStart
    BY <1>14 DEF allvars, mine, vars, merge, gallop, WalkStart
  <2>2. IInv => IInv'
    BY <2>1, StutterInv
  <2> QED
    BY <1>0, <1>2, <2>1, <2>2 DEF ReduceInv, FirstDecoded, BothDecoded, Walking
<1> QED
  BY <1>5, <1>6, <1>7, <1>9, <1>10, <1>11, <1>12, <1>13, <1>14 DEF CmpNext, CmpStep

LEMMA SameHeader ==
    \A s : decode_set_check(s) <=> Promise!set_meta_init(s)
  BY DEF decode_set_check, Promise!set_meta_init, Promise!SET_BPP_MIN, Promise!SET_BPP_MAX,
         Promise!SET_MSHIFT_MIN, Promise!SET_MSHIFT_MAX

(* A string is decoded exactly if it is not malformed: that newset.c does  *)
(* not look at the capacity first makes no difference.                     *)
LEMMA MalformedStrings ==
    ASSUME NEW arg \in Arg, decode_set_check(arg.body)
    PROVE  Promise!Malformed(arg.body) <=> Undecodable(arg.body)
<1> DEFINE s == arg.body
<1>1. CASE Undecodable(s)
  BY <1>1 DEF Undecodable, Promise!Malformed
<1>2. CASE ~Undecodable(s)
  <2>1. value_capacity(s) >= 1
    BY <1>2, StringFacts
  <2>2. s.len \in Nat /\ s.Mshift \in 7 .. 31
    BY ArgAssumption, StrAssumption DEF decode_set_check
  <2>3. value_capacity(s) \in Int
    BY <2>2 DEF value_capacity, BASE62_VALUE_BITS
  <2>4. Promise!value_capacity(s) = value_capacity(s)
    BY DEF Promise!value_capacity, value_capacity, Promise!BASE62_VALUE_BITS, BASE62_VALUE_BITS
  <2>5. ~(Promise!value_capacity(s) < 1)
    BY <2>1, <2>3, <2>4
  <2> QED
    BY <1>2, <2>5 DEF Undecodable, Promise!Malformed
<1> QED
  BY <1>1, <1>2

(* What the walk concludes is how the two sets compare.                    *)
LEMMA VerdictOfInclusions ==
    ASSUME NEW A, NEW B, NEW r \in -2 .. 1,
           (r \in {0, 1}) = (B \subseteq A),
           (r \in {0, -1}) = (A \subseteq B)
    PROVE  r = Promise!Verdict(A, B)
<1>1. CASE A = B
  BY <1>1 DEF Promise!Verdict
<1>2. CASE A # B /\ B \subseteq A
  BY <1>2 DEF Promise!Verdict
<1>3. CASE A # B /\ A \subseteq B
  BY <1>3 DEF Promise!Verdict
<1>4. CASE ~(A \subseteq B) /\ ~(B \subseteq A)
  BY <1>4 DEF Promise!Verdict
<1> QED
  BY <1>1, <1>2, <1>3, <1>4

(* The end of a call is the answer, every other step is not seen.          *)
LEMMA StepRefines == RefineInv /\ [CmpNext]_allvars => [Promise!Next]_Promise!svars
<1> SUFFICES ASSUME RefineInv, [CmpNext]_allvars PROVE [Promise!Next]_Promise!svars
  OBVIOUS
<1>0. ArgsInv /\ ReduceInv
  BY DEF RefineInv
<1>1. ASSUME pc # "done", pc' = "done", args' = args, result' = Promise!Answer(str1, str2)
      PROVE  Promise!Next
  <2>1. /\ pc # "done" /\ ~(pc' # "done") /\ args' = args
        /\ result' = Promise!Answer(args[1].body, args[2].body)
    BY <1>1 DEF str1, str2
  <2>2. Promise!Return
    BY <2>1 DEF Promise!Return
  <2> QED
    BY <2>2 DEF Promise!Next
<1>2. ASSUME args' = args, result' = result, pc' # "done" <=> pc # "done"
      PROVE  UNCHANGED Promise!svars
  BY <1>2 DEF Promise!svars
<1>3. ASSUME pc # "done"
      PROVE  /\ decode_set_check(str1) => (Promise!Malformed(str1) <=> Undecodable(str1))
             /\ decode_set_check(str2) => (Promise!Malformed(str2) <=> Undecodable(str2))
  <2>1. PICK arg1 \in Arg, arg2 \in Arg : str1 = arg1.body /\ str2 = arg2.body
    BY <1>0, <1>3 DEF ArgsInv, str1, str2
  <2> QED
    BY <2>1, MalformedStrings
<1>4. CASE RejectHeader
  <2>1. /\ pc # "done" /\ pc' = "done" /\ args' = args
        /\ ~(decode_set_check(str1) /\ decode_set_check(str2))
        /\ result' = IF ~decode_set_check(str1) THEN -3 ELSE -4
    BY <1>4 DEF RejectHeader, Reject
  <2>2. result' = Promise!Answer(str1, str2)
    BY <2>1, SameHeader, Zenon DEF Promise!Answer
  <2> QED
    BY <1>1, <2>1, <2>2
<1>5. CASE DecodeFails
  <2>1. /\ pc # "done" /\ pc' = "done" /\ args' = args
        /\ decode_set_check(str1) /\ decode_set_check(str2)
        /\ Undecodable(str1) /\ result' = -3
    BY <1>5 DEF DecodeFails, Fetching, Reject
  <2>2. result' = Promise!Answer(str1, str2)
    BY <2>1, <1>3, SameHeader, Zenon DEF Promise!Answer
  <2> QED
    BY <1>1, <2>1, <2>2
<1>6. CASE Decode2 /\ Undecodable(str2)
  <2>1. /\ pc = "decode2" /\ pc # "done" /\ pc' = "done" /\ args' = args /\ result' = -4
    BY <1>6 DEF Decode2, Reject
  <2>2. decode_set_check(str1) /\ decode_set_check(str2) /\ ~Undecodable(str1)
    BY <1>0, <2>1 DEF ReduceInv, FirstDecoded
  <2>3. result' = Promise!Answer(str1, str2)
    BY <1>6, <2>1, <2>2, <1>3, SameHeader, Zenon DEF Promise!Answer
  <2> QED
    BY <1>1, <2>1, <2>3
<1>7. CASE Conclude /\ UNCHANGED mine
  <2>1. /\ pc = "merge" /\ pc # "done" /\ pc' = "done" /\ args' = args
        /\ arr1' = arr1 /\ arr2' = arr2
    BY <1>7 DEF Conclude, mine, merge
  <2>2. /\ decode_set_check(str1) /\ decode_set_check(str2)
        /\ ~Undecodable(str1) /\ ~Undecodable(str2)
        /\ Reduces(arr1, bpp1, str1) /\ Reduces(arr2, bpp2, str2)
        /\ bpp1 = Coarser /\ bpp2 = Coarser
        /\ IInv
    BY <1>0, <2>1 DEF ReduceInv, FirstDecoded, BothDecoded, Walking
  <2> DEFINE A == Range(arr1)
             B == Range(arr2)
  <2>3. /\ result' \in -2 .. 1
        /\ (result' \in {0, 1}) = (B \subseteq A)
        /\ (result' \in {0, -1}) = (A \subseteq B)
    <3>1. IInv'
      BY <1>7, <2>2, ConcludeInv
    <3> QED
      BY <2>1, <3>1 DEF IInv, AnswersVerdict
  <2>4. Coarser = Promise!CoarserBpp(str1, str2)
    BY DEF Coarser, Promise!CoarserBpp
  <2>5. /\ A = Promise!Truncated(str1, Coarser)
        /\ B = Promise!Truncated(str2, Coarser)
    BY <2>2 DEF Reduces, Promise!Truncated
  <2> HIDE DEF A, B
  <2>6. PICK r : r = result'
    OBVIOUS
  <2>7. r = Promise!Verdict(A, B)
    <3>1. /\ r \in -2 .. 1
          /\ (r \in {0, 1}) = (B \subseteq A)
          /\ (r \in {0, -1}) = (A \subseteq B)
      BY <2>3, <2>6
    <3> QED
      BY ONLY <3>1, VerdictOfInclusions
  <2>8. result' = Promise!Answer(str1, str2)
    BY <2>1, <2>2, <2>4, <2>5, <2>6, <2>7, <1>3, SameHeader, Zenon DEF Promise!Answer
  <2> QED
    BY <1>1, <2>1, <2>8
<1>8. CASE MergeStep /\ UNCHANGED mine /\ ~Conclude
  <2>1. args' = args /\ Walking /\ Walking' /\ result' = result
    BY <1>8, WalkFacts DEF mine
  <2> QED
    BY <1>2, <2>1 DEF Walking
<1>9. CASE Hit \/ Miss \/ (Decode2 /\ ~Undecodable(str2)) \/ Reduce1 \/ Reduce2 \/ StartMerge
           \/ UNCHANGED allvars
  <2>1. args' = args /\ result' = result /\ (pc' # "done" <=> pc # "done")
    BY <1>9 DEF Hit, Miss, Fetching, Deliver, Decode2, Reduce1, Reduce2, StartMerge, mine,
                allvars, vars
  <2> QED
    BY <1>2, <2>1
<1>10. CASE \E arg1, arg2 \in Arg : Call(arg1, arg2)
  <2>1. PICK arg1 \in Arg, arg2 \in Arg : Call(arg1, arg2)
    BY <1>10
  <2>2. Promise!Call(arg1, arg2)
    BY <2>1 DEF Call, Promise!Call
  <2> QED
    BY <2>2 DEF Promise!Next
<1> QED
  BY <1>4, <1>5, <1>6, <1>7, <1>8, <1>9, <1>10 DEF CmpNext, CmpStep

(* Caching, reducing and galloping are invisible: whatever was compared    *)
(* before, rpmsetcmp of newset.c answers what the two strings alone        *)
(* determine (newset.c:678-760).                                           *)
THEOREM CachingInvisible == CmpSpec => ImplementsSetVersion
<1>1. CmpInit => RefineInv
  <2> SUFFICES ASSUME CmpInit PROVE RefineInv
    OBVIOUS
  <2>1. pc = "done" /\ result = 0 /\ cache = <<>> /\ hits = <<>>
    BY DEF CmpInit
  <2>2. ArgsInv /\ CacheInv
    BY <2>1, CacheAssumption DEF ArgsInv, CacheInv, SingleEntries, Leads
  <2>3. ReduceInv
    BY <2>1 DEF ReduceInv, FirstDecoded, BothDecoded, Walking
  <2> QED
    BY <2>2, <2>3 DEF RefineInv
<1>2. CmpInit => Promise!Init
  BY DEF CmpInit, Promise!Init
<1>3. CmpSpec => []RefineInv
  BY <1>1, ReduceNext, PTL DEF CmpSpec
<1> QED
  BY <1>2, <1>3, StepRefines, PTL DEF CmpSpec, ImplementsSetVersion, Promise!Spec

-----------------------------------------------------------------------------
(* The builder: what its variables hold, and when.                         *)
BuilderEntry == [str : Address, hash : Nat]

BuilderTypes ==
    /\ open \in BOOLEAN
    /\ symbols_v \in Seq(BuilderEntry)
    /\ heap \in [DOMAIN heap -> Symbols]
    /\ DOMAIN heap \subseteq Address

BuilderControl ==
    /\ phase \in {"idle", "qsort", "unique"}
    /\ ~open => phase = "idle" /\ symbols_v = <<>> /\ given = {}
    /\ phase # "idle" => bpp \in BPP /\ cnt > 0

(* The array grows by whole steps, and before it is full.                  *)
RoomInv == cnt <= room /\ \E k \in Nat : room = k * Delta

(* Every entry owns the copy of a name, and the names are those given.     *)
Copies(entries, mem, g) ==
    /\ \A i \in 1 .. Len(entries) : entries[i].str \in DOMAIN mem
    /\ g = {mem[entries[i].str] : i \in 1 .. Len(entries)}

(* The values are those of the copies, cut to the precision.               *)
Cut(entries, mem, b) ==
    \A i \in 1 .. Len(entries) : entries[i].hash = Masked(Hash[mem[entries[i].str]], b)

Keys(entries) == [i \in 1 .. Len(entries) |-> entries[i].hash]

BuilderInv ==
    /\ BuilderTypes
    /\ BuilderControl
    /\ RoomInv
    /\ Copies(symbols_v, heap, given)
    /\ phase # "idle" => Cut(symbols_v, heap, bpp)
    /\ phase = "unique" => SortedKeys(Keys(symbols_v))

-----------------------------------------------------------------------------
LEMMA BuilderEntryAt ==
    ASSUME NEW entries \in Seq(BuilderEntry), NEW i \in 1 .. Len(entries)
    PROVE  /\ entries[i] \in BuilderEntry
           /\ entries[i].str \in Address /\ entries[i].hash \in Nat
<1>1. entries[i] \in BuilderEntry
  OBVIOUS
<1> QED
  BY <1>1 DEF BuilderEntry

LEMMA KeysType ==
    ASSUME NEW entries \in Seq(BuilderEntry)
    PROVE  /\ Keys(entries) \in Seq(Nat) /\ Len(Keys(entries)) = Len(entries)
           /\ \A i \in 1 .. Len(entries) : Keys(entries)[i] = entries[i].hash
<1>1. \A i \in 1 .. Len(entries) : entries[i].hash \in Nat
  BY BuilderEntryAt
<1>2. Len(entries) \in Nat
  OBVIOUS
<1> QED
  BY <1>1, <1>2 DEF Keys

(* There is room for one more, and still whole steps of it.                *)
LEMMA RoomGrows ==
    ASSUME NEW c \in Nat, NEW r \in Nat, NEW k \in Nat, c <= r, r = k * Delta
    PROVE  LET grown == IF c % Delta = 0 THEN c + Delta ELSE r
           IN  grown \in Nat /\ c < grown /\ \E m \in Nat : grown = m * Delta
<1>1. Delta \in Nat \ {0}
  BY BuilderAssumption
<1>2. /\ c \div Delta \in Nat /\ c % Delta \in 0 .. Delta - 1
      /\ c = (c \div Delta) * Delta + (c % Delta)
  BY <1>1, Division
<1>3. CASE c % Delta = 0
  <2> DEFINE q == c \div Delta
             m == c % Delta
  <2>0. q \in Nat /\ c = q * Delta + m /\ m = 0
    BY <1>2, <1>3
  <2> HIDE DEF q, m
  <2>1. q \in Nat /\ c = q * Delta
    BY <1>1, <2>0
  <2>2. (q + 1) * Delta = q * Delta + Delta
    BY <1>1, <2>1
  <2> QED
    BY <1>1, <1>3, <2>1, <2>2
<1>4. CASE c % Delta # 0
  <2>1. c # r
    <3> SUFFICES ASSUME c = r PROVE c % Delta = 0
      BY <1>4
    <3>1. 0 \in 0 .. Delta - 1 /\ c = k * Delta + 0
      BY <1>1
    <3> QED
      BY <1>1, <3>1, UniqueDivision
  <2> QED
    BY <1>4, <2>1
<1> QED
  BY <1>2, <1>3, <1>4

LEMMA BuilderInitInv == BuilderInit => BuilderInv
<1> SUFFICES ASSUME BuilderInit PROVE BuilderInv
  OBVIOUS
<1>1. /\ open = FALSE /\ symbols_v = <<>> /\ room = 0 /\ heap = <<>> /\ phase = "idle"
      /\ given = {}
  BY DEF BuilderInit
<1>2. cnt = 0 /\ Len(symbols_v) = 0 /\ DOMAIN heap = {}
  BY <1>1 DEF cnt
<1>3. BuilderTypes
  <2>1. symbols_v \in Seq(BuilderEntry)
    BY <1>1
  <2>2. heap \in [DOMAIN heap -> Symbols]
    BY <1>1, <1>2
  <2> QED
    BY <1>1, <1>2, <2>1, <2>2 DEF BuilderTypes
<1>4. RoomInv
  <2>1. 0 * Delta = 0
    BY BuilderAssumption
  <2> QED
    BY <1>1, <1>2, <2>1 DEF RoomInv
<1>5. Copies(symbols_v, heap, given)
  BY <1>1, <1>2 DEF Copies
<1> QED
  BY <1>1, <1>3, <1>4, <1>5 DEF BuilderInv, BuilderControl

LEMMA BuilderEmptyInv ==
    ASSUME BuilderInv, set_new \/ set_free
    PROVE  BuilderInv'
<1>1. /\ symbols_v' = <<>> /\ phase = "idle" /\ phase' = phase /\ room' = 0
      /\ given' = {} /\ open' \in BOOLEAN
      /\ \/ heap' = heap
         \/ heap' = [a \in DOMAIN heap \ {symbols_v[i].str : i \in 1 .. cnt} |-> heap[a]]
  BY DEF set_new, set_free
<1>2. BuilderTypes
  BY DEF BuilderInv
<1>3. cnt' = 0 /\ Len(symbols_v') = 0
  BY <1>1 DEF cnt
<1>4. BuilderTypes'
  <2>1. symbols_v' \in Seq(BuilderEntry)
    BY <1>1
  <2>2. heap' \in [DOMAIN heap' -> Symbols] /\ DOMAIN heap' \subseteq Address
    BY <1>1, <1>2 DEF BuilderTypes
  <2> QED
    BY <1>1, <2>1, <2>2 DEF BuilderTypes
<1>5. RoomInv'
  <2>1. 0 * Delta = 0
    BY BuilderAssumption
  <2> QED
    BY <1>1, <1>3, <2>1 DEF RoomInv
<1>6. Copies(symbols_v, heap, given)'
  BY <1>1, <1>3 DEF Copies
<1> QED
  BY <1>1, <1>4, <1>5, <1>6 DEF BuilderInv, BuilderControl

(* A copy at a free address: the others stay what they are.                *)
LEMMA CopyAdded ==
    ASSUME NEW entries \in Seq(BuilderEntry), NEW mem, NEW g, Copies(entries, mem, g),
           NEW sym, NEW a \in Address \ DOMAIN mem, NEW more,
           more = [b \in DOMAIN mem \cup {a} |-> IF b = a THEN sym ELSE mem[b]]
    PROVE  Copies(Append(entries, [str |-> a, hash |-> 0]), more, g \cup {sym})
<1> DEFINE added == [str |-> a, hash |-> 0]
           longer == Append(entries, added)
           c == Len(entries)
<1>1. added \in BuilderEntry /\ added.str = a
  BY DEF BuilderEntry
<1> HIDE DEF added
<1>2. /\ longer \in Seq(BuilderEntry) /\ Len(longer) = c + 1 /\ c \in Nat
      /\ \A i \in 1 .. c : longer[i] = entries[i]
      /\ longer[c + 1] = added
  BY <1>1, AppendProperties
<1> HIDE DEF longer
<1>3. \A b \in DOMAIN mem : b \in DOMAIN more /\ more[b] = mem[b]
  OBVIOUS
<1>4. a \in DOMAIN more /\ more[a] = sym
  OBVIOUS
<1>5. \A i \in 1 .. c : /\ longer[i].str \in DOMAIN more
                        /\ more[longer[i].str] = mem[entries[i].str]
  BY <1>2, <1>3 DEF Copies
<1>6. longer[c + 1].str \in DOMAIN more /\ more[longer[c + 1].str] = sym
  BY <1>1, <1>2, <1>4
<1>7. \A i \in 1 .. c + 1 : i \in 1 .. c \/ i = c + 1
  BY <1>2
<1>8. 1 .. c \subseteq 1 .. c + 1 /\ c + 1 \in 1 .. c + 1
  BY <1>2
<1>9. g = {mem[entries[i].str] : i \in 1 .. c}
  BY DEF Copies
<1>10. g \cup {sym} = {more[longer[i].str] : i \in 1 .. c + 1}
  <2> DEFINE G == {more[longer[i].str] : i \in 1 .. c + 1}
  <2>1. \A x \in G : x \in g \cup {sym}
    BY <1>5, <1>6, <1>7, <1>9
  <2>2. \A x \in g : x \in G
    BY <1>5, <1>8, <1>9
  <2>3. sym \in G
    BY <1>6, <1>8
  <2> QED
    BY <2>1, <2>2, <2>3
<1>11. Copies(longer, more, g \cup {sym})
  BY <1>2, <1>5, <1>6, <1>7, <1>10 DEF Copies
<1> QED
  BY <1>11 DEF longer, added

LEMMA BuilderAddInv ==
    ASSUME BuilderInv, NEW sym \in Symbols, set_add(sym)
    PROVE  BuilderInv' /\ given' = given \cup {sym}
<1>1. /\ phase = "idle" /\ open /\ open' = open /\ phase' = phase /\ room' = Grown
      /\ given' = given \cup {sym}
  BY DEF set_add
<1>2. PICK a \in Address \ DOMAIN heap :
          /\ heap' = [b \in DOMAIN heap \cup {a} |-> IF b = a THEN sym ELSE heap[b]]
          /\ symbols_v' = IF cnt < Grown THEN Append(symbols_v, [str |-> a, hash |-> 0])
                          ELSE symbols_v
  BY DEF set_add
<1>3. BuilderTypes /\ BuilderControl /\ RoomInv /\ Copies(symbols_v, heap, given)
  BY DEF BuilderInv
<1>4. symbols_v \in Seq(BuilderEntry) /\ cnt \in Nat /\ cnt = Len(symbols_v)
  BY <1>3 DEF BuilderTypes, cnt
<1>5. PICK k \in Nat : room = k * Delta
  BY <1>3 DEF RoomInv
<1>6. /\ Grown \in Nat /\ cnt < Grown /\ \E m \in Nat : Grown = m * Delta
  <2>1. room \in Nat /\ cnt <= room
    BY <1>3, <1>5, BuilderAssumption DEF RoomInv
  <2> QED
    BY <1>4, <1>5, <2>1, RoomGrows DEF Grown
<1>7. symbols_v' = Append(symbols_v, [str |-> a, hash |-> 0])
  BY <1>2, <1>6
<1>8. symbols_v' \in Seq(BuilderEntry) /\ Len(symbols_v') = cnt + 1
  <2>1. [str |-> a, hash |-> 0] \in BuilderEntry
    BY DEF BuilderEntry
  <2> QED
    BY <1>4, <1>7, <2>1, AppendProperties
<1>9. Copies(symbols_v, heap, given)'
  <2>1. Copies(Append(symbols_v, [str |-> a, hash |-> 0]), heap', given \cup {sym})
    BY <1>2, <1>3, <1>4, CopyAdded
  <2> QED
    BY <1>1, <1>7, <2>1
<1>10. BuilderTypes'
  <2>1. heap' \in [DOMAIN heap' -> Symbols] /\ DOMAIN heap' \subseteq Address
    BY <1>2, <1>3 DEF BuilderTypes
  <2> QED
    BY <1>1, <1>3, <1>8, <2>1 DEF BuilderTypes
<1>11. BuilderControl'
  BY <1>1, <1>3 DEF BuilderControl
<1>12. RoomInv'
  BY <1>1, <1>4, <1>6, <1>8 DEF RoomInv, cnt
<1> QED
  BY <1>1, <1>9, <1>10, <1>11, <1>12 DEF BuilderInv

(* Entries whose copies are those of others, in any order.                 *)
LEMMA CopiesAgain ==
    ASSUME NEW src, NEW dst, NEW mem, NEW g, Copies(src, mem, g),
           \A i \in 1 .. Len(dst) : \E k \in 1 .. Len(src) : dst[i].str = src[k].str,
           \A k \in 1 .. Len(src) : \E i \in 1 .. Len(dst) : dst[i].str = src[k].str
    PROVE  Copies(dst, mem, g)
<1>1. \A i \in 1 .. Len(dst) : dst[i].str \in DOMAIN mem
  BY DEF Copies
<1>2. g = {mem[src[k].str] : k \in 1 .. Len(src)}
  BY DEF Copies
<1>3. {mem[dst[i].str] : i \in 1 .. Len(dst)} = {mem[src[k].str] : k \in 1 .. Len(src)}
  <2> DEFINE D == {mem[dst[i].str] : i \in 1 .. Len(dst)}
             S == {mem[src[k].str] : k \in 1 .. Len(src)}
  <2>1. ASSUME NEW i \in 1 .. Len(dst) PROVE mem[dst[i].str] \in S
    <3>1. PICK k \in 1 .. Len(src) : dst[i].str = src[k].str
      OBVIOUS
    <3> QED
      BY <3>1
  <2>2. ASSUME NEW k \in 1 .. Len(src) PROVE mem[src[k].str] \in D
    <3>1. PICK i \in 1 .. Len(dst) : dst[i].str = src[k].str
      OBVIOUS
    <3> QED
      BY <3>1, Zenon
  <2> QED
    BY <2>1, <2>2
<1> QED
  BY <1>1, <1>2, <1>3 DEF Copies

LEMMA BuilderFiniInv ==
    ASSUME BuilderInv, NEW b \in BPP, set_fini(b)
    PROVE  BuilderInv' /\ given' = given
<1> DEFINE Value(i) == Masked(Hash[heap[symbols_v[i].str]], b)
           Filled(i) == [symbols_v[i] EXCEPT !.hash = Value(i)]
<1>1. /\ phase = "idle" /\ open /\ cnt > 0 /\ bpp' = b /\ open' = open
      /\ symbols_v' = [i \in 1 .. cnt |-> Filled(i)]
      /\ phase' = "qsort" /\ room' = room /\ heap' = heap /\ given' = given
  BY DEF set_fini
<1>2. BuilderTypes /\ BuilderControl /\ RoomInv /\ Copies(symbols_v, heap, given)
  BY DEF BuilderInv
<1>3. symbols_v \in Seq(BuilderEntry) /\ Len(symbols_v) = cnt /\ cnt \in Nat
  BY <1>2 DEF BuilderTypes, cnt
<1>4. ASSUME NEW i \in 1 .. cnt
      PROVE  /\ Filled(i) \in BuilderEntry
             /\ Filled(i).str = symbols_v[i].str
             /\ Filled(i).hash = Value(i)
  <2>1. symbols_v[i] \in BuilderEntry /\ symbols_v[i].str \in DOMAIN heap
    BY <1>2, <1>3, BuilderEntryAt DEF Copies
  <2>2. heap[symbols_v[i].str] \in Symbols
    BY <1>2, <2>1 DEF BuilderTypes
  <2> DEFINE h == Hash[heap[symbols_v[i].str]]
             d == 2^b
  <2>3. h \in Nat
    BY <2>2, BuilderAssumption
  <2>4. d \in Nat \ {0}
    <3>1. b \in 1 .. WORD /\ WORD \in 1 .. 32
      BY BuilderAssumption
    <3>2. b \in 0 .. 38
      BY <3>1
    <3> QED
      BY <3>2, Powers, Zenon
  <2>5. Value(i) = IF b < WORD THEN h % d ELSE h
    BY DEF Masked
  <2> HIDE DEF h, d, Value
  <2>6. h % d \in Nat
    BY <2>3, <2>4
  <2>7. Value(i) \in Nat
    BY <2>3, <2>5, <2>6
  <2> QED
    BY <2>1, <2>7 DEF BuilderEntry
<1> HIDE DEF Filled
<1>5. /\ symbols_v' \in Seq(BuilderEntry) /\ Len(symbols_v') = cnt
      /\ \A i \in 1 .. cnt : symbols_v'[i] = Filled(i)
  BY <1>1, <1>3, <1>4
<1>6. cnt' = cnt
  BY <1>5 DEF cnt
<1>7. BuilderTypes'
  BY <1>1, <1>2, <1>5 DEF BuilderTypes
<1>8. BuilderControl' /\ RoomInv'
  BY <1>1, <1>2, <1>6 DEF BuilderControl, RoomInv
<1>9. Copies(symbols_v, heap, given)'
  <2>1. \A i \in 1 .. cnt : symbols_v'[i].str = symbols_v[i].str
    BY <1>4, <1>5
  <2>2. Copies(symbols_v', heap, given)
    BY <1>2, <1>3, <1>5, <2>1, CopiesAgain
  <2> QED
    BY <1>1, <2>2
<1>10. Cut(symbols_v, heap, bpp)'
  <2>1. \A i \in 1 .. cnt : symbols_v'[i].hash = Value(i) /\ symbols_v'[i].str = symbols_v[i].str
    BY <1>4, <1>5
  <2> QED
    BY <1>1, <1>5, <2>1 DEF Cut
<1> QED
  BY <1>1, <1>7, <1>8, <1>9, <1>10 DEF BuilderInv

LEMMA BuilderQsortInv ==
    ASSUME BuilderInv, Qsort
    PROVE  BuilderInv'
<1>1. PICK perm \in Bijection(1 .. cnt, 1 .. cnt) :
          symbols_v' = [i \in 1 .. cnt |-> symbols_v[perm[i]]]
  BY DEF Qsort
<1>2. /\ phase = "qsort" /\ phase' = "unique" /\ open' = open /\ bpp' = bpp
      /\ \A i, j \in 1 .. cnt : i < j => symbols_v'[i].hash <= symbols_v'[j].hash
      /\ room' = room /\ heap' = heap /\ given' = given
  BY DEF Qsort
<1>3. /\ BuilderTypes /\ BuilderControl /\ RoomInv /\ Copies(symbols_v, heap, given)
      /\ Cut(symbols_v, heap, bpp)
  BY <1>2 DEF BuilderInv
<1>4. symbols_v \in Seq(BuilderEntry) /\ Len(symbols_v) = cnt /\ cnt \in Nat
  BY <1>3 DEF BuilderTypes, cnt
<1>5. /\ perm \in [1 .. cnt -> 1 .. cnt]
      /\ \A k \in 1 .. cnt : \E i \in 1 .. cnt : perm[i] = k
  BY DEF Bijection, Injection, Surjection
<1>6. /\ symbols_v' \in Seq(BuilderEntry) /\ Len(symbols_v') = cnt
      /\ \A i \in 1 .. cnt : symbols_v'[i] = symbols_v[perm[i]]
  BY <1>1, <1>4, <1>5
<1>7. cnt' = cnt
  BY <1>6 DEF cnt
<1>8. Copies(symbols_v, heap, given)'
  <2>1. /\ \A i \in 1 .. cnt : \E k \in 1 .. cnt : symbols_v'[i].str = symbols_v[k].str
        /\ \A k \in 1 .. cnt : \E i \in 1 .. cnt : symbols_v'[i].str = symbols_v[k].str
    <3>1. \A i \in 1 .. cnt : perm[i] \in 1 .. cnt /\ symbols_v'[i].str = symbols_v[perm[i]].str
      BY <1>5, <1>6
    <3>2. ASSUME NEW k \in 1 .. cnt
          PROVE  \E i \in 1 .. cnt : symbols_v'[i].str = symbols_v[k].str
      <4>1. PICK i \in 1 .. cnt : perm[i] = k
        BY <1>5
      <4> QED
        BY <3>1, <4>1
    <3> QED
      BY <3>1, <3>2
  <2>2. Copies(symbols_v', heap, given)
    BY <1>3, <1>4, <1>6, <2>1, CopiesAgain
  <2> QED
    BY <1>2, <2>2
<1>9. Cut(symbols_v, heap, bpp)'
  <2>1. ASSUME NEW i \in 1 .. cnt
        PROVE  symbols_v'[i].hash = Masked(Hash[heap[symbols_v'[i].str]], bpp)
    <3>1. perm[i] \in 1 .. cnt /\ symbols_v'[i] = symbols_v[perm[i]]
      BY <1>5, <1>6
    <3> QED
      BY <1>3, <1>4, <3>1 DEF Cut
  <2> QED
    BY <1>2, <1>6, <2>1 DEF Cut
<1>10. SortedKeys(Keys(symbols_v)')
  <2>1. /\ Keys(symbols_v') \in Seq(Nat) /\ Len(Keys(symbols_v')) = cnt
        /\ \A i \in 1 .. cnt : Keys(symbols_v')[i] = symbols_v'[i].hash
    BY <1>6, KeysType
  <2> QED
    BY <1>2, <2>1 DEF SortedKeys
<1>11. BuilderTypes' /\ BuilderControl' /\ RoomInv'
  BY <1>2, <1>3, <1>6, <1>7 DEF BuilderTypes, BuilderControl, RoomInv
<1> QED
  BY <1>2, <1>8, <1>9, <1>10, <1>11 DEF BuilderInv

(* The values returned are those of the names that were given.             *)
LEMMA ReturnEncodes ==
    ASSUME BuilderInv, Return
    PROVE  Symbol_Set!Encodes(encoded', given, bpp) /\ given # {}
<1> DEFINE keys == Keys(symbols_v)
<1>1. phase = "unique" /\ encoded' = Unique(keys)
  BY DEF Return, Keys, cnt
<1>2. /\ symbols_v \in Seq(BuilderEntry) /\ Len(symbols_v) = cnt /\ cnt \in Nat /\ cnt > 0
      /\ Copies(symbols_v, heap, given) /\ Cut(symbols_v, heap, bpp) /\ SortedKeys(keys)
  BY <1>1 DEF BuilderInv, BuilderControl, BuilderTypes, cnt
<1>3. /\ keys \in Seq(Nat) /\ Len(keys) = cnt
      /\ \A i \in 1 .. cnt : keys[i] = symbols_v[i].hash
  BY <1>2, KeysType
<1> HIDE DEF keys
<1>4. /\ Unique(keys) \in Seq(Nat) /\ Ascending(Unique(keys))
      /\ Range(Unique(keys)) = Range(keys)
  BY <1>2, <1>3, UniqueCorrect
<1> DEFINE Name(i) == heap[symbols_v[i].str]
<1>5. /\ given = {Name(i) : i \in 1 .. cnt}
      /\ \A i \in 1 .. cnt : keys[i] = Masked(Hash[Name(i)], bpp)
  BY <1>2, <1>3 DEF Copies, Cut
<1>6. \A h \in {Hash[sym] : sym \in given} : Masked(h, bpp) = Symbol_Set!Masked(h, bpp)
  BY DEF Masked, Symbol_Set!Masked
<1> HIDE DEF Name
<1>7. Range(keys) = {keys[i] : i \in 1 .. cnt}
  BY <1>3 DEF Range
<1>8. Range(keys) = {Symbol_Set!Masked(Hash[sym], bpp) : sym \in given}
  BY <1>5, <1>6, <1>7
<1>9. \A u : Range(u) = Symbol_Set!Range(u) /\ (Ascending(u) <=> Symbol_Set!Ascending(u))
  BY DEF Range, Symbol_Set!Range, Ascending, Symbol_Set!Ascending
<1>10. 1 \in 1 .. cnt
  BY <1>2
<1>11. given # {}
  BY <1>5, <1>10
<1> QED
  BY <1>1, <1>4, <1>8, <1>9, <1>11 DEF Symbol_Set!Encodes

LEMMA BuilderReturnInv ==
    ASSUME BuilderInv, Return
    PROVE  BuilderInv'
<1>1. /\ phase' = "idle" /\ open' = open /\ symbols_v' = symbols_v /\ room' = room
      /\ heap' = heap /\ given' = given
  BY DEF Return
<1>2. BuilderTypes' /\ BuilderControl' /\ RoomInv'
  BY <1>1 DEF BuilderInv, BuilderTypes, BuilderControl, RoomInv, cnt
<1> QED
  BY <1>1, <1>2 DEF BuilderInv

LEMMA BuilderInvariance == BuilderSpec => []BuilderInv
<1>1. ASSUME BuilderInv, UNCHANGED builder_vars PROVE BuilderInv'
  <2>1. BuilderTypes' /\ BuilderControl' /\ RoomInv'
    BY <1>1 DEF builder_vars, BuilderInv, BuilderTypes, BuilderControl, RoomInv, cnt
  <2> QED
    BY <1>1, <2>1 DEF builder_vars, BuilderInv
<1>2. BuilderInv /\ [BuilderNext]_builder_vars => BuilderInv'
  BY <1>1, BuilderEmptyInv, BuilderAddInv, BuilderFiniInv, BuilderQsortInv, BuilderReturnInv
     DEF BuilderNext
<1> QED
  BY <1>2, BuilderInitInv, PTL DEF BuilderSpec

(* The builder is a set of symbols: no step of it loses a name or takes a  *)
(* copy for another's, so a string stands for what was added.              *)
THEOREM NewsetBuilderImplementsSet == BuilderSpec => ImplementsSymbolSet
<1>1. BuilderInit => Symbol_Set!Init
  BY DEF BuilderInit, Symbol_Set!Init
<1>2. ASSUME BuilderInv, [BuilderNext]_builder_vars
      PROVE  [Symbol_Set!Next]_Symbol_Set!svars
  <2>1. CASE set_new
    <3>1. ~open /\ open' = TRUE /\ encoded' = encoded /\ given' = {} /\ given = {}
      BY <1>2, <2>1 DEF set_new, BuilderInv, BuilderControl
    <3> QED
      BY <3>1 DEF Symbol_Set!New, Symbol_Set!Next
  <2>2. CASE set_free
    BY <2>2 DEF set_free, Symbol_Set!Free, Symbol_Set!Next
  <2>3. ASSUME NEW sym \in Symbols, set_add(sym)
        PROVE  Symbol_Set!Next
    <3>1. Symbol_Set!Add(sym)
      BY <2>3 DEF set_add, Symbol_Set!Add
    <3> QED
      BY <3>1 DEF Symbol_Set!Next
  <2>4. CASE Return
    <3>1. Symbol_Set!Encodes(encoded', given, bpp) /\ given # {}
      BY <1>2, <2>4, ReturnEncodes
    <3>2. open /\ open' = open /\ given' = given /\ bpp \in BPP
      BY <1>2, <2>4 DEF Return, BuilderInv, BuilderControl
    <3>3. Symbol_Set!Fini(bpp)
      BY <3>1, <3>2 DEF Symbol_Set!Fini
    <3> QED
      BY <3>2, <3>3 DEF Symbol_Set!Next
  <2>5. CASE (\E b \in BPP : set_fini(b)) \/ Qsort \/ UNCHANGED builder_vars
    BY <2>5 DEF set_fini, Qsort, builder_vars, Symbol_Set!svars
  <2> QED
    BY <1>2, <2>1, <2>2, <2>3, <2>4, <2>5 DEF BuilderNext
<1> QED
  BY <1>1, <1>2, BuilderInvariance, PTL DEF BuilderSpec, Symbol_Set!Spec, ImplementsSymbolSet
===============================================================================
