--------------------------- MODULE BitmapSet_proofs ----------------------------
(***************************************************************************)
(* For any symbols and hash values, any sizes and any limit on them: a set *)
(* of the roaring format owns just the string it returned last, and it is  *)
(* a set of symbols, though it keeps no more of them than their values; and  *)
(* any two strings, rpmsetcmp answers what the abstract comparison of      *)
(* set-versions computes.                                                  *)
(***************************************************************************)
EXTENDS BitmapSet, BitmapCmp, CommonFacts, SequenceTheorems

-----------------------------------------------------------------------------
(* A set of numbers below a bound is finite, and has an ascending array.   *)
LEMMA BoundedArray ==
    ASSUME NEW n \in Nat, NEW S, S \subseteq 0 .. n - 1
    PROVE  \E arr \in Seq(Nat) : Ascending(arr) /\ Range(arr) = S
<1> DEFINE HasArray(T) == \E arr \in Seq(Nat) : Ascending(arr) /\ Range(arr) = T
           Good == {m \in Nat : \A T \in SUBSET (0 .. m - 1) : HasArray(T)}
<1>1. 0 \in Good
  <2> SUFFICES ASSUME NEW T \in SUBSET (0 .. -1) PROVE HasArray(T)
    OBVIOUS
  <2>1. T = {}
    OBVIOUS
  <2>2. <<>> \in Seq(Nat) /\ Ascending(<<>>) /\ Range(<<>>) = {}
    BY DEF Ascending, Range
  <2> QED
    BY <2>1, <2>2
<1>2. ASSUME NEW m \in Nat, m \in Good PROVE m + 1 \in Good
  <2> SUFFICES ASSUME NEW T \in SUBSET (0 .. m) PROVE HasArray(T)
    OBVIOUS
  <2>1. T \ {m} \in SUBSET (0 .. m - 1)
    OBVIOUS
  <2>2. PICK arr \in Seq(Nat) : Ascending(arr) /\ Range(arr) = T \ {m}
    BY <1>2, <2>1
  <2>3. CASE m \notin T
    BY <2>2, <2>3
  <2>4. CASE m \in T
    <3>1. \A k \in 1 .. Len(arr) : arr[k] < m
      <4> TAKE k \in 1 .. Len(arr)
      <4>1. arr[k] \in T \ {m}
        BY <2>2 DEF Range
      <4> QED
        BY <4>1
    <3>2. /\ Append(arr, m) \in Seq(Nat) /\ Ascending(Append(arr, m))
          /\ Range(Append(arr, m)) = Range(arr) \cup {m}
      BY <2>2, <3>1, AppendGreatest
    <3> QED
      BY <2>2, <2>4, <3>2
  <2> QED
    BY <2>3, <2>4
<1> HIDE DEF Good
<1>3. n \in Good
  BY <1>1, <1>2, Induct
<1> QED
  BY <1>3 DEF Good

(* What is serialised is the array of all values of the bitmap.            *)
LEMMA SortedCorrect ==
    ASSUME NEW n \in Nat, NEW S, S \subseteq 0 .. n - 1
    PROVE  Sorted(S) \in Seq(Nat) /\ Ascending(Sorted(S)) /\ Range(Sorted(S)) = S
<1> DEFINE c == Cardinality(S)
           IsArray(arr) == arr \in [1 .. c -> S] /\ Ascending(arr)
<1>1. PICK arr \in Seq(Nat) : Ascending(arr) /\ Range(arr) = S
  BY BoundedArray
<1>2. IsFiniteSet(S) /\ c = Len(arr)
  BY <1>1, AscendingCardinality
<1>3. IsArray(arr)
  BY <1>1, <1>2 DEF Range
<1>4. IsArray(Sorted(S))
  BY <1>3, Zenon DEF Sorted
<1>5. c \in Nat /\ S \subseteq Nat
  BY <1>2
<1> DEFINE all == Sorted(S)
<1> HIDE DEF all
<1>6. all \in [1 .. c -> S] /\ Ascending(all)
  BY <1>4 DEF all
<1> HIDE DEF c
<1>7. all \in Seq(Nat) /\ Len(all) = c /\ Range(all) \in SUBSET S
  <2>1. DOMAIN all = 1 .. c /\ \A i \in 1 .. c : all[i] \in S /\ all[i] \in Nat
    BY <1>5, <1>6
  <2>2. all \in [1 .. c -> Nat]
    BY <1>6, <2>1
  <2>3. all \in Seq(Nat) /\ Len(all) = c
    BY <1>5, <2>2
  <2> QED
    BY <2>1, <2>3 DEF Range
<1>8. Cardinality(Range(all)) = c
  BY <1>6, <1>7, AscendingCardinality
<1>9. Range(all) = S
  BY <1>2, <1>7, <1>8, FS_Subset DEF c
<1> QED
  BY <1>6, <1>7, <1>9 DEF all

-----------------------------------------------------------------------------
(* The bitmap is that of the names added, all below a bound, and a set is  *)
(* empty when nothing was added; strings are numbered as they are made.    *)
HashesInv ==
    /\ hashes = {Hash[sym] : sym \in given}
    /\ given \subseteq Symbols
    /\ \E n \in Nat : hashes \subseteq 0 .. n - 1
    /\ added \in Nat
    /\ added = 0 <=> given = {}
    /\ ~open => given = {}

StringsInv ==
    /\ made \in Nat
    /\ encoded \in 0 .. made
    /\ ~open => encoded = NULL
    /\ OneStringOwned

IInv == HashesInv /\ StringsInv

LEMMA InitInv == Init => IInv
<1> SUFFICES ASSUME Init PROVE IInv
  OBVIOUS
<1>1. {} \subseteq 0 .. 0 - 1 /\ 0 \in Nat
  OBVIOUS
<1>2. {Hash[sym] : sym \in {}} = {}
  OBVIOUS
<1>3. DOMAIN <<>> = {}
  OBVIOUS
<1> QED
  BY <1>1, <1>2, <1>3 DEF Init, IInv, HashesInv, StringsInv, OneStringOwned, NULL

LEMMA NextHashes == ASSUME IInv, [Next]_vars PROVE HashesInv'
<1>0. HashesInv
  BY DEF IInv
<1>1. ASSUME UNCHANGED <<open, hashes, added, given>> PROVE HashesInv'
  BY <1>0, <1>1 DEF HashesInv
<1>2. ASSUME hashes' = {}, added' = 0, given' = {} PROVE HashesInv'
  <2>1. {} \subseteq 0 .. 0 - 1 /\ 0 \in Nat
    OBVIOUS
  <2> QED
    BY <1>2, <2>1 DEF HashesInv
<1>3. ASSUME NEW sym \in Symbols, set_add(sym) PROVE HashesInv'
  <2>1. /\ hashes' = hashes \cup {Hash[sym]} /\ given' = given \cup {sym}
        /\ added' = added + 1 /\ open /\ open' = open
    BY <1>3 DEF set_add
  <2>2. hashes' = {Hash[x] : x \in given'} /\ given' \subseteq Symbols
    BY <1>0, <2>1 DEF HashesInv
  <2>3. PICK n \in Nat : hashes \subseteq 0 .. n - 1
    BY <1>0 DEF HashesInv
  <2>4. PICK h : h = Hash[sym] /\ h \in Nat
    BY BitmapHashAssumption
  <2>5. PICK m \in Nat : n <= m /\ h < m
    <3>1. n + h + 1 \in Nat /\ n <= n + h + 1 /\ h < n + h + 1
      BY <2>4
    <3> QED
      BY <3>1
  <2>6. hashes' \subseteq 0 .. m - 1
    <3>1. \A x \in 0 .. n - 1 : x \in 0 .. m - 1
      BY <2>5
    <3>2. h \in 0 .. m - 1
      BY <2>4, <2>5
    <3> QED
      BY <2>1, <2>3, <2>4, <3>1, <3>2, Zenon
  <2>7. added' \in Nat /\ added' # 0 /\ given' # {}
    BY <1>0, <2>1 DEF HashesInv
  <2> QED
    BY <2>1, <2>2, <2>6, <2>7 DEF HashesInv
<1>4. CASE set_new
  BY <1>2, <1>4 DEF set_new
<1>5. CASE set_free
  BY <1>2, <1>5 DEF set_free
<1>6. CASE FiniNull
  BY <1>1, <1>6 DEF FiniNull
<1>7. ASSUME NEW bpp \in BPP, set_fini(bpp) PROVE HashesInv'
  BY <1>1, <1>7 DEF set_fini
<1>8. CASE UNCHANGED vars
  BY <1>1, <1>8 DEF vars
<1> QED
  BY <1>3, <1>4, <1>5, <1>6, <1>7, <1>8 DEF Next

-----------------------------------------------------------------------------
(* The three ways a call may leave the strings: untouched, with the one of *)
(* this set replaced, or with none.                                        *)
LEMMA NextStrings == ASSUME IInv, [Next]_vars PROVE StringsInv'
<1>0. StringsInv
  BY DEF IInv
<1>1. /\ made \in Nat /\ encoded \in 0 .. made
      /\ ~open => encoded = NULL
      /\ DOMAIN strings = {encoded} \ {NULL}
      /\ open /\ returned # NULL /\ encoded # NULL => returned = encoded
      /\ encoded # NULL => strings[encoded].values = result
  BY <1>0 DEF StringsInv, OneStringOwned
<1>2. ASSUME UNCHANGED <<encoded, strings, made, result>>,
             \/ open' = open /\ returned' \in {returned, NULL}
             \/ encoded' = NULL
      PROVE  StringsInv'
  <2>1. /\ made' \in Nat /\ encoded' \in 0 .. made'
        /\ DOMAIN strings' = {encoded'} \ {NULL}
        /\ encoded' # NULL => strings'[encoded'].values = result'
    BY <1>1, <1>2
  <2>2. ~open' => encoded' = NULL
    BY <1>1, <1>2
  <2>3. open' /\ returned' # NULL /\ encoded' # NULL => returned' = encoded'
    BY <1>1, <1>2
  <2> QED
    BY <2>1, <2>2, <2>3, Zenon DEF StringsInv, OneStringOwned
<1>3. CASE set_new
  <2>1. encoded = NULL /\ encoded' = NULL /\ UNCHANGED <<strings, made, result>>
    BY <1>1, <1>3 DEF set_new
  <2> QED
    BY <1>2, <2>1
<1>4. ASSUME NEW sym \in Symbols, set_add(sym) PROVE StringsInv'
  BY <1>2, <1>4 DEF set_add
<1>5. CASE FiniNull
  BY <1>2, <1>5 DEF FiniNull
<1>6. CASE set_free
  <2>1. /\ strings' = [p \in DOMAIN strings \ {encoded} |-> strings[p]]
        /\ encoded' = NULL /\ made' = made
    BY <1>6 DEF set_free, Without
  <2>2. DOMAIN strings' = {encoded'} \ {NULL}
    BY <1>1, <2>1
  <2>3. made' \in Nat /\ encoded' \in 0 .. made'
    BY <1>1, <2>1 DEF NULL
  <2> QED
    BY <2>1, <2>2, <2>3, Zenon DEF StringsInv, OneStringOwned
<1>7. ASSUME NEW bpp \in BPP, set_fini(bpp) PROVE StringsInv'
  <2> DEFINE arr == Sorted(truncate_bitmap(hashes, bpp))
             string == [bpp |-> bpp, values |-> arr]
  <2>1. CASE UNCHANGED <<encoded, strings, made, result>> /\ returned' = NULL /\ open' = open
    BY <1>2, <2>1
  <2>2. CASE /\ made' = made + 1 /\ encoded' = made' /\ returned' = encoded'
             /\ strings' = [p \in DOMAIN Released \cup {made'} |->
                    IF p = made' THEN string ELSE strings[p]]
             /\ result' = strings'[encoded'].values /\ open' = open /\ open
    <3>1. DOMAIN Released = {}
      BY <1>1 DEF Released, Without
    <3>2. made' \in Nat /\ made' # NULL /\ encoded' \in 0 .. made'
      <4>1. made \in Nat /\ made' = made + 1 /\ encoded' = made'
        BY <1>1, <2>2
      <4> QED
        BY ONLY <4>1 DEF NULL
    <3>3. DOMAIN strings' = {encoded'} \ {NULL}
      BY <2>2, <3>1, <3>2
    <3> QED
      BY <2>2, <3>2, <3>3 DEF StringsInv, OneStringOwned
  <2> QED
    BY <1>7, <2>1, <2>2 DEF set_fini
<1>8. CASE UNCHANGED vars
  BY <1>2, <1>8 DEF vars
<1> QED
  BY <1>3, <1>4, <1>5, <1>6, <1>7, <1>8 DEF Next

LEMMA Invariant == Spec => []IInv
<1>1. IInv /\ [Next]_vars => IInv'
  BY NextHashes, NextStrings DEF IInv
<1> QED
  BY InitInv, <1>1, PTL DEF Spec

(* A set has at most the one string that its last successful set_fini      *)
(* returned, which stays as it was made: no call frees it before the next  *)
(* one that succeeds, and none leaves two behind (bitmap_set.c:104-138).   *)
THEOREM StringsOwned == Spec => []OneStringOwned
<1>1. IInv => OneStringOwned
  BY DEF IInv, StringsInv
<1> QED
  BY Invariant, <1>1, PTL

-----------------------------------------------------------------------------
(* The values of the bitmap, truncated, are those of the names.            *)
LEMMA FiniEncodes ==
    ASSUME HashesInv, NEW bpp \in BPP
    PROVE  Symbol_Set!Encodes(Sorted(truncate_bitmap(hashes, bpp)), given, bpp)
<1> DEFINE cut == truncate_bitmap(hashes, bpp)
<1>1. WORD \in 1 .. 32 /\ bpp \in 1 .. WORD
  BY BitmapBoundsAssumption
<1>2. PICK n \in Nat : hashes \subseteq 0 .. n - 1
  BY DEF HashesInv
<1>3. cut = {Symbol_Set!Masked(Hash[sym], bpp) : sym \in given}
  <2>1. CASE bpp = WORD
    BY <1>1, <2>1 DEF HashesInv, truncate_bitmap, Symbol_Set!Masked
  <2>2. CASE bpp # WORD
    <3>1. bpp < WORD
      BY <1>1, <2>2
    <3> QED
      BY <2>2, <3>1 DEF HashesInv, truncate_bitmap, Symbol_Set!Masked
  <2> QED
    BY <2>1, <2>2
<1>4. \E m \in Nat : cut \subseteq 0 .. m - 1
  <2>1. CASE bpp = WORD
    BY <1>2, <2>1 DEF truncate_bitmap
  <2>2. CASE bpp # WORD
    <3>1. cut = {h % 2^bpp : h \in hashes}
      BY <2>2 DEF truncate_bitmap
    <3> DEFINE w == 2^bpp
    <3>2. w \in Nat /\ w > 0
      <4>1. bpp \in 0 .. 38
        BY <1>1
      <4>2. w \in Nat \ {0}
        BY <4>1, Powers, Zenon
      <4> HIDE DEF w
      <4> QED
        BY <4>2
    <3> HIDE DEF w
    <3>3. \A h \in Nat : h % w \in 0 .. w - 1
      BY <3>2
    <3> QED
      BY <1>2, <3>1, <3>2, <3>3 DEF w
  <2> QED
    BY <2>1, <2>2
<1> HIDE DEF cut
<1>5. /\ Sorted(cut) \in Seq(Nat) /\ Ascending(Sorted(cut)) /\ Range(Sorted(cut)) = cut
  BY <1>4, SortedCorrect
<1> QED
  BY <1>3, <1>5
     DEF cut, Symbol_Set!Encodes, Symbol_Set!Ascending, Symbol_Set!Range, Ascending, Range

(* The builder of the roaring format is a set of symbols: a string stands  *)
(* for what was added since set_new, whatever was made of the set before.  *)
THEOREM BuilderImplementsSet == Spec => ImplementsSymbolSet
<1>1. Init => Symbol_Set!Init
  BY DEF Init, Symbol_Set!Init
<1>2. ASSUME IInv, [Next]_vars PROVE [Symbol_Set!Next]_(Symbol_Set!svars)
  <2>0. HashesInv
    BY <1>2 DEF IInv
  <2>1. CASE set_new
    <3>1. given = {} /\ given' = {}
      BY <2>0, <2>1 DEF set_new, HashesInv
    <3> QED
      BY <2>1, <3>1 DEF set_new, Symbol_Set!Next, Symbol_Set!New
  <2>2. ASSUME NEW sym \in Symbols, set_add(sym) PROVE Symbol_Set!Next
    BY <2>2 DEF set_add, Symbol_Set!Next, Symbol_Set!Add
  <2>3. CASE FiniNull
    BY <2>3 DEF FiniNull, Symbol_Set!svars
  <2>4. CASE set_free
    BY <2>4 DEF set_free, Symbol_Set!Next, Symbol_Set!Free
  <2>5. ASSUME NEW bpp \in BPP, set_fini(bpp) PROVE [Symbol_Set!Next]_(Symbol_Set!svars)
    <3> DEFINE arr == Sorted(truncate_bitmap(hashes, bpp))
    <3>1. open /\ added # 0 /\ open' = open /\ given' = given
      BY <2>5 DEF set_fini
    <3>2. CASE result' = result
      BY <3>1, <3>2 DEF Symbol_Set!svars
    <3>3. CASE result' = arr
      <4>1. given # {}
        BY <2>0, <3>1 DEF HashesInv
      <4>2. Symbol_Set!Encodes(arr, given, bpp)
        BY <2>0, FiniEncodes
      <4>3. Symbol_Set!Fini(bpp)
        BY <3>1, <3>3, <4>1, <4>2 DEF Symbol_Set!Fini
      <4> QED
        BY <4>3 DEF Symbol_Set!Next
    <3>4. result' = result \/ result' = arr
      <4>1. CASE result' = result
        BY <4>1
      <4>2. CASE /\ encoded' = made'
                 /\ strings' = [p \in DOMAIN Released \cup {made'} |->
                        IF p = made' THEN [bpp |-> bpp, values |-> arr] ELSE strings[p]]
                 /\ result' = strings'[encoded'].values
        <5>1. strings'[made'] = [bpp |-> bpp, values |-> arr]
          BY <4>2
        <5> QED
          BY <4>2, <5>1
      <4> QED
        BY <2>5, <4>1, <4>2 DEF set_fini
    <3> QED
      BY <3>2, <3>3, <3>4
  <2>6. CASE UNCHANGED vars
    BY <2>6 DEF vars, Symbol_Set!svars
  <2> QED
    BY <1>2, <2>1, <2>2, <2>3, <2>4, <2>5, <2>6 DEF Next
<1> QED
  BY <1>1, <1>2, Invariant, PTL DEF Spec, ImplementsSymbolSet, Symbol_Set!Spec

-----------------------------------------------------------------------------
(* rpmsetcmp: what a call has decoded and truncated so far.                *)
Values(i) == Range(args[i].body.values)

CallInv ==
    /\ pc \in {"done", "decode1", "decode2", "truncate", "decide"}
    /\ pc # "done" => \E arg1, arg2 \in Arg : args = <<arg1, arg2>>
    /\ pc \in {"done", "decode1"} => bitmap = <<>>
    /\ pc \in {"decode2", "truncate", "decide"} => Decodes(args[1].body)
    /\ pc \in {"truncate", "decide"} => Decodes(args[2].body)
    /\ pc = "decode2" => bitmap = <<Values(1)>>
    /\ pc = "truncate" => bitmap = <<Values(1), Values(2)>>
    /\ pc = "decide" => bitmap[1] = Truncated(Values(1)) /\ bitmap[2] = Truncated(Values(2))

LEMMA Operands ==
    ASSUME CallInv, pc # "done"
    PROVE  /\ args[1] \in Arg /\ args[2] \in Arg
           /\ args[1].body \in Str /\ args[2].body \in Str
           /\ DOMAIN args = {1, 2}
<1>1. PICK arg1 \in Arg, arg2 \in Arg : args = <<arg1, arg2>>
  BY DEF CallInv
<1> QED
  BY <1>1, BitmapArgAssumption

(* Truncating to its own precision leaves a bitmap what it is.             *)
LEMMA OwnPrecision ==
    ASSUME CallInv, pc \in {"truncate", "decide"}, NEW i \in {1, 2}
    PROVE  /\ common_bpp \in 10 .. 32
           /\ ~Finer(i) => Truncated(Values(i)) = Values(i)
<1> DEFINE s == args[i].body
           w == 2^s.bpp
<1>1. s \in Str /\ Decodes(s)
  BY Operands DEF CallInv
<1>2. /\ s.values \in Seq(Nat) /\ \A k \in 1 .. Len(s.values) : s.values[k] < w
      /\ s.bpp \in 10 .. 32
  BY <1>1, BitmapArgAssumption DEF Decodes
<1>3. common_bpp \in 10 .. 32
  <2>1. bpp_of(1) \in 10 .. 32 /\ bpp_of(2) \in 10 .. 32
    BY DEF CallInv, Decodes, bpp_of
  <2> QED
    BY <2>1 DEF common_bpp
<1>4. ASSUME ~Finer(i) PROVE Truncated(Values(i)) = Values(i)
  <2>1. 2^common_bpp = w
    BY <1>4 DEF Finer, bpp_of
  <2>2. w \in Nat \ {0}
    <3>1. s.bpp \in 0 .. 38
      BY <1>2
    <3> QED
      BY <3>1, Powers, Zenon
  <2>3. Values(i) = {s.values[k] : k \in 1 .. Len(s.values)}
    BY <1>2 DEF Values, Range
  <2>4. Truncated(Values(i)) = {h % w : h \in Values(i)}
    BY <2>1 DEF Truncated
  <2> HIDE DEF w
  <2>5. ASSUME NEW h \in Values(i) PROVE h % w = h
    <3>1. h \in Nat /\ h < w
      BY <1>2, <2>3, <2>5
    <3>2. h \in 0 .. w - 1 /\ 0 \in Nat /\ h = 0 * w + h
      BY <2>2, <3>1
    <3> QED
      BY <2>2, <3>1, <3>2, UniqueDivision
  <2> QED
    BY <2>4, <2>5
<1> QED
  BY <1>3, <1>4

LEMMA CallInvNext == CallInv /\ [CmpNext]_cmp_vars => CallInv'
<1> SUFFICES ASSUME CallInv, [CmpNext]_cmp_vars PROVE CallInv'
  OBVIOUS
<1>1. ASSUME args' = args
      PROVE  \A i : Values(i)' = Values(i) /\ common_bpp' = common_bpp
  BY <1>1 DEF Values, common_bpp, bpp_of
<1>2. ASSUME NEW value, Finish(value) PROVE CallInv'
  BY <1>2 DEF CallInv, Finish
<1>3. CASE Decode1
  <2>1. pc = "decode1" /\ args' = args
    BY <1>3 DEF Decode1, Decode
  <2>2. CASE Decodes(args[1].body)
    <3>1. bitmap' = Append(bitmap, Values(1)) /\ pc' = "decode2"
      BY <1>3, <2>2 DEF Decode1, Decode, Values
    <3>2. bitmap' = <<Values(1)>>
      BY <2>1, <3>1 DEF CallInv
    <3> QED
      BY <1>1, <2>1, <2>2, <3>1, <3>2 DEF CallInv
  <2>3. CASE ~Decodes(args[1].body)
    BY <1>2, <1>3, <2>3 DEF Decode1, Decode
  <2> QED
    BY <2>2, <2>3
<1>4. CASE Decode2
  <2>1. pc = "decode2" /\ args' = args
    BY <1>4 DEF Decode2, Decode
  <2>2. CASE Decodes(args[2].body)
    <3>1. bitmap' = Append(bitmap, Values(2)) /\ pc' = "truncate"
      BY <1>4, <2>2 DEF Decode2, Decode, Values
    <3>2. bitmap = <<Values(1)>> /\ Decodes(args[1].body)
      BY <2>1 DEF CallInv
    <3>3. ASSUME NEW x, NEW y PROVE Append(<<x>>, y) = <<x, y>>
      <4> DEFINE a == Append(<<x>>, y)
                 b == <<x, y>>
      <4>1. /\ <<x>> \in Seq({x, y}) /\ Len(<<x>>) = 1 /\ <<x>>[1] = x
            /\ b \in Seq({x, y}) /\ Len(b) = 2 /\ b[1] = x /\ b[2] = y
        OBVIOUS
      <4>2. a \in Seq({x, y}) /\ Len(a) = 2 /\ a[1] = x /\ a[2] = y
        BY <4>1
      <4> HIDE DEF a, b
      <4>3. \A i \in 1 .. Len(a) : a[i] = b[i]
        BY <4>1, <4>2
      <4>4. a = b
        BY <4>1, <4>2, <4>3, SeqEqual
      <4> QED
        BY <4>4 DEF a, b
    <3>4. bitmap' = <<Values(1), Values(2)>>
      BY <3>1, <3>2, <3>3, Zenon
    <3>5. (\E arg1, arg2 \in Arg : args = <<arg1, arg2>>) /\ pc' = "truncate"
      BY <2>1, <3>1 DEF CallInv
    <3>6. bitmap' = <<Values(1)', Values(2)'>>
      BY <1>1, <2>1, <3>4
    <3> QED
      BY <2>1, <2>2, <3>2, <3>5, <3>6 DEF CallInv
  <2>3. CASE ~Decodes(args[2].body)
    BY <1>2, <1>4, <2>3 DEF Decode2, Decode
  <2> QED
    BY <2>2, <2>3
<1>5. CASE Truncate
  <2>1. /\ pc = "truncate" /\ args' = args /\ pc' = "decide"
        /\ bitmap' = [i \in {1, 2} |-> IF Finer(i) THEN Truncated(bitmap[i]) ELSE bitmap[i]]
    BY <1>5 DEF Truncate
  <2>2. bitmap = <<Values(1), Values(2)>>
    BY <2>1 DEF CallInv
  <2>3. bitmap[1] = Values(1) /\ bitmap[2] = Values(2)
    BY <2>2
  <2>4. /\ bitmap'[1] = Truncated(Values(1))
        /\ bitmap'[2] = Truncated(Values(2))
    BY <2>1, <2>3, OwnPrecision
  <2>5. /\ Truncated(Values(1))' = Truncated(Values(1))
        /\ Truncated(Values(2))' = Truncated(Values(2))
    BY <1>1, <2>1 DEF Truncated
  <2> QED
    BY <2>1, <2>4, <2>5 DEF CallInv
<1>6. CASE Decide
  <2>1. PICK value : Finish(value)
    BY <1>6 DEF Decide
  <2> QED
    BY <2>1, <1>2
<1>7. CASE \E arg1, arg2 \in Arg : Call(arg1, arg2)
  <2>1. PICK arg1 \in Arg, arg2 \in Arg : Call(arg1, arg2)
    BY <1>7
  <2>2. pc = "done" /\ pc' = "decode1" /\ args' = <<arg1, arg2>> /\ bitmap' = bitmap
    BY <2>1 DEF Call
  <2> QED
    BY <2>2 DEF CallInv
<1>8. CASE UNCHANGED cmp_vars
  <2>1. /\ pc' = pc /\ args' = args /\ bitmap' = bitmap
    BY <1>8 DEF cmp_vars
  <2> QED
    BY <1>1, <2>1 DEF CallInv, Truncated
<1> QED
  BY <1>3, <1>4, <1>5, <1>6, <1>7, <1>8 DEF CmpNext

LEMMA CallInvariance == CmpSpec => []CallInv
<1>1. CmpInit => CallInv
  BY DEF CmpInit, CallInv
<1> QED
  BY <1>1, CallInvNext, PTL DEF CmpSpec

(* What SetVersion makes of a string of this format.                       *)
LEMMA PlainFacts ==
    ASSUME NEW s
    PROVE  /\ Promise!set_meta_init(Plain(s)) <=> Decodes(s)
           /\ Promise!Malformed(Plain(s)) <=> s.values = <<>>
           /\ Decodes(s) => Plain(s).bpp = s.bpp
           /\ Plain(s).values = s.values
<1>1. /\ Plain(s).bpp = IF Decodes(s) THEN s.bpp ELSE 0
      /\ Plain(s).Mshift = 7 /\ Plain(s).len = 2 /\ Plain(s).values = s.values
  BY DEF Plain
<1>2. Promise!set_meta_init(Plain(s)) <=> Decodes(s)
  <2>1. CASE Decodes(s)
    <3>1. Plain(s).bpp \in 10 .. 32
      BY <2>1, <1>1 DEF Decodes
    <3> QED
      BY <3>1, <2>1, <1>1 DEF Promise!set_meta_init, Promise!SET_BPP_MIN, Promise!SET_BPP_MAX,
         Promise!SET_MSHIFT_MIN, Promise!SET_MSHIFT_MAX
  <2>2. CASE ~Decodes(s)
    BY <2>2, <1>1 DEF Promise!set_meta_init, Promise!SET_BPP_MIN, Promise!SET_BPP_MAX
  <2> QED
    BY <2>1, <2>2
<1>3. Promise!value_capacity(Plain(s)) = 1
  <2>1. (2 * 6) \div (7 + 1) = 1
    BY SMT
  <2> QED
    BY <2>1, <1>1 DEF Promise!value_capacity, Promise!BASE62_VALUE_BITS
<1>4. Promise!Malformed(Plain(s)) <=> s.values = <<>>
  BY <1>1, <1>3 DEF Promise!Malformed
<1> QED
  BY <1>1, <1>2, <1>4

(* What is answered of two strings of which both decode, or not.           *)
LEMMA AnswerOf ==
    ASSUME CallInv, pc # "done"
    PROVE  Promise!Answer(Plain(args[1].body), Plain(args[2].body)) =
              IF ~Decodes(args[1].body) THEN -3
              ELSE IF ~Decodes(args[2].body) THEN -4
              ELSE Promise!Verdict(Truncated(Values(1)), Truncated(Values(2)))
<1> DEFINE s1 == args[1].body
           s2 == args[2].body
<1>1. /\ Promise!set_meta_init(Plain(s1)) <=> Decodes(s1)
      /\ Promise!set_meta_init(Plain(s2)) <=> Decodes(s2)
      /\ Promise!Malformed(Plain(s1)) <=> s1.values = <<>>
      /\ Promise!Malformed(Plain(s2)) <=> s2.values = <<>>
  BY PlainFacts
<1>2. CASE ~(Decodes(s1) /\ Decodes(s2))
  BY <1>1, <1>2 DEF Promise!Answer
<1>3. CASE Decodes(s1) /\ Decodes(s2)
  <2> DEFINE t == Promise!CoarserBpp(Plain(s1), Plain(s2))
  <2>1. s1.values # <<>> /\ s2.values # <<>>
    BY <1>3 DEF Decodes
  <2>2. Promise!Answer(Plain(s1), Plain(s2)) =
            Promise!Verdict(Promise!Truncated(Plain(s1), t), Promise!Truncated(Plain(s2), t))
    BY <1>1, <1>3, <2>1 DEF Promise!Answer
  <2>3. t = common_bpp
    <3>1. Plain(s1).bpp = s1.bpp /\ Plain(s2).bpp = s2.bpp
      BY <1>3, PlainFacts
    <3> QED
      BY <3>1 DEF Promise!CoarserBpp, common_bpp, bpp_of
  <2>4. /\ Promise!Truncated(Plain(s1), common_bpp) = Truncated(Values(1))
        /\ Promise!Truncated(Plain(s2), common_bpp) = Truncated(Values(2))
    <3>1. Plain(s1).values = s1.values /\ Plain(s2).values = s2.values
      BY PlainFacts
    <3> QED
      BY <3>1 DEF Promise!Truncated, Truncated, Values, Range
  <2> HIDE DEF t
  <2>5. Promise!Answer(Plain(s1), Plain(s2)) =
            Promise!Verdict(Truncated(Values(1)), Truncated(Values(2)))
    BY <2>2, <2>3, <2>4
  <2> QED
    BY <1>3, <2>5
<1> QED
  BY <1>2, <1>3

(* The end of a call is the answer, every other step is not seen.          *)
LEMMA CallRefines == CallInv /\ [CmpNext]_cmp_vars => [Promise!Next]_Promise!svars
<1> SUFFICES ASSUME CallInv, [CmpNext]_cmp_vars PROVE [Promise!Next]_Promise!svars
  OBVIOUS
<1> DEFINE Body(i) == [j \in DOMAIN args |-> PlainArg(args[j])][i].body
<1>1. ASSUME pc # "done" PROVE Body(1) = Plain(args[1].body) /\ Body(2) = Plain(args[2].body)
  BY <1>1, Operands DEF PlainArg
<1>2. ASSUME pc # "done", NEW value, Finish(value), args' = args,
             value = Promise!Answer(Plain(args[1].body), Plain(args[2].body))
      PROVE  Promise!Next
  <2>1. /\ pc # "done" /\ ~(pc' # "done") /\ args' = args
        /\ answer' = Promise!Answer(Body(1), Body(2))
    BY <1>1, <1>2 DEF Finish
  <2>2. Promise!Return
    BY <2>1 DEF Promise!Return
  <2> QED
    BY <2>2 DEF Promise!Next
<1>3. ASSUME args' = args, answer' = answer, (pc' = "done") <=> (pc = "done")
      PROVE  UNCHANGED Promise!svars
  BY <1>3 DEF Promise!svars
<1>4. CASE Decode1
  <2>1. pc = "decode1" /\ pc # "done" /\ args' = args
    BY <1>4 DEF Decode1, Decode
  <2>2. CASE Decodes(args[1].body)
    BY <1>3, <1>4, <2>1, <2>2 DEF Decode1, Decode
  <2>3. CASE ~Decodes(args[1].body)
    <3>1. Finish(-3) /\ Promise!Answer(Plain(args[1].body), Plain(args[2].body)) = -3
      BY <1>4, <2>1, <2>3, AnswerOf DEF Decode1, Decode
    <3> QED
      BY <1>2, <2>1, <3>1
  <2> QED
    BY <2>2, <2>3
<1>5. CASE Decode2
  <2>1. pc = "decode2" /\ pc # "done" /\ args' = args /\ Decodes(args[1].body)
    BY <1>5 DEF Decode2, Decode, CallInv
  <2>2. CASE Decodes(args[2].body)
    BY <1>3, <1>5, <2>1, <2>2 DEF Decode2, Decode
  <2>3. CASE ~Decodes(args[2].body)
    <3>1. Finish(-4) /\ Promise!Answer(Plain(args[1].body), Plain(args[2].body)) = -4
      BY <1>5, <2>1, <2>3, AnswerOf DEF Decode2, Decode
    <3> QED
      BY <1>2, <2>1, <3>1
  <2> QED
    BY <2>2, <2>3
<1>6. CASE Truncate
  BY <1>3, <1>6 DEF Truncate
<1>7. CASE Decide
  <2> DEFINE A == bitmap[1]
             B == bitmap[2]
  <2>1. /\ pc = "decide" /\ pc # "done" /\ args' = args
        /\ Decodes(args[1].body) /\ Decodes(args[2].body)
        /\ A = Truncated(Values(1)) /\ B = Truncated(Values(2))
    BY <1>7 DEF Decide, CallInv
  <2>2. Promise!Answer(Plain(args[1].body), Plain(args[2].body)) = Promise!Verdict(A, B)
    BY <2>1, AnswerOf
  <2>3. Finish(CASE A \subseteq B /\ B \subseteq A -> 0
                 [] B \subseteq A /\ ~(A \subseteq B) -> 1
                 [] A \subseteq B /\ ~(B \subseteq A) -> -1
                 [] OTHER -> -2)
    BY <1>7 DEF Decide
  <2> HIDE DEF A, B
  <2>4. Promise!Verdict(A, B) = CASE A \subseteq B /\ B \subseteq A -> 0
                                  [] B \subseteq A /\ ~(A \subseteq B) -> 1
                                  [] A \subseteq B /\ ~(B \subseteq A) -> -1
                                  [] OTHER -> -2
    <3>1. A = B <=> A \subseteq B /\ B \subseteq A
      OBVIOUS
    <3> QED
      BY <3>1 DEF Promise!Verdict
  <2> QED
    BY <1>2, <2>1, <2>2, <2>3, <2>4
<1>8. CASE \E arg1, arg2 \in Arg : Call(arg1, arg2)
  <2>1. PICK arg1 \in Arg, arg2 \in Arg : Call(arg1, arg2)
    BY <1>8
  <2>2. /\ pc = "done" /\ pc' # "done" /\ answer' = answer /\ args' = <<arg1, arg2>>
    BY <2>1 DEF Call
  <2>3. [j \in DOMAIN args' |-> PlainArg(args'[j])] = <<PlainArg(arg1), PlainArg(arg2)>>
    BY <2>2
  <2>4. Promise!Call(PlainArg(arg1), PlainArg(arg2))
    BY <2>2, <2>3 DEF Promise!Call
  <2> QED
    BY <2>4 DEF Promise!Next
<1>9. CASE UNCHANGED cmp_vars
  BY <1>3, <1>9 DEF cmp_vars
<1> QED
  BY <1>4, <1>5, <1>6, <1>7, <1>8, <1>9 DEF CmpNext

(* rpmsetcmp of bitmap_set.c answers what the two sets determine at the    *)
(* coarser precision, and names the first of two strings that do not       *)
(* decode (bitmap_set.c:202-240).                                          *)
THEOREM BitmapAnswers == CmpSpec => ImplementsSetVersion
<1>1. CmpInit => Promise!Init
  <2>1. CmpInit => pc = "done" /\ args = <<>> /\ answer = 0
    BY DEF CmpInit
  <2>2. args = <<>> => [j \in DOMAIN args |-> PlainArg(args[j])] = <<>>
    OBVIOUS
  <2> QED
    BY <2>1, <2>2 DEF Promise!Init
<1> QED
  BY <1>1, CallInvariance, CallRefines, PTL DEF CmpSpec, ImplementsSetVersion, Promise!Spec
===============================================================================
