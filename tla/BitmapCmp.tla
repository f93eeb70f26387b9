------------------------------- MODULE BitmapCmp --------------------------------
(***************************************************************************)
(* rpmsetcmp of bitmap_set.c: both strings are decoded into bitmaps, the   *)
(* one of the finer precision is replaced by a truncated copy, and CRoaring *)
(* decides the two inclusions.  A bitmap is the set of its values.         *)
(***************************************************************************)
EXTENDS Integers, Sequences, FiniteSets, Functions

CONSTANTS Str,    \* strings: [text, bpp, fault |-> what is wrong with it, values]
          Arg     \* arguments: [prefix |-> "set:" is there, body |-> a string]

(* In the order in which decode_bitmap finds them: no "R1" and two digits, *)
(* a number of hexadecimal digits that is odd or zero, another character,  *)
(* bytes that CRoaring does not take for one whole and valid bitmap.       *)
Fault == {"none", "header", "length", "digit", "size", "content"}

(* decode_bitmap; an empty bitmap is refused.                              *)
Decodes(s) == s.fault = "none" /\ s.bpp \in 10 .. 32 /\ s.values # <<>>

(* A bitmap was written by set_fini, which truncates it to its precision   *)
(* first (bitmap_set.c:104-133): decode_bitmap does not look.              *)
ASSUME BitmapArgAssumption ==
    /\ \A s \in Str :
          /\ s.fault \in Fault
          /\ Decodes(s) => /\ s.values \in Seq(Nat)
                           /\ \A i \in 1 .. Len(s.values) : s.values[i] < 2^s.bpp
    /\ \A arg \in Arg : arg.body \in Str

VARIABLES pc, args,
          bitmap,      \* bitmap1 and bitmap2, <<>> before they are decoded
          answer

cmp_vars == <<pc, args, bitmap, answer>>

bpp_of(i) == args[i].body.bpp
common_bpp == IF bpp_of(1) < bpp_of(2) THEN bpp_of(1) ELSE bpp_of(2)

CmpInit ==
    /\ pc = "done"
    /\ args = <<>>
    /\ bitmap = <<>>
    /\ answer = 0

Call(arg1, arg2) ==
    /\ pc = "done"
    /\ pc' = "decode1"
    /\ args' = <<arg1, arg2>>
    /\ UNCHANGED <<bitmap, answer>>

(* The bitmaps are freed on the way out.                                   *)
Finish(value) ==
    /\ pc' = "done"
    /\ bitmap' = <<>>
    /\ answer' = value

-----------------------------------------------------------------------------
Decode(i, refused, next) ==
    LET s == args[i].body
    IN  /\ IF Decodes(s)
           THEN /\ bitmap' = Append(bitmap, Range(s.values))
                /\ pc' = next
                /\ UNCHANGED answer
           ELSE Finish(refused)
        /\ UNCHANGED args

Decode1 == pc = "decode1" /\ Decode(1, -3, "decode2")
Decode2 == pc = "decode2" /\ Decode(2, -4, "truncate")

FirstOnly(i) == i = 1      \* mutant: the second bitmap is never the finer one
Finer(i) == bpp_of(i) # common_bpp

Truncated(values) == {h % 2^common_bpp : h \in values}

Truncate ==
    /\ pc = "truncate"
    /\ bitmap' = [i \in {1, 2} |-> IF Finer(i) THEN Truncated(bitmap[i]) ELSE bitmap[i]]
    /\ pc' = "decide"
    /\ UNCHANGED <<args, answer>>

Decide ==
    LET one_in_two == bitmap[1] \subseteq bitmap[2]
        two_in_one == bitmap[2] \subseteq bitmap[1]
    IN  /\ pc = "decide"
        /\ Finish(CASE one_in_two /\ two_in_one -> 0
                    [] two_in_one /\ ~one_in_two -> 1
                    [] one_in_two /\ ~two_in_one -> -1
                    [] OTHER -> -2)
        /\ UNCHANGED args

CmpNext ==
    \/ Decode1 \/ Decode2 \/ Truncate \/ Decide
    \/ \E arg1, arg2 \in Arg : Call(arg1, arg2)

CmpSpec == CmpInit /\ [][CmpNext]_cmp_vars

-----------------------------------------------------------------------------
(* What SetVersion tells apart of a string in this format: a string that   *)
(* does not decode is malformed from its header on.                        *)
Plain(s) ==
    [text |-> s.text, bpp |-> IF Decodes(s) THEN s.bpp ELSE 0, Mshift |-> 7,
     len |-> 2, head |-> "", values |-> s.values]

PlainArg(arg) == [prefix |-> arg.prefix, body |-> Plain(arg.body)]

(* rpmsetcmp answers what SetVersion computes from the two sets, and names *)
(* the first of two strings that do not decode (bitmap_set.c:202-240).     *)
Promise == INSTANCE SetVersion
    WITH Str <- {Plain(s) : s \in Str},
         Arg <- {PlainArg(arg) : arg \in Arg},
         args <- [i \in DOMAIN args |-> PlainArg(args[i])],
         busy <- pc # "done",
         result <- answer

ImplementsSetVersion == Promise!Spec
=============================================================================
