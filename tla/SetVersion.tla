------------------------------ MODULE SetVersion ------------------------------
(***************************************************************************)
(* What rpmsetcmp promises its caller, with no cache, no pointers and no   *)
(* arrays: each call answers from its two arguments alone.  The relation   *)
(* of two sets is decided at the coarser of their two precisions, where a  *)
(* hash value keeps only its low bits.                                     *)
(***************************************************************************)
EXTENDS SetStrings, FiniteSets

CONSTANT Arg
(* What a caller passes: [prefix |-> BOOLEAN, body |-> a string], where    *)
(* prefix says that the text starts with "set:".                           *)

VARIABLES busy,   \* a call is under way
          args,   \* its two arguments (<<>> before the first call)
          result  \* the answer of the last call

svars == <<busy, args, result>>

-----------------------------------------------------------------------------
Truncated(s, target) == {s.values[i] % 2^target : i \in DOMAIN s.values}

(* How the set A compares with the set B.                                  *)
Verdict(A, B) ==
    CASE A = B -> 0
      [] A # B /\ B \subseteq A -> 1
      [] A # B /\ A \subseteq B -> -1
      [] OTHER -> -2

Malformed(s) == value_capacity(s) < 1 \/ s.values = <<>>

CoarserBpp(s1, s2) == IF s1.bpp < s2.bpp THEN s1.bpp ELSE s2.bpp

(* A malformed header is reported before a malformed payload, the first    *)
(* argument before the second; equal strings need no second decode.        *)
Answer(s1, s2) ==
    IF ~set_meta_init(s1) THEN -3
    ELSE IF ~set_meta_init(s2) THEN -4
    ELSE IF Malformed(s1) THEN -3
    ELSE IF Malformed(s2) THEN -4
    ELSE LET t == CoarserBpp(s1, s2)
         IN  Verdict(Truncated(s1, t), Truncated(s2, t))

-----------------------------------------------------------------------------
Init ==
    /\ busy = FALSE
    /\ args = <<>>
    /\ result = 0

Call(arg1, arg2) ==
    /\ ~busy
    /\ busy' = TRUE
    /\ args' = <<arg1, arg2>>
    /\ UNCHANGED result

Return ==
    /\ busy
    /\ busy' = FALSE
    /\ result' = Answer(args[1].body, args[2].body)
    /\ UNCHANGED args

Next == Return \/ \E arg1, arg2 \in Arg : Call(arg1, arg2)

Spec == Init /\ [][Next]_svars
=============================================================================
