------------------------------ MODULE MCRpmSetCmp -----------------------------
(* Comparisons over two caches, in every order a caller may make them.     *)
EXTENDS RpmSetCmp, MCStrings, TLC

MCStr == {Wide, Pair, OtherPair, Single, BadPayload, TooShort, BadHeader}
MCDecoded == DecodedTable(MCStr)

(* Every string bare, and one of them with its "set:" prefix too.          *)
MCArg == [prefix : {FALSE}, body : MCStr] \cup {[prefix |-> TRUE, body |-> Pair]}

MCCacheBucket(fingerprint, target) ==
    IF fingerprint[1] = 12 /\ target = 10 THEN "right" ELSE "left"

Symmetry == Permutations(Addr)
=============================================================================
