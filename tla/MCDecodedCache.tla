---------------------------- MODULE MCDecodedCache ----------------------------
(* One cache of three entries, asked for more keys than it holds.          *)
EXTENDS DecodedCache, MCStrings, TLC

AllStr == {Wide, Pair, OtherPair, BadPayload, TooShort}
AllDecoded == DecodedTable(AllStr)

(* Five keys, four of them in one bucket: small enough to do without       *)
(* symmetry, which liveness does not admit.                                *)
FewStr == {Wide, Pair}
FewDecoded == DecodedTable(FewStr)

(* A string set_fini does not produce, and decode_set accepts.             *)
RepeatStr == {Pair, Repeats}
RepeatDecoded == DecodedTable(RepeatStr)

(* Keys of one bucket with equal and with different fingerprints, keys of  *)
(* one string in two buckets.                                              *)
MCCacheBucket(fingerprint, target) ==
    IF fingerprint[1] = 12 /\ target = 10 THEN "right" ELSE "left"

Symmetry == Permutations(Addr)
=============================================================================
