---------------------------- MODULE ArrayAlgorithms ----------------------------
(***************************************************************************)
(* The pure algorithms that set9.c runs on arrays of hash values, and the  *)
(* other implementations with it.  Each is a loop: one round of it is a    *)
(* function on what the loop has in its variables.                         *)
(***************************************************************************)
EXTENDS Integers, Sequences

(* What a loop has after a number of rounds; the round function leaves     *)
(* alone what the loop would stop at.                                      *)
Iterate(round, start, rounds) ==
    LET after[n \in Nat] == IF n = 0 THEN start ELSE round[after[n - 1]]
    IN  after[rounds]

(* Binary search of downsample_set: how many elements precede the first    *)
(* one with the high bit set.  Every round shortens l .. u.                *)
Probe(arr, mask) ==
    [b \in [l : Nat, u : Nat] |->
        LET i == (b.l + b.u) \div 2
        IN  IF b.l >= b.u THEN b
            ELSE IF arr[i + 1] <= mask THEN [b EXCEPT !.l = i + 1]
            ELSE [b EXCEPT !.u = i]]

LowCount(arr, mask) == Iterate(Probe(arr, mask), [l |-> 0, u |-> Len(arr)], Len(arr)).u

(* The merge of downsample_set: the smaller head is written, equal heads   *)
(* are written once, and what is left of either half is appended.          *)
WriteHead(v1, v2) ==
    [m \in [i : Nat, j : Nat, dest : Seq(Nat)] |->
        LET more1 == m.i < Len(v1)
            more2 == m.j < Len(v2)
            head1 == v1[m.i + 1]
            head2 == v2[m.j + 1]
        IN  IF ~more1 /\ ~more2 THEN m
            ELSE IF ~more2 \/ (more1 /\ head1 < head2)
            THEN [i |-> m.i + 1, j |-> m.j, dest |-> Append(m.dest, head1)]
            ELSE IF ~more1 \/ head2 < head1
            THEN [i |-> m.i, j |-> m.j + 1, dest |-> Append(m.dest, head2)]
            ELSE [i |-> m.i + 1, j |-> m.j + 1, dest |-> Append(m.dest, head1)]]

MergeHalves(v1, v2) ==
    Iterate(WriteHead(v1, v2), [i |-> 0, j |-> 0, dest |-> <<>>], Len(v1) + Len(v2)).dest

(* downsample_set: the array of (target + 1)-bit values reduced to target  *)
(* bits, by merging its low half with its masked high half.                *)
downsample_set(arr, target) ==
    LET u == LowCount(arr, 2^target - 1)
        v2 == [k \in 1 .. Len(arr) - u |-> arr[u + k] % 2^target]
    IN  MergeHalves(SubSeq(arr, 1, u), v2)

(* The position at or after j of the first element of large that is not    *)
(* below value (one past the end when there is none): what both the linear *)
(* and the stepping search of sorted_subset find in a sorted array.        *)
LowerBound(large, j, value) ==
    LET rest == {k \in j .. Len(large) : large[k] >= value}
    IN  IF rest = {} THEN Len(large) + 1
        ELSE CHOOSE k \in rest : \A other \in rest : k <= other

(* sorted_subset: every element of small is found in large, in order, each *)
(* element of large used at most once.  The walk stays where an element is *)
(* not found.                                                              *)
FindNext(small, large) ==
    [w \in [small : Nat, large : Nat] |->
        LET k == LowerBound(large, w.large + 1, small[w.small + 1])
        IN  IF w.small < Len(small) /\ k <= Len(large) /\ large[k] = small[w.small + 1]
            THEN [small |-> w.small + 1, large |-> k]
            ELSE w]

sorted_subset(small, large) ==
    Iterate(FindNext(small, large), [small |-> 0, large |-> 0], Len(small)).small = Len(small)
=============================================================================
