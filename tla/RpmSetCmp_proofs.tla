--------------------------- MODULE RpmSetCmp_proofs ---------------------------
(***************************************************************************)
(* First the caches, for any set of strings, any capacity, any number of   *)
(* caches, any hash of the buckets and any behaviour of the allocator: the *)
(* lists and chains stay intact, what is read from a cache is what was     *)
(* asked for, and each cache is the least-recently-used list of keys that  *)
(* LruCache describes.  Then rpmsetcmp over them, which answers as if it   *)
(* had no caches.                                                          *)
(*                                                                         *)
(* Both structures are described without reachability, by ranking their    *)
(* blocks: a list of use by the time of each entry's last use, a bucket    *)
(* chain by the time each entry was put at its head.  A link then leads to *)
(* the next lower rank, and the rank below any other is led to by a link,  *)
(* which is all that walking, unlinking and relinking need.  For the order *)
(* of the keys a list is described by the sequence of its blocks instead,  *)
(* which exists because a rank decreases along it (ListThreaded).          *)
(***************************************************************************)
EXTENDS RpmSetCmp, CommonFacts

(* M is threaded, from nst down to ost, by the links nw and od; used ranks *)
(* its members by the time of their last use.                              *)
ListOf(M, nst, ost, nw, od, used) ==
    /\ M \subseteq Addr
    /\ \A x \in M : used[x] \in Nat
    /\ \A x, y \in M : used[x] = used[y] => x = y
    /\ IF M = {} THEN nst = NULL /\ ost = NULL
       ELSE /\ nst \in M /\ nw[nst] = NULL /\ \A x \in M : used[x] <= used[nst]
            /\ ost \in M /\ od[ost] = NULL /\ \A x \in M : used[ost] <= used[x]
    /\ \A x \in M : x # nst => nw[x] \in M /\ od[nw[x]] = x
    /\ \A x \in M : x # ost => od[x] \in M /\ nw[od[x]] = x /\ used[od[x]] < used[x]
    /\ \A x, y \in M : used[y] < used[x] => x # ost /\ used[y] <= used[od[x]]

LEMMA ListMoveToFront ==
    ASSUME NEW M, NEW nst, NEW ost, NEW nw, NEW od, NEW used, NEW e \in M,
           NEW nw2, NEW od2, NEW ost2,
           ListOf(M, nst, ost, nw, od, used),
           e # nst,
           od2 = [a \in Addr |-> IF a = e THEN nst
                               ELSE IF a = nw[e] THEN od[e] ELSE od[a]],
           nw2 = [a \in Addr |-> IF a = e THEN NULL
                               ELSE IF a = nst THEN e
                               ELSE IF a = od[e] THEN nw[e] ELSE nw[a]],
           ost2 = IF ost = e THEN nw[e] ELSE ost
    PROVE  \E used2 : ListOf(M, e, ost2, nw2, od2, used2)
<1> DEFINE used2 == [a \in Addr |-> IF a = e THEN used[nst] + 1 ELSE used[a]]
<1>1. \A x \in M : used2[x] = IF x = e THEN used[nst] + 1 ELSE used[x]
  BY DEF ListOf
<1> HIDE DEF used2
<1>a. M \subseteq Addr
  BY DEF ListOf
<1>2. /\ \A x \in M : od2[x] = IF x = e THEN nst ELSE IF x = nw[e] THEN od[e] ELSE od[x]
      /\ \A x \in M : nw2[x] = IF x = e THEN NULL ELSE IF x = nst THEN e
                               ELSE IF x = od[e] THEN nw[e] ELSE nw[x]
  BY <1>a
<1>3. /\ nst \in M /\ ost \in M /\ nw[e] \in M /\ od[nw[e]] = e /\ nw[e] # e
      /\ used[e] < used[nw[e]] /\ used[e] < used[nst]
      /\ e # ost => od[e] \in M /\ nw[od[e]] = e /\ used[od[e]] < used[e]
      /\ NULL \notin M /\ nw[nst] = NULL /\ od[ost] = NULL
  <2>1. /\ nst \in M /\ ost \in M /\ nw[e] \in M /\ od[nw[e]] = e
        /\ NULL \notin M /\ nw[nst] = NULL /\ od[ost] = NULL
    BY AddrAssumption DEF ListOf
  <2>2. nw[e] # ost
    BY <2>1, AddrAssumption
  <2>3. used[e] < used[nw[e]] /\ nw[e] # e
    BY <2>1, <2>2 DEF ListOf
  <2>4. used[e] < used[nst]
    BY <2>1 DEF ListOf
  <2>5. e # ost => od[e] \in M /\ nw[od[e]] = e /\ used[od[e]] < used[e]
    BY DEF ListOf
  <2> QED
    BY <2>1, <2>3, <2>4, <2>5
<1>4. \A x \in M : /\ used[x] \in Nat /\ used[x] <= used[nst] /\ used[ost] <= used[x]
                   /\ x # nst => nw[x] \in M /\ od[nw[x]] = x
                   /\ x # ost => od[x] \in M /\ nw[od[x]] = x /\ used[od[x]] < used[x]
  BY DEF ListOf
<1>5. \A x, y \in M : /\ used[x] = used[y] => x = y
                      /\ used[y] < used[x] => x # ost /\ used[y] <= used[od[x]]
  BY DEF ListOf
<1>6. /\ ost2 \in M /\ od2[ost2] = NULL /\ \A x \in M : used2[ost2] <= used2[x]
  <2>1. CASE e = ost
    <3>1. ost2 = nw[e] /\ od2[ost2] = od[e] /\ od[e] = NULL
      BY <2>1, <1>2, <1>3
    <3>2. ASSUME NEW x \in M, x # e PROVE used[nw[e]] <= used[x]
      BY <3>2, <2>1, <1>3, <1>4, <1>5
    <3> QED
      BY <3>1, <3>2, <1>1, <1>3, <1>4
  <2>2. CASE e # ost
    BY <2>2, <1>1, <1>2, <1>3, <1>4
  <2> QED
    BY <2>1, <2>2
<1>7. \A x \in M : x # e => nw2[x] \in M /\ od2[nw2[x]] = x
  BY <1>2, <1>3, <1>4
<1>8. ASSUME NEW x \in M, x # ost2
      PROVE  od2[x] \in M /\ nw2[od2[x]] = x /\ used2[od2[x]] < used2[x]
  <2>1. CASE x = e
    BY <2>1, <1>1, <1>2, <1>3, <1>4
  <2>2. CASE x = nw[e]
    BY <2>2, <1>8, <1>1, <1>2, <1>3, <1>4
  <2>3. CASE x # e /\ x # nw[e]
    <3>1. x # ost
      BY <2>3, <1>8, <1>2, <1>3
    <3>2. od[x] # e /\ od[x] # nst
      BY <3>1, <2>3, <1>3, <1>4
    <3>3. od[x] # od[e] \/ e = ost
      BY <3>1, <2>3, <1>3, <1>4
    <3> QED
      BY <3>1, <3>2, <3>3, <2>3, <1>1, <1>2, <1>3, <1>4
  <2> QED
    BY <2>1, <2>2, <2>3
<1>9. ASSUME NEW x \in M, NEW y \in M, used2[y] < used2[x]
      PROVE  x # ost2 /\ used2[y] <= used2[od2[x]]
  <2>1. y # e
    BY <1>9, <1>1, <1>3, <1>4
  <2>2. CASE x = e
    <3>1. x # ost2 /\ od2[x] = nst
      BY <2>2, <1>2, <1>3
    <3> QED
      BY <3>1, <2>1, <1>1, <1>3, <1>4
  <2>3. CASE x = nw[e]
    <3>0. used[y] < used[x]
      BY <2>1, <2>3, <1>1, <1>3, <1>9
    <3>1. used[y] < used[e]
      <4>1. used[y] <= used[od[x]] /\ od[x] = e
        BY <3>0, <2>3, <1>3, <1>5
      <4>2. used[y] # used[e]
        BY <2>1, <1>5
      <4> QED
        BY <4>1, <4>2, <1>4
    <3> QED
      BY <3>1, <2>1, <2>3, <1>1, <1>2, <1>3, <1>4, <1>5
  <2>4. CASE x # e /\ x # nw[e]
    <3>1. used[y] < used[x]
      BY <2>1, <2>4, <1>1, <1>9
    <3>2. x # ost /\ used[y] <= used[od[x]] /\ od[x] # e
      BY <3>1, <2>4, <1>3, <1>4, <1>5
    <3> QED
      BY <3>2, <2>1, <2>4, <1>1, <1>2, <1>4
  <2> QED
    BY <2>2, <2>3, <2>4
<1>10. ListOf(M, e, ost2, nw2, od2, used2)
  <2>1. M \subseteq Addr /\ \A x \in M : used2[x] \in Nat
    BY <1>1, <1>3, <1>4 DEF ListOf
  <2>2. \A x, y \in M : used2[x] = used2[y] => x = y
    BY <1>1, <1>3, <1>4, <1>5
  <2>3. nw2[e] = NULL /\ \A x \in M : used2[x] <= used2[e]
    BY <1>1, <1>2, <1>3, <1>4
  <2> QED
    BY <2>1, <2>2, <2>3, <1>6, <1>7, <1>8, <1>9 DEF ListOf
<1> QED
  BY <1>10

LEMMA ListEvictOldest ==
    ASSUME NEW M, NEW nst, NEW ost, NEW nw, NEW od, NEW used, NEW od2, NEW nst2,
           ListOf(M, nst, ost, nw, od, used),
           M # {},
           od2 = [a \in Addr |-> IF a = nw[ost] THEN NULL ELSE od[a]],
           nst2 = IF nst = ost THEN NULL ELSE nst
    PROVE  ListOf(M \ {ost}, nst2, nw[ost], nw, od2, used)
<1>a. M \subseteq Addr /\ NULL \notin M
  BY AddrAssumption DEF ListOf
<1>1. \A x \in M : od2[x] = IF x = nw[ost] THEN NULL ELSE od[x]
  BY <1>a
<1>2. /\ nst \in M /\ ost \in M /\ nw[nst] = NULL /\ od[ost] = NULL
      /\ ost # nst => nw[ost] \in M /\ od[nw[ost]] = ost /\ nw[ost] # ost
  BY <1>a DEF ListOf
<1>3. \A x \in M : /\ used[x] \in Nat /\ used[x] <= used[nst] /\ used[ost] <= used[x]
                   /\ x # nst => nw[x] \in M /\ od[nw[x]] = x
                   /\ x # ost => od[x] \in M /\ nw[od[x]] = x /\ used[od[x]] < used[x]
  BY DEF ListOf
<1>4. \A x, y \in M : /\ used[x] = used[y] => x = y
                      /\ used[y] < used[x] => x # ost /\ used[y] <= used[od[x]]
  BY DEF ListOf
<1>5. CASE nst = ost
  <2>1. M \ {ost} = {}
    BY <1>2, <1>3, <1>4, <1>5
  <2> QED
    BY <2>1, <1>2, <1>5 DEF ListOf
<1>6. CASE nst # ost
  <2>1. ASSUME NEW x \in M \ {ost} PROVE used[nw[ost]] <= used[x]
    <3>1. CASE used[x] < used[nw[ost]]
      BY <3>1, <1>2, <1>3, <1>4, <1>6
    <3> QED
      BY <3>1, <1>2, <1>3, <1>6
  <2>2. nst \in M \ {ost} /\ nw[ost] \in M \ {ost} /\ nst2 = nst /\ od2[nw[ost]] = NULL
    BY <1>1, <1>2, <1>6
  <2>3. ASSUME NEW x \in M \ {ost}, x # nst PROVE nw[x] \in M \ {ost} /\ od2[nw[x]] = x
    BY <2>3, <1>1, <1>2, <1>3, <1>a
  <2>4. ASSUME NEW x \in M \ {ost}, x # nw[ost]
        PROVE  od2[x] \in M \ {ost} /\ nw[od2[x]] = x /\ used[od2[x]] < used[x]
    BY <2>4, <1>1, <1>2, <1>3
  <2>5. ASSUME NEW x \in M \ {ost}, NEW y \in M \ {ost}, used[y] < used[x]
        PROVE  x # nw[ost] /\ used[y] <= used[od2[x]]
    BY <2>1, <2>5, <1>1, <1>2, <1>3, <1>4, <1>6
  <2> QED
    BY <2>1, <2>2, <2>3, <2>4, <2>5, <1>2, <1>3, <1>4, <1>a DEF ListOf
<1> QED
  BY <1>5, <1>6

LEMMA ListInsertNewest ==
    ASSUME NEW M, NEW nst, NEW ost, NEW nw, NEW od, NEW used, NEW e \in Addr,
           NEW M2, NEW nw2, NEW od2, NEW ost2,
           ListOf(M, nst, ost, nw, od, used),
           e \notin M,
           \A a \in Addr : od2[a] = IF a = e THEN nst ELSE od[a],
           \A a \in Addr : nw2[a] = IF a = e THEN NULL ELSE IF a = nst THEN e ELSE nw[a],
           ost2 = IF nst = NULL THEN e ELSE ost,
           M2 = M \cup {e}
    PROVE  \E used2 : ListOf(M2, e, ost2, nw2, od2, used2)
<1> SUFFICES \E used2 : ListOf(M \cup {e}, e, ost2, nw2, od2, used2)
  OBVIOUS
<1> DEFINE used2 == [a \in Addr |-> IF a = e THEN IF M = {} THEN 0 ELSE used[nst] + 1
                                             ELSE used[a]]
<1>a. M \subseteq Addr /\ NULL \notin M
  BY AddrAssumption DEF ListOf
<1>1. /\ \A x \in M : used2[x] = used[x]
      /\ used2[e] = IF M = {} THEN 0 ELSE used[nst] + 1
  BY <1>a
<1> HIDE DEF used2
<1>2. /\ \A x \in M : od2[x] = od[x] /\ nw2[x] = IF x = nst THEN e ELSE nw[x]
      /\ od2[e] = nst /\ nw2[e] = NULL
  BY <1>a
<1>3. \A x \in M : /\ used[x] \in Nat /\ used[x] <= used[nst] /\ used[ost] <= used[x]
                   /\ x # nst => nw[x] \in M /\ od[nw[x]] = x
                   /\ x # ost => od[x] \in M /\ nw[od[x]] = x /\ used[od[x]] < used[x]
  BY DEF ListOf
<1>4. \A x, y \in M : /\ used[x] = used[y] => x = y
                      /\ used[y] < used[x] => x # ost /\ used[y] <= used[od[x]]
  BY DEF ListOf
<1>5. CASE M = {}
  <2>1. nst = NULL /\ ost2 = e
    BY <1>5 DEF ListOf
  <2> QED
    BY <2>1, <1>1, <1>2, <1>5 DEF ListOf
<1>6. CASE M # {}
  <2>1. nst \in M /\ ost \in M /\ nw[nst] = NULL /\ od[ost] = NULL /\ ost2 = ost
    BY <1>6, <1>a DEF ListOf
  <2>2. used2[e] = used[nst] + 1 /\ used[nst] \in Nat
    BY <2>1, <1>1, <1>3, <1>6
  <2>3. \A x \in M \cup {e} : used2[x] \in Nat /\ used2[x] <= used2[e] /\ used2[ost] <= used2[x]
    BY <2>1, <2>2, <1>1, <1>3
  <2>4. \A x, y \in M \cup {e} : used2[x] = used2[y] => x = y
    BY <2>1, <2>2, <1>1, <1>3, <1>4
  <2>5. ASSUME NEW x \in M \cup {e}, x # e PROVE nw2[x] \in M \cup {e} /\ od2[nw2[x]] = x
    BY <2>1, <2>5, <1>2, <1>3
  <2>6. ASSUME NEW x \in M \cup {e}, x # ost
        PROVE  od2[x] \in M \cup {e} /\ nw2[od2[x]] = x /\ used2[od2[x]] < used2[x]
    <3>1. CASE x = e
      BY <3>1, <2>1, <2>2, <1>1, <1>2, <1>3
    <3>2. CASE x # e
      <4>1. od[x] \in M /\ nw[od[x]] = x /\ used[od[x]] < used[x] /\ od[x] # nst
        BY <3>2, <2>6, <2>1, <1>3, <1>a
      <4> QED
        BY <4>1, <3>2, <1>1, <1>2
    <3> QED
      BY <3>1, <3>2
  <2>7. ASSUME NEW x \in M \cup {e}, NEW y \in M \cup {e}, used2[y] < used2[x]
        PROVE  x # ost /\ used2[y] <= used2[od2[x]]
    <3>1. y \in M
      <4>1. y # e
        BY <2>3, <2>7, <2>1
      <4> QED
        BY <4>1
    <3>2. CASE x = e
      BY <3>1, <3>2, <2>1, <1>1, <1>2, <1>3
    <3>3. CASE x # e
      <4>1. x \in M /\ used[y] < used[x]
        BY <3>1, <3>3, <2>7, <1>1
      <4>2. x # ost /\ used[y] <= used[od[x]]
        BY <3>1, <4>1, <1>4
      <4>3. od2[x] = od[x] /\ od[x] \in M
        BY <4>1, <4>2, <1>2, <1>3
      <4> QED
        BY <3>1, <4>2, <4>3, <1>1
    <3> QED
      BY <3>2, <3>3
  <2>8. /\ M \cup {e} \subseteq Addr /\ M \cup {e} # {} /\ ost \in M \cup {e}
        /\ od2[ost] = NULL /\ nw2[e] = NULL /\ ost2 = ost
    BY <2>1, <1>2, <1>a
  <2>9. /\ \A x \in M \cup {e} : x # e => nw2[x] \in M \cup {e} /\ od2[nw2[x]] = x
        /\ \A x \in M \cup {e} : x # ost2 =>
              od2[x] \in M \cup {e} /\ nw2[od2[x]] = x /\ used2[od2[x]] < used2[x]
        /\ \A x, y \in M \cup {e} :
              used2[y] < used2[x] => x # ost2 /\ used2[y] <= used2[od2[x]]
    BY <2>5, <2>6, <2>7, <2>8
  <2>10. e \in M \cup {e} /\ \A x \in M \cup {e} : used2[x] \in Nat
    BY <2>3
  <2>11. (\A x \in M \cup {e} : used2[x] <= used2[e]) /\ \A x \in M \cup {e} : used2[ost2] <= used2[x]
    BY <2>3, <2>8
  <2>12. ListOf(M \cup {e}, e, ost2, nw2, od2, used2)
    <3> DEFINE N == M \cup {e}
    <3>1. /\ N \subseteq Addr /\ N # {} /\ ost2 \in N /\ od2[ost2] = NULL
          /\ nw2[e] = NULL /\ e \in N
      BY <2>8
    <3>2. \A x \in N : used2[x] \in Nat /\ used2[x] <= used2[e] /\ used2[ost2] <= used2[x]
      BY <2>10, <2>11
    <3>3. \A x, y \in N : used2[x] = used2[y] => x = y
      BY <2>4
    <3>4. /\ \A x \in N : x # e => nw2[x] \in N /\ od2[nw2[x]] = x
          /\ \A x \in N : x # ost2 =>
                od2[x] \in N /\ nw2[od2[x]] = x /\ used2[od2[x]] < used2[x]
          /\ \A x, y \in N : used2[y] < used2[x] => x # ost2 /\ used2[y] <= used2[od2[x]]
      BY <2>9
    <3> HIDE DEF N
    <3>5. ListOf(N, e, ost2, nw2, od2, used2)
      BY <3>1, <3>2, <3>3, <3>4 DEF ListOf
    <3> QED
      BY <3>5 DEF N
  <2> QED
    BY <2>12
<1> QED
  BY <1>5, <1>6

(* Only the links of a list's own members matter to it.                    *)
LEMMA ListFrame ==
    ASSUME NEW M, NEW nst, NEW ost, NEW nw, NEW od, NEW used, NEW nw2, NEW od2,
           ListOf(M, nst, ost, nw, od, used),
           \A x \in M : nw2[x] = nw[x] /\ od2[x] = od[x]
    PROVE  ListOf(M, nst, ost, nw2, od2, used)
<1>1. CASE M = {}
  BY <1>1 DEF ListOf
<1>2. CASE M # {}
  <2>1. nst \in M /\ ost \in M
    BY <1>2 DEF ListOf
  <2>2. \A x \in M : x # nst => nw2[x] \in M /\ od2[nw2[x]] = x
    BY DEF ListOf
  <2>3. \A x \in M : x # ost => od2[x] \in M /\ nw2[od2[x]] = x /\ used[od2[x]] < used[x]
    BY DEF ListOf
  <2>4. \A x, y \in M : used[y] < used[x] => x # ost /\ used[y] <= used[od2[x]]
    BY DEF ListOf
  <2> QED
    BY <2>1, <2>2, <2>3, <2>4, <1>2 DEF ListOf
<1> QED
  BY <1>1, <1>2

-----------------------------------------------------------------------------
(* C is chained from head by the links bn; born ranks its members by the   *)
(* time they were put at the head.                                         *)
ChainOf(C, head, bn, born) ==
    /\ C \subseteq Addr
    /\ \A x \in C : born[x] \in Nat
    /\ \A x, y \in C : born[x] = born[y] => x = y
    /\ IF C = {} THEN head = NULL
       ELSE head \in C /\ \A x \in C : born[x] <= born[head]
    /\ \A x \in C : bn[x] # NULL => bn[x] \in C /\ born[bn[x]] < born[x]
    /\ \A x, y \in C : born[y] < born[x] => bn[x] # NULL /\ born[y] <= born[bn[x]]

LEMMA ChainPush ==
    ASSUME NEW C, NEW head, NEW bn, NEW born, NEW e \in Addr \ C, NEW bn2,
           ChainOf(C, head, bn, born),
           bn2[e] = head,
           \A x \in C : bn2[x] = bn[x]
    PROVE  \E born2 : ChainOf(C \cup {e}, e, bn2, born2)
<1> DEFINE born2 == [a \in Addr |-> IF a = e THEN IF C = {} THEN 0 ELSE born[head] + 1
                                             ELSE born[a]]
           N == C \cup {e}
<1>a. C \subseteq Addr /\ NULL \notin C /\ NULL # e
  BY AddrAssumption DEF ChainOf
<1>1. /\ \A x \in C : born2[x] = born[x]
      /\ born2[e] = IF C = {} THEN 0 ELSE born[head] + 1
  BY <1>a
<1> HIDE DEF born2
<1>2. /\ \A x \in C : born[x] \in Nat
      /\ \A x \in C : bn[x] # NULL => bn[x] \in C /\ born[bn[x]] < born[x]
      /\ \A x, y \in C : born[x] = born[y] => x = y
      /\ \A x, y \in C : born[y] < born[x] => bn[x] # NULL /\ born[y] <= born[bn[x]]
  BY DEF ChainOf
<1>3. IF C = {} THEN head = NULL
      ELSE head \in C /\ \A x \in C : born[x] <= born[head]
  BY DEF ChainOf
<1>4. born2[e] \in Nat /\ \A x \in C : born2[x] \in Nat /\ born2[x] < born2[e]
  BY <1>1, <1>2, <1>3
<1>5. \A x, y \in N : born2[x] = born2[y] => x = y
  BY <1>1, <1>2, <1>4
<1>6. ASSUME NEW x \in N, bn2[x] # NULL PROVE bn2[x] \in N /\ born2[bn2[x]] < born2[x]
  BY <1>1, <1>2, <1>3, <1>4, <1>6
<1>7. ASSUME NEW x \in N, NEW y \in N, born2[y] < born2[x]
      PROVE  bn2[x] # NULL /\ born2[y] <= born2[bn2[x]]
  <2>1. y \in C
    <3>1. y # e
      BY <1>4, <1>7
    <3> QED
      BY <3>1
  <2>2. CASE x = e
    BY <2>1, <2>2, <1>1, <1>3, <1>a
  <2>3. CASE x \in C
    BY <2>1, <2>3, <1>1, <1>2, <1>7
  <2> QED
    BY <2>2, <2>3
<1>8. N \subseteq Addr /\ N # {} /\ e \in N /\ \A x \in N : born2[x] \in Nat /\ born2[x] <= born2[e]
  BY <1>a, <1>4
<1> HIDE DEF N
<1>9. ChainOf(N, e, bn2, born2)
  BY <1>5, <1>6, <1>7, <1>8 DEF ChainOf
<1> QED
  BY <1>9 DEF N

LEMMA ChainUnlink ==
    ASSUME NEW C, NEW head, NEW bn, NEW born, NEW v \in C, NEW l, NEW bn2, NEW head2,
           ChainOf(C, head, bn, born),
           IF l = NULL THEN head = v /\ head2 = bn[v] /\ \A x \in C \ {v} : bn2[x] = bn[x]
           ELSE /\ l \in C /\ bn[l] = v /\ head2 = head /\ bn2[l] = bn[v]
                /\ \A x \in C \ {v, l} : bn2[x] = bn[x]
    PROVE  ChainOf(C \ {v}, head2, bn2, born)
<1> DEFINE N == C \ {v}
<1>a. C \subseteq Addr /\ NULL \notin C
  BY AddrAssumption DEF ChainOf
<1>2. /\ \A x \in C : born[x] \in Nat
      /\ \A x \in C : bn[x] # NULL => bn[x] \in C /\ born[bn[x]] < born[x]
      /\ \A x, y \in C : born[x] = born[y] => x = y
      /\ \A x, y \in C : born[y] < born[x] => bn[x] # NULL /\ born[y] <= born[bn[x]]
  BY DEF ChainOf
<1>3. head \in C /\ \A x \in C : born[x] <= born[head]
  BY DEF ChainOf
<1>4. CASE l = NULL
  <2>0. head = v /\ head2 = bn[v] /\ \A x \in N : bn2[x] = bn[x]
    BY <1>4
  <2>1. ASSUME NEW x \in N PROVE born[x] < born[v] /\ bn[v] # NULL /\ born[x] <= born[bn[v]]
    <3>1. born[x] < born[v]
      BY <2>0, <2>1, <1>2, <1>3
    <3> QED
      BY <3>1, <2>1, <1>2
  <2>2. ASSUME NEW x \in N, bn[x] # NULL PROVE bn[x] \in N /\ born[bn[x]] < born[x]
    BY <2>1, <2>2, <1>2
  <2>3. bn[v] # NULL => bn[v] \in N
    BY <1>2
  <2>4. IF N = {} THEN head2 = NULL ELSE head2 \in N /\ \A x \in N : born[x] <= born[head2]
    <3>1. CASE N = {}
      BY <3>1, <2>0, <2>3
    <3>2. CASE N # {}
      BY <3>2, <2>0, <2>1, <2>3
    <3> QED
      BY <3>1, <3>2
  <2>5. N \subseteq Addr /\ N \subseteq C
    BY <1>a
  <2> HIDE DEF N
  <2>6. ChainOf(N, head2, bn2, born)
    BY <2>0, <2>2, <2>4, <2>5, <1>2 DEF ChainOf
  <2> QED
    BY <2>6 DEF N
<1>5. CASE l # NULL
  <2>0. /\ l \in C /\ bn[l] = v /\ head2 = head /\ bn2[l] = bn[v]
        /\ \A x \in C \ {v, l} : bn2[x] = bn[x]
    BY <1>5
  <2>1. v # NULL /\ born[v] < born[l] /\ l # v
    BY <2>0, <1>a, <1>2
  <2>2. ASSUME NEW x \in C, x # l, bn[x] = v PROVE FALSE
    <3>1. born[v] < born[x]
      BY <2>1, <2>2, <1>2
    <3>2. born[x] < born[l] \/ born[l] < born[x]
      BY <2>0, <2>2, <1>2
    <3> QED
      BY <3>1, <3>2, <2>0, <2>1, <2>2, <1>2
  <2>3. ASSUME NEW x \in N, bn2[x] # NULL PROVE bn2[x] \in N /\ born[bn2[x]] < born[x]
    <3>1. CASE x = l
      <4>1. bn[v] # NULL /\ bn2[x] = bn[v]
        BY <3>1, <2>0, <2>3
      <4>2. bn[v] \in C /\ born[bn[v]] < born[v]
        BY <4>1, <1>2
      <4> QED
        BY <4>1, <4>2, <3>1, <2>1, <1>2
    <3>2. CASE x # l
      BY <3>2, <2>0, <2>2, <2>3, <1>2
    <3> QED
      BY <3>1, <3>2
  <2>4. ASSUME NEW x \in N, NEW y \in N, born[y] < born[x]
        PROVE  bn2[x] # NULL /\ born[y] <= born[bn2[x]]
    <3>1. CASE x = l
      <4>1. born[y] <= born[v] /\ born[y] # born[v]
        BY <3>1, <2>0, <2>4, <1>2
      <4>2. bn[v] # NULL /\ born[y] <= born[bn[v]]
        BY <4>1, <1>2
      <4> QED
        BY <4>2, <3>1, <2>0
    <3>2. CASE x # l
      BY <3>2, <2>0, <2>4, <1>2
    <3> QED
      BY <3>1, <3>2
  <2>5. N \subseteq Addr /\ N \subseteq C /\ N # {} /\ head2 \in N
        /\ \A x \in N : born[x] <= born[head2]
    <3>1. head # v
      BY <2>0, <2>1, <1>2, <1>3
    <3> QED
      BY <3>1, <2>0, <2>1, <1>a, <1>3
  <2> HIDE DEF N
  <2>6. ChainOf(N, head2, bn2, born)
    BY <2>3, <2>4, <2>5, <1>2 DEF ChainOf
  <2> QED
    BY <2>6 DEF N
<1> QED
  BY <1>4, <1>5

(* Only the links of a chain's own members matter to it.                   *)
LEMMA ChainFrame ==
    ASSUME NEW C, NEW head, NEW bn, NEW born, NEW bn2,
           ChainOf(C, head, bn, born),
           \A x \in C : bn2[x] = bn[x]
    PROVE  ChainOf(C, head, bn2, born)
  BY DEF ChainOf

-----------------------------------------------------------------------------
(* The inductive invariant.                                                *)

(* The entries in the list of use: all but a victim already taken off it.  *)
Members(id) == Linked(id) \ {victim}

Chain(id, b) ==
    {a \in Linked(id) : BucketOf(block[a].str, block[a].target_bpp) = b}

ReqKey == <<req.str, req.target_bpp>>

Filling == {"decode", "downsample", "makeroom", "unlink", "insert"}

(* The arguments of an activation are those of a valid call.               *)
ReqInv ==
    phase # "idle" => /\ req.str \in Str
                      /\ set_meta_init(req.str)
                      /\ req.target_bpp \in SET_BPP_MIN .. req.str.bpp
                      /\ req.cache_id \in CacheId

(* Entries are filed under a key they hold the array of.                   *)
EntryInv ==
    \A a \in Addr : block[a].status = "linked" =>
        /\ block[a].cache \in CacheId
        /\ block[a].str \in Str
        /\ block[a].target_bpp \in Precision
        /\ block[a].hash_arr = Decoded[block[a].str][block[a].target_bpp]
        /\ block[a].cnt = Len(block[a].hash_arr)

(* The block being filled is nobody else's, and holds what is computed.    *)
FillInv ==
    /\ phase \in {"idle", "lookup", "decode"} => current = "hash_arr"
    /\ phase \in Filling => ent \in Addr /\ block[ent].status = "private"
    /\ phase = "downsample" =>
          /\ bpp \in req.target_bpp - 1 .. req.str.bpp - 1
          /\ block[ent].cnt = Len(Decoded[req.str][bpp + 1])
          /\ current = "hash_arr" => block[ent].hash_arr = Decoded[req.str][bpp + 1]
          /\ current = "temporary" => temporary = Decoded[req.str][bpp + 1]
    /\ phase \in {"makeroom", "unlink", "insert"} =>
          /\ block[ent].str = req.str
          /\ block[ent].target_bpp = req.target_bpp
          /\ block[ent].hash_arr = Decoded[req.str][req.target_bpp]
          /\ block[ent].cnt = Len(block[ent].hash_arr)

(* A victim is an entry of the cache that is being made room in.           *)
VictimInv ==
    IF phase = "unlink" THEN victim \in Linked(req.cache_id) ELSE victim = NULL

(* No key is entered twice.                                                *)
UniqueInv ==
    \A id \in CacheId :
        /\ \A x, y \in Linked(id) : Key(x) = Key(y) => x = y
        /\ phase \in Filling /\ id = req.cache_id =>
              \A x \in Linked(id) : Key(x) # ReqKey

ListInv ==
    \A id \in CacheId :
        \E used : ListOf(Members(id), newest[id], oldest[id], newer, older, used)

(* A lookup has not passed the entry it looks for; the unlinking loop has  *)
(* not passed the victim.                                                  *)
Ahead(id, b, born) ==
    id = req.cache_id =>
        /\ phase = "lookup" /\ b = ReqBucket =>
              /\ ent # NULL => ent \in Chain(id, b)
              /\ \A x \in Chain(id, b) :
                    Key(x) = ReqKey => ent # NULL /\ born[x] <= born[ent]
        /\ phase = "unlink" /\ b = VictimBucket /\ link # NULL =>
              link \in Chain(id, b) /\ born[victim] < born[link]

ChainInv ==
    \A id \in CacheId, b \in Bucket :
        \E born : /\ ChainOf(Chain(id, b), buckets[id][b], bucket_next, born)
                  /\ Ahead(id, b, born)

(* cache_count counts the entries, and the place made for the next one.    *)
CountInv ==
    \A id \in CacheId :
        /\ IsFiniteSet(Members(id))
        /\ cache_count[id] = Cardinality(Members(id)) +
              (IF phase \in {"unlink", "insert"} /\ id = req.cache_id THEN 1 ELSE 0)

IInv == /\ TypeOK
        /\ ReqInv
        /\ EntryInv
        /\ FillInv
        /\ VictimInv
        /\ UniqueInv
        /\ ListInv
        /\ ChainInv
        /\ CountInv

-----------------------------------------------------------------------------
(* Initially every cache is empty.                                         *)
LEMMA InitInv == Init => IInv
<1> SUFFICES ASSUME Init PROVE IInv
  OBVIOUS
<1>1. TypeOK
  <2>1. <<>> \in Seq(Nat) /\ 0 \in 0 .. CACHE_SIZE
    BY SizeAssumption
  <2>2. Blank \in Block
    BY <2>1 DEF Blank, Block
  <2>3. StaticTypeOK
    BY <2>1, <2>2 DEF Init, StaticTypeOK, Pointer
  <2>4. Idle \in Request
    BY DEF Idle, Request
  <2>5. LocalTypeOK
    BY <2>1, <2>4 DEF Init, LocalTypeOK, Pointer
  <2> QED
    BY <2>3, <2>5 DEF TypeOK
<1>2. \A id : Linked(id) = {} /\ Members(id) = {} /\ \A b : Chain(id, b) = {}
  BY DEF Init, Linked, Members, Chain, Blank
<1>3. ReqInv /\ EntryInv /\ FillInv /\ VictimInv
  BY DEF Init, ReqInv, EntryInv, FillInv, VictimInv, Filling, Blank
<1>4. UniqueInv
  BY <1>2 DEF Init, UniqueInv, Filling
<1>5. ListInv
  BY <1>2 DEF Init, ListInv, ListOf
<1>6. ChainInv
  BY <1>2 DEF Init, ChainInv, ChainOf, Ahead
<1>7. CountInv
  <2>1. IsFiniteSet({}) /\ Cardinality({}) = 0
    BY FS_EmptySet
  <2>2. phase = "idle" /\ \A id \in CacheId : cache_count[id] = 0
    BY DEF Init
  <2> QED
    BY <1>2, <2>1, <2>2 DEF CountInv
<1> QED
  BY <1>1, <1>3, <1>4, <1>5, <1>6, <1>7 DEF IInv

-----------------------------------------------------------------------------
(* Types.                                                                  *)

(* The arguments and the array of a valid call have their types.           *)
LEMMA DecodedType ==
    ASSUME NEW s \in Str, set_meta_init(s)
    PROVE  /\ s.bpp \in Precision
           /\ \A t \in SET_BPP_MIN .. s.bpp :
                 t \in Precision /\ Decoded[s][t] \in Seq(Nat) /\ Len(Decoded[s][t]) \in Nat
           /\ Decoded[s][s.bpp] = s.values
           /\ \A t \in SET_BPP_MIN .. s.bpp - 1 :
                 Decoded[s][t] = downsample_set(Decoded[s][t + 1], t)
<1>1. s.bpp \in Precision
  BY DEF set_meta_init, Precision
<1>2. \A t \in SET_BPP_MIN .. s.bpp : t \in Precision
  BY <1>1 DEF Precision, SET_BPP_MIN, SET_BPP_MAX
<1>3. \A t \in SET_BPP_MIN .. s.bpp : Decoded[s][t] \in Seq(Nat)
  BY DecodedAssumption
<1>4. \A t \in SET_BPP_MIN .. s.bpp : Len(Decoded[s][t]) \in Nat
  BY <1>3
<1> QED
  BY <1>1, <1>2, <1>3, <1>4, DecodedAssumption

(* The oldest entry of a full cache exists.                                *)
LEMMA FullCacheHasOldest ==
    ASSUME TypeOK, ReqInv, VictimInv, ListInv, CountInv, phase = "makeroom",
           cache_count[req.cache_id] = CACHE_SIZE
    PROVE  /\ req.cache_id \in CacheId
           /\ Members(req.cache_id) # {}
           /\ Members(req.cache_id) = Linked(req.cache_id)
           /\ oldest[req.cache_id] \in Linked(req.cache_id)
<1> DEFINE id == req.cache_id
<1>1. id \in CacheId
  BY DEF ReqInv
<1>2. IsFiniteSet(Members(id)) /\ Cardinality(Members(id)) = CACHE_SIZE
  <2>1. IsFiniteSet(Members(id)) /\ CACHE_SIZE = Cardinality(Members(id)) + 0
    BY <1>1 DEF CountInv
  <2>2. Cardinality(Members(id)) \in Nat
    BY <2>1, FS_CardinalityType
  <2> QED
    BY <2>1, <2>2
<1>3. Members(id) # {}
  BY <1>2, FS_EmptySet, SizeAssumption
<1>4. PICK used : ListOf(Members(id), newest[id], oldest[id], newer, older, used)
  BY <1>1 DEF ListInv
<1>5. oldest[id] \in Members(id)
  BY <1>3, <1>4 DEF ListOf
<1>6. Members(id) = Linked(id)
  BY AddrAssumption DEF VictimInv, Members, Linked
<1> QED
  BY <1>1, <1>3, <1>5, <1>6

LEMMA ReturnType ==
    ASSUME NEW c \in Int, NEW p \in Pointer, Return(c, p)
    PROVE  LocalTypeOK'
<1>1. Idle \in Request /\ NULL \in Pointer /\ <<>> \in Seq(Nat)
  BY DEF Idle, Request, Pointer
<1> QED
  BY <1>1 DEF Return, LocalTypeOK

LEMMA StoreBlock ==
    ASSUME NEW f \in [Addr -> Block], NEW a, NEW b \in Block
    PROVE  [f EXCEPT ![a] = b] \in [Addr -> Block]
  OBVIOUS

LEMMA TypeNext == IInv /\ [Next]_cvars => TypeOK'
<1> SUFFICES ASSUME IInv, [Next]_cvars PROVE TypeOK'
  OBVIOUS
<1>0. TypeOK /\ ReqInv /\ EntryInv /\ FillInv /\ VictimInv /\ ListInv /\ CountInv
  BY DEF IInv
<1>r. phase # "idle" => /\ req.str \in Str /\ req.target_bpp \in Precision
                        /\ req.cache_id \in CacheId /\ set_meta_init(req.str)
  BY <1>0, DecodedType DEF ReqInv
<1>b. Blank \in Block
  BY DEF Blank, Block
<1>i. Idle \in Request
  BY DEF Idle, Request
<1>f. block \in [Addr -> Block] /\ temporary \in Seq(Nat)
  BY <1>0 DEF TypeOK, StaticTypeOK, LocalTypeOK
<1>p. NULL \in Pointer /\ Addr \subseteq Pointer
  BY DEF Pointer
<1>1. CASE CallAny
  <2>0. PICK s \in Str, id \in CacheId :
           set_meta_init(s) /\ \E target \in SET_BPP_MIN .. s.bpp : cache_decode_set(s, target, id)
    BY <1>1 DEF CallAny
  <2>1. PICK target \in SET_BPP_MIN .. s.bpp : set_meta_init(s) /\ cache_decode_set(s, target, id)
    BY <2>0
  <2>2. target \in Precision /\ BucketOf(s, target) \in Bucket
    BY <2>1, DecodedType, BucketAssumption DEF BucketOf
  <2>3. req' \in Request
    BY <2>1, <2>2 DEF cache_decode_set, Request
  <2>4. ent' \in Pointer
    BY <2>1, <2>2, <1>0 DEF cache_decode_set, TypeOK, StaticTypeOK
  <2> QED
    BY <2>1, <2>3, <2>4, <1>0 DEF cache_decode_set, TypeOK, StaticTypeOK, LocalTypeOK, static
<1>2. CASE ProbeNext
  <2>1. ent' \in Pointer
    BY <1>0, <1>2 DEF ProbeNext, TypeOK, StaticTypeOK, LocalTypeOK, Pointer
  <2> QED
    BY <2>1, <1>0, <1>2 DEF ProbeNext, TypeOK, StaticTypeOK, LocalTypeOK, static
<1>3. CASE Hit
  <2>1. ent \in Addr /\ block[ent].cnt \in Int /\ req.cache_id \in CacheId
    BY <1>0, <1>3, <1>r DEF Hit, TypeOK, StaticTypeOK, LocalTypeOK, Pointer, Block
  <2>2. LocalTypeOK'
    BY <2>1, <1>3, <1>p, ReturnType DEF Hit
  <2>3. newer[ent] \in Pointer /\ older[ent] \in Pointer /\ newest[req.cache_id] \in Pointer
    BY <2>1, <1>0 DEF TypeOK, StaticTypeOK
  <2>4. CASE ent = newest[req.cache_id]
    BY <2>4, <2>2, <1>0, <1>3 DEF Hit, MoveToFront, OldestWithout, TypeOK, StaticTypeOK
  <2>5. CASE ent # newest[req.cache_id]
    <3>a. newer \in [Addr -> Pointer] /\ older \in [Addr -> Pointer]
      BY <1>0 DEF TypeOK, StaticTypeOK
    <3>b. MoveToFront(req.cache_id, ent)
      BY <1>3 DEF Hit
    <3>1. newer' \in [Addr -> Pointer] /\ older' \in [Addr -> Pointer]
      <4>1. newer' \in [Addr -> Pointer]
        BY <2>1, <2>3, <2>5, <3>a, <3>b, <1>p DEF MoveToFront, OldestWithout
      <4>2. older' \in [Addr -> Pointer]
        BY <2>1, <2>3, <2>5, <3>a, <3>b, <1>p DEF MoveToFront, OldestWithout
      <4> QED
        BY <4>1, <4>2
    <3>2. newest' \in [CacheId -> Pointer] /\ oldest' \in [CacheId -> Pointer]
      BY <2>1, <2>3, <2>5, <1>0, <1>3, <1>p DEF Hit, MoveToFront, OldestWithout, TypeOK, StaticTypeOK
    <3> QED
      BY <3>1, <3>2, <2>2, <1>0, <1>3 DEF Hit, TypeOK, StaticTypeOK
  <2> QED
    BY <2>4, <2>5
<1>4. CASE RejectCapacity
  <2>1. LocalTypeOK'
    BY <1>4, <1>p, ReturnType DEF RejectCapacity
  <2> QED
    BY <2>1, <1>0, <1>4 DEF RejectCapacity, TypeOK, StaticTypeOK, static
<1>5. CASE Allocate
  <2>1. PICK a \in Addr :
           block' = [block EXCEPT ![a] = [block[a] EXCEPT !.status = "private"]] /\ ent' = a
    BY <1>5, <1>f DEF Allocate
  <2>2. [block[a] EXCEPT !.status = "private"] \in Block
    BY <1>f, <2>1 DEF Block
  <2>3. block' \in [Addr -> Block]
    BY <2>1, <2>2, <1>f, StoreBlock
  <2> QED
    BY <2>1, <2>3, <1>0, <1>5, <1>p DEF Allocate, TypeOK, StaticTypeOK, LocalTypeOK
<1>6. CASE DecodeFails
  <2>1. LocalTypeOK'
    BY <1>6, <1>p, ReturnType DEF DecodeFails
  <2> QED
    BY <2>1, <1>0, <1>6, <1>b DEF DecodeFails, TypeOK, StaticTypeOK
<1>7. CASE DecodeSucceeds
  <2>1. req.str.values \in Seq(Nat) /\ req.str.bpp \in Int /\ Len(req.str.values) \in Nat
    <3>1. req.str \in Str /\ set_meta_init(req.str)
      BY <1>7, <1>r DEF DecodeSucceeds
    <3>2. req.str.bpp \in SET_BPP_MIN .. req.str.bpp
      BY <3>1 DEF set_meta_init, SET_BPP_MIN
    <3> QED
      BY <3>1, <3>2, DecodedType
  <2>2. block' \in [Addr -> Block]
    <3>1. ent \in Addr
      BY <1>0, <1>7 DEF DecodeSucceeds, FillInv, Filling
    <3>2. block' = [block EXCEPT ![ent] = [block[ent] EXCEPT !.hash_arr = req.str.values,
                                                             !.cnt = Len(req.str.values)]]
      BY <3>1, <1>7, <1>f DEF DecodeSucceeds
    <3>3. [block[ent] EXCEPT !.hash_arr = req.str.values, !.cnt = Len(req.str.values)] \in Block
      BY <3>1, <2>1, <1>f DEF Block
    <3> QED
      BY <3>2, <3>3, <1>f, StoreBlock
  <2> QED
    BY <2>1, <2>2, <1>0, <1>7 DEF DecodeSucceeds, TypeOK, StaticTypeOK, LocalTypeOK
<1>8. CASE DownsampleOnce
  <2>0. req.str \in Str /\ set_meta_init(req.str) /\ ent \in Addr /\ bpp \in Int
        /\ bpp \in SET_BPP_MIN .. req.str.bpp - 1 /\ bpp \in SET_BPP_MIN .. req.str.bpp
    <3>1. phase = "downsample" /\ bpp >= req.target_bpp
      BY <1>8 DEF DownsampleOnce
    <3>2. req.str \in Str /\ set_meta_init(req.str)
          /\ req.target_bpp \in SET_BPP_MIN .. req.str.bpp
      BY <3>1, <1>0 DEF ReqInv
    <3>3. ent \in Addr /\ bpp \in req.target_bpp - 1 .. req.str.bpp - 1
      BY <3>1, <1>0 DEF FillInv, Filling
    <3>4. req.str.bpp \in Int
      BY <3>2, StrAssumption
    <3> QED
      BY <3>1, <3>2, <3>3, <3>4 DEF SET_BPP_MIN
  <2>1. Decoded[req.str][bpp] = downsample_set(Decoded[req.str][bpp + 1], bpp)
    BY <2>0, DecodedType
  <2>2. Decoded[req.str][bpp] \in Seq(Nat) /\ Len(Decoded[req.str][bpp]) \in Nat
    BY <2>0, DecodedType
  <2>3. CASE current = "hash_arr"
    <3>1. temporary' = Decoded[req.str][bpp]
      BY <2>1, <2>3, <1>0, <1>8 DEF DownsampleOnce, FillInv
    <3>2. block' = [block EXCEPT ![ent] = [block[ent] EXCEPT !.cnt = Len(Decoded[req.str][bpp])]]
      BY <3>1, <2>0, <2>3, <1>8, <1>f DEF DownsampleOnce
    <3>3. [block[ent] EXCEPT !.cnt = Len(Decoded[req.str][bpp])] \in Block
      BY <2>0, <2>2, <1>f DEF Block
    <3>4. block' \in [Addr -> Block]
      BY <3>2, <3>3, <1>f, StoreBlock
    <3> QED
      BY <3>1, <3>4, <2>0, <2>2, <2>3, <1>0, <1>8 DEF DownsampleOnce, TypeOK, StaticTypeOK, LocalTypeOK
  <2>4. CASE current = "temporary"
    <3>1. block' = [block EXCEPT ![ent] =
                       [block[ent] EXCEPT !.hash_arr = Decoded[req.str][bpp],
                                          !.cnt = Len(Decoded[req.str][bpp])]]
      BY <2>0, <2>1, <2>4, <1>0, <1>8, <1>f DEF DownsampleOnce, FillInv
    <3>2. [block[ent] EXCEPT !.hash_arr = Decoded[req.str][bpp],
                             !.cnt = Len(Decoded[req.str][bpp])] \in Block
      BY <2>0, <2>2, <1>f DEF Block
    <3>3. block' \in [Addr -> Block]
      BY <3>1, <3>2, <1>f, StoreBlock
    <3> QED
      BY <3>3, <2>0, <2>4, <1>0, <1>8 DEF DownsampleOnce, TypeOK, StaticTypeOK, LocalTypeOK
  <2> QED
    BY <2>3, <2>4, <1>0 DEF TypeOK, LocalTypeOK
<1>9. CASE StoreKey
  <2>1. req.str \in Str /\ req.target_bpp \in Precision /\ temporary \in Seq(Nat)
    BY <1>9, <1>0, <1>r DEF StoreKey, FinalArray, TypeOK, LocalTypeOK
  <2>2. block' \in [Addr -> Block]
    <3>1. ent \in Addr
      BY <1>0, <1>9 DEF StoreKey, FinalArray, FillInv, Filling
    <3> DEFINE arr == IF current = "temporary" THEN temporary ELSE block[ent].hash_arr
    <3>2. arr \in Seq(Nat)
      BY <3>1, <1>f DEF Block
    <3>3. block' = [block EXCEPT ![ent] = [block[ent] EXCEPT !.hash_arr = arr, !.str = req.str,
                                                             !.target_bpp = req.target_bpp]]
      BY <3>1, <1>9, <1>f, Zenon DEF StoreKey, FinalArray
    <3> HIDE DEF arr
    <3>4. [block[ent] EXCEPT !.hash_arr = arr, !.str = req.str,
                             !.target_bpp = req.target_bpp] \in Block
      BY <3>1, <3>2, <2>1, <1>f DEF Block
    <3> QED
      BY <3>3, <3>4, <1>f, StoreBlock
  <2> QED
    BY <2>2, <1>0, <1>9 DEF StoreKey, FinalArray, TypeOK, StaticTypeOK, LocalTypeOK
<1>10. CASE Grow
  <2>1. req.cache_id \in CacheId
    BY <1>10, <1>r DEF Grow, Full
  <2>2. cache_count[req.cache_id] \in 0 .. CACHE_SIZE /\ cache_count[req.cache_id] # CACHE_SIZE
    BY <2>1, <1>0, <1>10 DEF Grow, Full, TypeOK, StaticTypeOK
  <2>3. cache_count[req.cache_id] + 1 \in 0 .. CACHE_SIZE
    BY <2>2, SizeAssumption
  <2>4. cache_count' \in [CacheId -> 0 .. CACHE_SIZE]
    BY <2>1, <2>3, <1>0, <1>10 DEF Grow, Full, TypeOK, StaticTypeOK
  <2> QED
    BY <2>4, <1>0, <1>10 DEF Grow, Full, TypeOK, StaticTypeOK, LocalTypeOK
<1>11. CASE Evict
  <2>1. req.cache_id \in CacheId /\ oldest[req.cache_id] \in Addr
    BY <1>0, <1>11, FullCacheHasOldest DEF Evict, Full, Linked
  <2>2. newer[oldest[req.cache_id]] \in Pointer
    BY <2>1, <1>0 DEF TypeOK, StaticTypeOK
  <2>3. newest' \in [CacheId -> Pointer] /\ oldest' \in [CacheId -> Pointer]
    BY <2>1, <2>2, <1>0, <1>11, <1>p DEF Evict, Full, TypeOK, StaticTypeOK
  <2>4. older' \in [Addr -> Pointer]
    BY <1>0, <1>11, <1>p DEF Evict, Full, TypeOK, StaticTypeOK
  <2> QED
    BY <2>1, <2>3, <2>4, <1>0, <1>11, <1>p DEF Evict, Full, TypeOK, StaticTypeOK, LocalTypeOK
<1>12. CASE WalkBucket
  <2>1. LinkedTo \in Pointer
    <3>1. victim \in Linked(req.cache_id) /\ req.cache_id \in CacheId
      BY <1>0, <1>12, <1>r DEF WalkBucket, VictimInv
    <3>2. VictimBucket \in Bucket
      BY <3>1, <1>0, BucketAssumption DEF EntryInv, Linked, VictimBucket, BucketOf
    <3> QED
      BY <3>1, <3>2, <1>0 DEF LinkedTo, TypeOK, StaticTypeOK, LocalTypeOK, Pointer
  <2> QED
    BY <2>1, <1>0, <1>12 DEF WalkBucket, TypeOK, StaticTypeOK, LocalTypeOK, static
<1>13. CASE FreeVictim
  <2>1. victim \in Addr /\ bucket_next[victim] \in Pointer
    BY <1>0, <1>13 DEF FreeVictim, AfterVictim, VictimInv, Linked, TypeOK, StaticTypeOK
  <2>2. buckets' \in [CacheId -> [Bucket -> Pointer]] /\ bucket_next' \in [Addr -> Pointer]
    <3>1. CASE link = NULL
      <4>1. bucket_next' \in [Addr -> Pointer]
        BY <3>1, <1>0, <1>13, <1>p DEF FreeVictim, AfterVictim, TypeOK, StaticTypeOK
      <4>2. buckets' = [buckets EXCEPT ![req.cache_id] =
                          [@ EXCEPT ![VictimBucket] = bucket_next[victim]]]
        BY <3>1, <1>13 DEF FreeVictim, AfterVictim
      <4>3. buckets' \in [CacheId -> [Bucket -> Pointer]]
        BY <4>2, <2>1, <1>0 DEF TypeOK, StaticTypeOK
      <4> QED
        BY <4>1, <4>3
    <3>2. CASE link # NULL
      BY <3>2, <2>1, <1>0, <1>13, <1>p DEF FreeVictim, AfterVictim, TypeOK, StaticTypeOK
    <3> QED
      BY <3>1, <3>2
  <2>3. block' \in [Addr -> Block] /\ newer' \in [Addr -> Pointer] /\ older' \in [Addr -> Pointer]
    BY <1>0, <1>13, <1>b, <1>p DEF FreeVictim, AfterVictim, TypeOK, StaticTypeOK
  <2> QED
    BY <2>2, <2>3, <1>0, <1>13, <1>p DEF FreeVictim, AfterVictim, TypeOK, StaticTypeOK, LocalTypeOK
<1>14. CASE Insert
  <2>1. /\ ent \in Addr /\ block[ent].cnt \in Int /\ req.cache_id \in CacheId
        /\ BucketOf(req.str, req.target_bpp) \in Bucket
    BY <1>0, <1>14, <1>r, BucketAssumption
       DEF Insert, ReqBucket, FillInv, Filling, TypeOK, StaticTypeOK, Block, BucketOf
  <2>2. LocalTypeOK'
    BY <2>1, <1>14, <1>p, ReturnType DEF Insert, ReqBucket
  <2>3. block' \in [Addr -> Block]
    <3>1. block' = [block EXCEPT ![ent] = [block[ent] EXCEPT !.status = "linked",
                                                             !.cache = req.cache_id]]
      BY <2>1, <1>14, <1>f DEF Insert, ReqBucket
    <3>2. [block[ent] EXCEPT !.status = "linked", !.cache = req.cache_id] \in Block
      BY <2>1, <1>f DEF Block
    <3> QED
      BY <3>1, <3>2, <1>f, StoreBlock
  <2>4. bucket_next' \in [Addr -> Pointer] /\ buckets' \in [CacheId -> [Bucket -> Pointer]]
    BY <2>1, <1>0, <1>14, <1>p DEF Insert, ReqBucket, TypeOK, StaticTypeOK
  <2>5. newest[req.cache_id] \in Pointer
    BY <2>1, <1>0 DEF TypeOK, StaticTypeOK
  <2>6. newer' \in [Addr -> Pointer] /\ older' \in [Addr -> Pointer]
    BY <2>1, <2>5, <1>0, <1>14, <1>p DEF Insert, ReqBucket, TypeOK, StaticTypeOK
  <2>7. newest' \in [CacheId -> Pointer] /\ oldest' \in [CacheId -> Pointer]
    BY <2>1, <2>5, <1>0, <1>14, <1>p DEF Insert, ReqBucket, TypeOK, StaticTypeOK
  <2> QED
    BY <2>2, <2>3, <2>4, <2>6, <2>7, <1>0, <1>14 DEF Insert, ReqBucket, TypeOK, StaticTypeOK
<1>15. CASE UNCHANGED cvars
  BY <1>0, <1>15 DEF cvars, static, locals, TypeOK, StaticTypeOK, LocalTypeOK
<1> QED
  BY <1>1, <1>2, <1>3, <1>4, <1>5, <1>6, <1>7, <1>8, <1>9, <1>10, <1>11, <1>12, <1>13,
     <1>14, <1>15 DEF Next, CacheStep

-----------------------------------------------------------------------------
(* What each step does to the blocks of the caches.                        *)

(* The entries of the caches are the same blocks with the same contents.   *)
SameEntries ==
    \A a \in Addr : /\ block'[a].status = "linked" <=> block[a].status = "linked"
                    /\ block[a].status = "linked" => block'[a] = block[a]

SameLinks == UNCHANGED <<bucket_next, newer, older, buckets, newest, oldest, victim>>

LEMMA FillingStep ==
    ASSUME TypeOK, NEW e \in Addr, block[e].status # "linked",
           NEW v, v.status # "linked", block' = [block EXCEPT ![e] = v]
    PROVE  SameEntries
<1>1. block \in [Addr -> Block]
  BY DEF TypeOK, StaticTypeOK
<1>2. \A a \in Addr : block'[a] = IF a = e THEN v ELSE block[a]
  BY <1>1
<1> QED
  BY <1>2 DEF SameEntries

(* A step that touches neither entries nor links keeps both structures.    *)
LEMMA QuietStep ==
    ASSUME IInv, SameEntries, SameLinks
    PROVE  /\ EntryInv' /\ ListInv'
           /\ \A id : Linked(id)' = Linked(id) /\ Members(id)' = Members(id)
           /\ \A id, b : Chain(id, b)' = Chain(id, b)
           /\ \A id : \A x \in Linked(id) : Key(x)' = Key(x)
           /\ \A id \in CacheId : \A x, y \in Linked(id)' : Key(x)' = Key(y)' => x = y
           /\ phase' \notin {"lookup", "unlink"} => ChainInv'
<1>1. EntryInv'
  BY DEF IInv, EntryInv, SameEntries
<1>2. ASSUME NEW id PROVE Linked(id)' = Linked(id)
  BY DEF Linked, SameEntries
<1>3. ASSUME NEW id PROVE Members(id)' = Members(id)
  BY <1>2 DEF Members, SameLinks
<1>4. ASSUME NEW id, NEW x \in Linked(id)
      PROVE  x \in Addr /\ block'[x] = block[x] /\ Key(x)' = Key(x)
  BY DEF Linked, SameEntries, Key
<1>5. ASSUME NEW id, NEW b PROVE Chain(id, b)' = Chain(id, b)
  BY <1>2, <1>4 DEF Chain
<1>6. ListInv'
  <2> SUFFICES ASSUME NEW id \in CacheId
               PROVE  \E used : ListOf(Members(id)', newest'[id], oldest'[id], newer', older', used)
    BY DEF ListInv
  <2>1. PICK used : ListOf(Members(id), newest[id], oldest[id], newer, older, used)
    BY DEF IInv, ListInv
  <2> QED
    BY <2>1, <1>3 DEF SameLinks
<1>7. ASSUME NEW id \in CacheId, NEW x \in Linked(id)', NEW y \in Linked(id)', Key(x)' = Key(y)'
      PROVE  x = y
  <2>1. x \in Linked(id) /\ y \in Linked(id)
    BY <1>2, <1>7
  <2>2. Key(x) = Key(y)
    BY <2>1, <1>4, <1>7
  <2> QED
    BY <2>1, <2>2 DEF IInv, UniqueInv
<1>8. ASSUME phase' \notin {"lookup", "unlink"} PROVE ChainInv'
  <2> SUFFICES ASSUME NEW id \in CacheId, NEW b \in Bucket
               PROVE  \E born : /\ ChainOf(Chain(id, b)', buckets'[id][b], bucket_next', born)
                                /\ Ahead(id, b, born)'
    BY DEF ChainInv
  <2>1. PICK born : ChainOf(Chain(id, b), buckets[id][b], bucket_next, born)
    BY DEF IInv, ChainInv
  <2>2. ChainOf(Chain(id, b)', buckets'[id][b], bucket_next', born)
    BY <2>1, <1>5 DEF SameLinks
  <2>3. Ahead(id, b, born)'
    BY <1>8 DEF Ahead
  <2> QED
    BY <2>2, <2>3
<1> QED
  BY <1>1, <1>2, <1>3, <1>4, <1>5, <1>6, <1>7, <1>8

(* A call puts the lookup at the head of the chain of its key.             *)
LEMMA CallInv ==
    ASSUME IInv, TypeOK', NEW s \in Str, NEW id \in CacheId, set_meta_init(s),
           NEW t \in SET_BPP_MIN .. s.bpp, cache_decode_set(s, t, id)
    PROVE  IInv'
<1>1. /\ phase = "idle" /\ phase' = "lookup" /\ block' = block
      /\ req'.str = s /\ req'.target_bpp = t /\ req'.cache_id = id
      /\ ent' = buckets[id][BucketOf(s, t)] /\ current' = current
      /\ cache_count' = cache_count /\ SameLinks
  BY DEF cache_decode_set, static, SameLinks
<1>2. SameEntries
  BY <1>1 DEF SameEntries
<1>3. /\ EntryInv' /\ ListInv'
      /\ \A i : Members(i)' = Members(i)
      /\ \A i, b : Chain(i, b)' = Chain(i, b)
      /\ \A i \in CacheId : \A x, y \in Linked(i)' : Key(x)' = Key(y)' => x = y
  BY <1>1, <1>2, QuietStep
<1>4. ReqInv' /\ FillInv'
  BY <1>1 DEF IInv, ReqInv, FillInv, Filling
<1>5. VictimInv'
  BY <1>1 DEF IInv, VictimInv, SameLinks
<1>6. UniqueInv'
  BY <1>1, <1>3 DEF UniqueInv, Filling
<1>7. CountInv'
  BY <1>1, <1>3 DEF IInv, CountInv
<1>8. ChainInv'
  <2> SUFFICES ASSUME NEW i \in CacheId, NEW b \in Bucket
               PROVE  \E born : /\ ChainOf(Chain(i, b)', buckets'[i][b], bucket_next', born)
                                /\ Ahead(i, b, born)'
    BY DEF ChainInv
  <2>1. PICK born : ChainOf(Chain(i, b), buckets[i][b], bucket_next, born)
    BY DEF IInv, ChainInv
  <2>2. ChainOf(Chain(i, b)', buckets'[i][b], bucket_next', born)
    BY <2>1, <1>1, <1>3 DEF SameLinks
  <2>3. ASSUME i = id, b = BucketOf(s, t)
        PROVE  /\ ent' # NULL => ent' \in Chain(i, b)
               /\ \A x \in Chain(i, b) : ent' # NULL /\ born[x] <= born[ent']
    BY <2>1, <2>3, <1>1, AddrAssumption DEF ChainOf
  <2>4. Ahead(i, b, born)'
    BY <2>3, <1>1, <1>3 DEF Ahead, ReqBucket
  <2> QED
    BY <2>2, <2>4
<1> QED
  BY <1>3, <1>4, <1>5, <1>6, <1>7, <1>8 DEF IInv

(* A lookup passes an entry that is not the one it looks for.              *)
LEMMA ProbeInv ==
    ASSUME IInv, TypeOK', ProbeNext
    PROVE  IInv'
<1>1. /\ phase = "lookup" /\ phase' = "lookup" /\ block' = block /\ req' = req
      /\ ent # NULL /\ ent' = bucket_next[ent] /\ ~KeyMatches(ent) /\ current' = current
      /\ cache_count' = cache_count /\ SameLinks
  BY DEF ProbeNext, static, SameLinks
<1>2. SameEntries
  BY <1>1 DEF SameEntries
<1>3. /\ EntryInv' /\ ListInv'
      /\ \A i : Members(i)' = Members(i)
      /\ \A i, b : Chain(i, b)' = Chain(i, b)
      /\ \A i : \A x \in Linked(i) : Key(x)' = Key(x)
      /\ \A i \in CacheId : \A x, y \in Linked(i)' : Key(x)' = Key(y)' => x = y
  BY <1>1, <1>2, QuietStep
<1>4. ReqInv' /\ FillInv'
  BY <1>1 DEF IInv, ReqInv, FillInv, Filling
<1>5. VictimInv'
  BY <1>1 DEF IInv, VictimInv, SameLinks
<1>6. UniqueInv'
  BY <1>1, <1>3 DEF UniqueInv, Filling
<1>7. CountInv'
  BY <1>1, <1>3 DEF IInv, CountInv
<1>8. Key(ent) # ReqKey
  BY <1>1 DEF KeyMatches, Key, ReqKey
<1>9. ChainInv'
  <2> SUFFICES ASSUME NEW i \in CacheId, NEW b \in Bucket
               PROVE  \E born : /\ ChainOf(Chain(i, b)', buckets'[i][b], bucket_next', born)
                                /\ Ahead(i, b, born)'
    BY DEF ChainInv
  <2>1. PICK born : /\ ChainOf(Chain(i, b), buckets[i][b], bucket_next, born)
                    /\ Ahead(i, b, born)
    BY DEF IInv, ChainInv
  <2>2. ChainOf(Chain(i, b)', buckets'[i][b], bucket_next', born)
    BY <2>1, <1>1, <1>3 DEF SameLinks
  <2>3. ASSUME i = req.cache_id, b = ReqBucket
        PROVE  /\ ent' # NULL => ent' \in Chain(i, b)
               /\ \A x \in Chain(i, b) :
                     Key(x) = ReqKey => ent' # NULL /\ born[x] <= born[ent']
    <3>1. ent \in Chain(i, b)
      BY <2>1, <2>3, <1>1 DEF Ahead
    <3>2. ASSUME NEW x \in Chain(i, b), Key(x) = ReqKey PROVE born[x] < born[ent]
      <4>1. born[x] <= born[ent] /\ x # ent
        BY <2>1, <2>3, <3>2, <1>1, <1>8 DEF Ahead
      <4> QED
        BY <4>1, <3>1, <2>1 DEF ChainOf
    <3> QED
      BY <3>1, <3>2, <2>1, <1>1 DEF ChainOf
  <2>4. \A x \in Chain(i, b) : Key(x)' = Key(x)
    BY <1>3 DEF Chain
  <2>5. Ahead(i, b, born)'
    BY <2>3, <2>4, <1>1, <1>3 DEF Ahead, ReqBucket, ReqKey
  <2> QED
    BY <2>2, <2>5
<1> QED
  BY <1>3, <1>4, <1>5, <1>6, <1>7, <1>9 DEF IInv

(* A return that leaves the caches as they are.                            *)
LEMMA QuietReturn ==
    ASSUME IInv, TypeOK', SameEntries,
           UNCHANGED <<bucket_next, newer, older, buckets, newest, oldest, cache_count>>,
           phase \notin {"idle", "unlink", "insert"}, phase' = "idle", victim' = NULL, current' = "hash_arr"
    PROVE  IInv'
<1>1. SameLinks
  BY DEF IInv, VictimInv, SameLinks
<1>2. /\ EntryInv' /\ ListInv' /\ ChainInv'
      /\ \A i : Members(i)' = Members(i)
      /\ \A i \in CacheId : \A x, y \in Linked(i)' : Key(x)' = Key(y)' => x = y
  BY <1>1, QuietStep
<1>3. ReqInv' /\ FillInv' /\ VictimInv'
  BY DEF ReqInv, FillInv, VictimInv, Filling
<1>4. UniqueInv'
  BY <1>2 DEF UniqueInv, Filling
<1>5. CountInv'
  BY <1>2 DEF IInv, CountInv
<1> QED
  BY <1>2, <1>3, <1>4, <1>5 DEF IInv

(* A step of the filling that leaves the caches as they are.               *)
LEMMA QuietFilling ==
    ASSUME IInv, TypeOK', SameEntries, SameLinks, FillInv',
           cache_count' = cache_count, req' = req,
           phase \in {"decode", "downsample"},
           phase' \in {"decode", "downsample", "makeroom"}
    PROVE  IInv'
<1>1. /\ EntryInv' /\ ListInv' /\ ChainInv'
      /\ \A i : Members(i)' = Members(i) /\ Linked(i)' = Linked(i)
      /\ \A i : \A x \in Linked(i) : Key(x)' = Key(x)
      /\ \A i \in CacheId : \A x, y \in Linked(i)' : Key(x)' = Key(y)' => x = y
  BY QuietStep
<1>2. ReqInv' /\ VictimInv'
  BY DEF IInv, ReqInv, VictimInv, SameLinks
<1>3. UniqueInv'
  BY <1>1 DEF IInv, UniqueInv, Filling, ReqKey
<1>4. CountInv'
  BY <1>1 DEF IInv, CountInv
<1> QED
  BY <1>1, <1>2, <1>3, <1>4 DEF IInv

(* A lookup that reaches the end of its chain has missed: the key is new.  *)
LEMMA AllocateInv ==
    ASSUME IInv, TypeOK', Allocate
    PROVE  IInv'
<1>1. /\ phase = "lookup" /\ ent = NULL /\ phase' = "decode" /\ req' = req
      /\ current' = current
      /\ cache_count' = cache_count /\ SameLinks
  BY DEF Allocate, SameLinks
<1>2. PICK a \in Addr : /\ block[a].status = "free" /\ ent' = a
                        /\ block' = [block EXCEPT ![a] = [block[a] EXCEPT !.status = "private"]]
  BY DEF Allocate, IInv, TypeOK, StaticTypeOK
<1>b. block \in [Addr -> Block]
  BY DEF IInv, TypeOK, StaticTypeOK
<1>3. [block[a] EXCEPT !.status = "private"].status = "private"
  BY <1>b DEF Block
<1>4. SameEntries
  BY <1>2, <1>3, FillingStep DEF IInv
<1>5. /\ EntryInv' /\ ListInv' /\ ChainInv'
      /\ \A i : Members(i)' = Members(i) /\ Linked(i)' = Linked(i)
      /\ \A i : \A x \in Linked(i) : Key(x)' = Key(x)
      /\ \A i \in CacheId : \A x, y \in Linked(i)' : Key(x)' = Key(y)' => x = y
  BY <1>1, <1>4, QuietStep
<1>6. block'[a].status = "private"
  BY <1>2, <1>3, <1>b
<1>7. ReqInv' /\ VictimInv' /\ FillInv'
  BY <1>1, <1>2, <1>6 DEF IInv, ReqInv, VictimInv, SameLinks, FillInv, Filling
<1>8. CountInv'
  BY <1>1, <1>5 DEF IInv, CountInv
<1>9. UniqueInv'
  <2> DEFINE id == req.cache_id
  <2>1. id \in CacheId /\ req.str \in Str /\ req.target_bpp \in Precision
    BY <1>1, DecodedType DEF IInv, ReqInv
  <2>2. ReqBucket \in Bucket
    BY <2>1, BucketAssumption DEF ReqBucket, BucketOf
  <2>3. PICK born : Ahead(id, ReqBucket, born)
    BY <2>1, <2>2 DEF IInv, ChainInv
  <2>4. \A x \in Chain(id, ReqBucket) : Key(x) # ReqKey
    BY <2>3, <1>1 DEF Ahead
  <2>5. ASSUME NEW x \in Linked(id), Key(x) = ReqKey PROVE FALSE
    <3>1. block[x].str = req.str /\ block[x].target_bpp = req.target_bpp
      BY <2>5 DEF Key, ReqKey
    <3>2. x \in Chain(id, ReqBucket)
      BY <3>1 DEF Chain, ReqBucket
    <3> QED
      BY <3>2, <2>4, <2>5
  <2>6. \A x \in Linked(id)' : Key(x)' # ReqKey'
    BY <2>5, <1>1, <1>5 DEF ReqKey
  <2> QED
    BY <2>6, <1>1, <1>5 DEF UniqueInv
<1> QED
  BY <1>5, <1>7, <1>8, <1>9 DEF IInv

LEMMA RejectCapacityInv ==
    ASSUME IInv, TypeOK', RejectCapacity
    PROVE  IInv'
<1>1. SameEntries
  BY DEF RejectCapacity, static, SameEntries
<1>2. /\ phase = "lookup" /\ phase' = "idle" /\ victim' = NULL /\ current' = "hash_arr"
      /\ UNCHANGED <<bucket_next, newer, older, buckets, newest, oldest, cache_count>>
  BY DEF RejectCapacity, Return, static
<1> QED
  BY <1>1, <1>2, QuietReturn

LEMMA DecodeFailsInv ==
    ASSUME IInv, TypeOK', DecodeFails
    PROVE  IInv'
<1>1. /\ phase = "decode" /\ phase' = "idle" /\ victim' = NULL /\ current' = "hash_arr"
      /\ block' = [block EXCEPT ![ent] = Blank]
      /\ UNCHANGED <<bucket_next, newer, older, buckets, newest, oldest, cache_count>>
  BY DEF DecodeFails, Return
<1>2. ent \in Addr /\ block[ent].status = "private"
  BY <1>1 DEF IInv, FillInv, Filling
<1>3. SameEntries
  BY <1>1, <1>2, FillingStep DEF IInv, Blank
<1> QED
  BY <1>1, <1>3, QuietReturn

LEMMA DecodeSucceedsInv ==
    ASSUME IInv, TypeOK', DecodeSucceeds
    PROVE  IInv'
<1> DEFINE b == [block[ent] EXCEPT !.hash_arr = req.str.values, !.cnt = Len(req.str.values)]
<1>1. /\ phase = "decode" /\ phase' = "downsample" /\ req' = req /\ ent' = ent
      /\ current' = current /\ bpp' = req.str.bpp - 1
      /\ cache_count' = cache_count /\ SameLinks
  BY DEF DecodeSucceeds, SameLinks
<1>2. ent \in Addr /\ block[ent].status = "private" /\ block \in [Addr -> Block]
  BY <1>1 DEF IInv, FillInv, Filling, TypeOK, StaticTypeOK
<1>3. block' = [block EXCEPT ![ent] = b]
  BY <1>2 DEF DecodeSucceeds
<1>4. b.status = "private" /\ b.hash_arr = req.str.values /\ b.cnt = Len(req.str.values)
  BY <1>2 DEF Block
<1> HIDE DEF b
<1>5. SameEntries
  BY <1>2, <1>3, <1>4, FillingStep DEF IInv
<1>6. block'[ent] = b
  BY <1>2, <1>3
<1>7. /\ req.str \in Str /\ set_meta_init(req.str) /\ req.str.bpp \in Int
      /\ req.target_bpp \in SET_BPP_MIN .. req.str.bpp
  BY <1>1, StrAssumption DEF IInv, ReqInv
<1>8. Decoded[req.str][req.str.bpp] = req.str.values
  BY <1>7, DecodedAssumption
<1>9. /\ bpp' \in req.target_bpp - 1 .. req.str.bpp - 1
      /\ bpp' + 1 = req.str.bpp
  BY <1>1, <1>7 DEF SET_BPP_MIN
<1>10. current = "hash_arr"
  BY <1>1 DEF IInv, FillInv
<1>11. FillInv'
  BY <1>1, <1>2, <1>4, <1>6, <1>8, <1>9, <1>10 DEF FillInv, Filling
<1> QED
  BY <1>1, <1>5, <1>11, QuietFilling

LEMMA DownsampleInv ==
    ASSUME IInv, TypeOK', DownsampleOnce
    PROVE  IInv'
<1> DEFINE down == Decoded[req.str][bpp]
<1>1. /\ phase = "downsample" /\ phase' = "downsample" /\ req' = req /\ ent' = ent
      /\ bpp >= req.target_bpp /\ bpp' = bpp - 1
      /\ cache_count' = cache_count /\ SameLinks
  BY DEF DownsampleOnce, SameLinks
<1>2. /\ ent \in Addr /\ block[ent].status = "private" /\ block \in [Addr -> Block]
      /\ bpp \in req.target_bpp - 1 .. req.str.bpp - 1
      /\ current = "hash_arr" => block[ent].hash_arr = Decoded[req.str][bpp + 1]
      /\ current = "temporary" => temporary = Decoded[req.str][bpp + 1]
      /\ current \in {"hash_arr", "temporary"}
  BY <1>1 DEF IInv, FillInv, Filling, TypeOK, StaticTypeOK, LocalTypeOK
<1>3. /\ req.str \in Str /\ set_meta_init(req.str) /\ req.str.bpp \in Int
      /\ req.target_bpp \in SET_BPP_MIN .. req.str.bpp
  BY <1>1, StrAssumption DEF IInv, ReqInv
<1>4. /\ bpp \in SET_BPP_MIN .. req.str.bpp - 1
      /\ bpp' \in req.target_bpp - 1 .. req.str.bpp - 1
      /\ bpp' + 1 = bpp
  BY <1>1, <1>2, <1>3 DEF SET_BPP_MIN
<1>5. down = downsample_set(Decoded[req.str][bpp + 1], bpp)
  BY <1>3, <1>4, DecodedType
<1> HIDE DEF down
<1>6. CASE current = "hash_arr"
  <2> DEFINE b == [block[ent] EXCEPT !.cnt = Len(down)]
  <2>1. temporary' = down /\ current' = "temporary"
    BY <1>2, <1>5, <1>6 DEF DownsampleOnce
  <2>2. block' = [block EXCEPT ![ent] = b]
    BY <1>2, <1>6, <2>1 DEF DownsampleOnce
  <2>3. b.status = "private" /\ b.cnt = Len(down)
    BY <1>2 DEF Block
  <2> HIDE DEF b
  <2>4. SameEntries
    BY <1>2, <2>2, <2>3, FillingStep DEF IInv
  <2>5. block'[ent] = b
    BY <1>2, <2>2
  <2>6. FillInv'
    BY <1>1, <1>2, <1>4, <2>1, <2>3, <2>5 DEF FillInv, Filling, down
  <2> QED
    BY <1>1, <2>4, <2>6, QuietFilling
<1>7. CASE current = "temporary"
  <2> DEFINE b == [block[ent] EXCEPT !.hash_arr = down, !.cnt = Len(down)]
  <2>1. current' = "hash_arr" /\ downsample_set(temporary, bpp) = down
    BY <1>2, <1>5, <1>7 DEF DownsampleOnce
  <2>2. block' = [block EXCEPT ![ent] = b]
    BY <1>2, <1>7, <2>1 DEF DownsampleOnce
  <2>3. b.status = "private" /\ b.hash_arr = down /\ b.cnt = Len(down)
    BY <1>2 DEF Block
  <2> HIDE DEF b
  <2>4. SameEntries
    BY <1>2, <2>2, <2>3, FillingStep DEF IInv
  <2>5. block'[ent] = b
    BY <1>2, <2>2
  <2>6. FillInv'
    BY <1>1, <1>2, <1>4, <2>1, <2>3, <2>5 DEF FillInv, Filling, down
  <2> QED
    BY <1>1, <2>4, <2>6, QuietFilling
<1> QED
  BY <1>2, <1>6, <1>7

LEMMA StoreKeyInv ==
    ASSUME IInv, TypeOK', StoreKey
    PROVE  IInv'
<1> DEFINE arr == IF current = "temporary" THEN temporary ELSE block[ent].hash_arr
           b == [block[ent] EXCEPT !.hash_arr = arr, !.str = req.str,
                                   !.target_bpp = req.target_bpp]
<1>1. /\ phase = "downsample" /\ phase' = "makeroom" /\ req' = req /\ ent' = ent
      /\ bpp < req.target_bpp
      /\ cache_count' = cache_count /\ SameLinks
  BY DEF StoreKey, FinalArray, SameLinks
<1>2. /\ ent \in Addr /\ block[ent].status = "private" /\ block \in [Addr -> Block]
      /\ bpp \in req.target_bpp - 1 .. req.str.bpp - 1
      /\ block[ent].cnt = Len(Decoded[req.str][bpp + 1])
      /\ current = "hash_arr" => block[ent].hash_arr = Decoded[req.str][bpp + 1]
      /\ current = "temporary" => temporary = Decoded[req.str][bpp + 1]
      /\ current \in {"hash_arr", "temporary"}
  BY <1>1 DEF IInv, FillInv, Filling, TypeOK, StaticTypeOK, LocalTypeOK
<1>3. req.str \in Str /\ req.str.bpp \in Int /\ req.target_bpp \in SET_BPP_MIN .. req.str.bpp
  BY <1>1, StrAssumption DEF IInv, ReqInv
<1>4. bpp + 1 = req.target_bpp
  BY <1>1, <1>2, <1>3 DEF SET_BPP_MIN
<1>5. arr = Decoded[req.str][req.target_bpp]
  BY <1>2, <1>4
<1>6. block' = [block EXCEPT ![ent] = b]
  BY <1>2, Zenon DEF StoreKey, FinalArray
<1> HIDE DEF arr
<1>7. /\ b.status = "private" /\ b.hash_arr = arr /\ b.str = req.str
      /\ b.target_bpp = req.target_bpp /\ b.cnt = block[ent].cnt
  BY <1>2 DEF Block
<1> HIDE DEF b
<1>8. SameEntries
  BY <1>2, <1>6, <1>7, FillingStep DEF IInv
<1>9. block'[ent] = b
  BY <1>2, <1>6
<1>10. FillInv'
  BY <1>1, <1>2, <1>4, <1>5, <1>7, <1>9 DEF FillInv, Filling
<1> QED
  BY <1>1, <1>8, <1>10, QuietFilling

LEMMA GrowInv ==
    ASSUME IInv, TypeOK', Grow
    PROVE  IInv'
<1>1. /\ phase = "makeroom" /\ phase' = "insert" /\ req' = req /\ ent' = ent
      /\ block' = block /\ bpp' = bpp /\ current' = current /\ temporary' = temporary
      /\ cache_count' = [cache_count EXCEPT ![req.cache_id] = @ + 1] /\ SameLinks
  BY DEF Grow, Full, SameLinks
<1>2. SameEntries
  BY <1>1 DEF SameEntries
<1>3. /\ EntryInv' /\ ListInv' /\ ChainInv'
      /\ \A i : Members(i)' = Members(i) /\ Linked(i)' = Linked(i)
      /\ \A i : \A x \in Linked(i) : Key(x)' = Key(x)
      /\ \A i \in CacheId : \A x, y \in Linked(i)' : Key(x)' = Key(y)' => x = y
  BY <1>1, <1>2, QuietStep
<1>4. ReqInv' /\ VictimInv' /\ FillInv'
  BY <1>1 DEF IInv, ReqInv, VictimInv, FillInv, Filling, SameLinks
<1>5. UniqueInv'
  BY <1>1, <1>3 DEF IInv, UniqueInv, Filling, ReqKey
<1>6. CountInv'
  <2>1. cache_count \in [CacheId -> 0 .. CACHE_SIZE]
    BY DEF IInv, TypeOK, StaticTypeOK
  <2>2. \A i \in CacheId : IsFiniteSet(Members(i)) /\ cache_count[i] = Cardinality(Members(i)) + 0
    BY <1>1 DEF IInv, CountInv
  <2>3. \A i \in CacheId : Cardinality(Members(i)) \in Nat
    BY <2>2, FS_CardinalityType
  <2>4. \A i \in CacheId :
           cache_count'[i] = Cardinality(Members(i)) + (IF i = req.cache_id THEN 1 ELSE 0)
    BY <2>1, <2>2, <2>3, <1>1
  <2> QED
    BY <2>2, <2>4, <1>1, <1>3 DEF CountInv
<1> QED
  BY <1>3, <1>4, <1>5, <1>6 DEF IInv

(* The key of an entry hashes to a bucket.                                 *)
LEMMA VictimHashed ==
    ASSUME IInv, phase = "unlink"
    PROVE  /\ victim \in Addr /\ victim \in Linked(req.cache_id) /\ req.cache_id \in CacheId
           /\ VictimBucket \in Bucket
           /\ victim \in Chain(req.cache_id, VictimBucket)
<1>1. victim \in Linked(req.cache_id) /\ req.cache_id \in CacheId
  BY DEF IInv, VictimInv, ReqInv
<1>2. victim \in Addr /\ block[victim].str \in Str /\ block[victim].target_bpp \in Precision
  BY <1>1 DEF IInv, EntryInv, Linked
<1>3. VictimBucket \in Bucket
  BY <1>2, BucketAssumption DEF VictimBucket, BucketOf
<1> QED
  BY <1>1, <1>2, <1>3 DEF Chain, VictimBucket

(* The unlinking loop is still in front of its victim, so there is a link. *)
LEMMA LinkedToVictim ==
    ASSUME IInv, phase = "unlink",
           NEW born,
           ChainOf(Chain(req.cache_id, VictimBucket), buckets[req.cache_id][VictimBucket],
                   bucket_next, born),
           Ahead(req.cache_id, VictimBucket, born)
    PROVE  /\ LinkedTo \in Chain(req.cache_id, VictimBucket)
           /\ born[victim] <= born[LinkedTo]
<1>1. victim \in Chain(req.cache_id, VictimBucket)
  BY VictimHashed
<1>2. CASE link = NULL
  BY <1>1, <1>2 DEF LinkedTo, ChainOf
<1>3. CASE link # NULL
  <2>1. link \in Chain(req.cache_id, VictimBucket) /\ born[victim] < born[link]
    BY <1>3 DEF Ahead
  <2>2. bucket_next[link] # NULL /\ born[victim] <= born[bucket_next[link]]
    BY <2>1, <1>1 DEF ChainOf
  <2> QED
    BY <2>1, <2>2, <1>3 DEF LinkedTo, ChainOf
<1> QED
  BY <1>2, <1>3

LEMMA WalkInv ==
    ASSUME IInv, TypeOK', WalkBucket
    PROVE  IInv'
<1>1. /\ phase = "unlink" /\ phase' = "unlink" /\ req' = req /\ ent' = ent
      /\ block' = block /\ bpp' = bpp /\ current' = current /\ temporary' = temporary
      /\ LinkedTo # victim /\ link' = LinkedTo
      /\ cache_count' = cache_count /\ SameLinks
  BY DEF WalkBucket, SameLinks, static
<1>2. SameEntries
  BY <1>1 DEF SameEntries
<1>3. /\ EntryInv' /\ ListInv'
      /\ \A i : Members(i)' = Members(i) /\ Linked(i)' = Linked(i)
      /\ \A i, b : Chain(i, b)' = Chain(i, b)
      /\ \A i : \A x \in Linked(i) : Key(x)' = Key(x)
      /\ \A i \in CacheId : \A x, y \in Linked(i)' : Key(x)' = Key(y)' => x = y
  BY <1>1, <1>2, QuietStep
<1>4. ReqInv' /\ VictimInv' /\ FillInv'
  BY <1>1, <1>3 DEF IInv, ReqInv, VictimInv, FillInv, Filling, SameLinks
<1>5. UniqueInv'
  BY <1>1, <1>3 DEF IInv, UniqueInv, Filling, ReqKey
<1>6. CountInv'
  BY <1>1, <1>3 DEF IInv, CountInv
<1>7. ChainInv'
  <2> SUFFICES ASSUME NEW i \in CacheId, NEW b \in Bucket
               PROVE  \E born : /\ ChainOf(Chain(i, b)', buckets'[i][b], bucket_next', born)
                                /\ Ahead(i, b, born)'
    BY DEF ChainInv
  <2>1. PICK born : /\ ChainOf(Chain(i, b), buckets[i][b], bucket_next, born)
                    /\ Ahead(i, b, born)
    BY DEF IInv, ChainInv
  <2>2. ChainOf(Chain(i, b)', buckets'[i][b], bucket_next', born)
    BY <2>1, <1>1, <1>3 DEF SameLinks
  <2>3. ASSUME i = req.cache_id, b = VictimBucket
        PROVE  LinkedTo \in Chain(i, b) /\ born[victim] < born[LinkedTo]
    <3>1. LinkedTo \in Chain(i, b) /\ born[victim] <= born[LinkedTo]
      BY <2>1, <2>3, <1>1, LinkedToVictim
    <3>2. victim \in Chain(i, b)
      BY <2>3, <1>1, VictimHashed
    <3> QED
      BY <3>1, <3>2, <2>1, <1>1 DEF ChainOf
  <2>4. VictimBucket' = VictimBucket
    BY <1>1 DEF VictimBucket, SameLinks
  <2>5. Ahead(i, b, born)'
    BY <2>3, <2>4, <1>1, <1>3 DEF Ahead, SameLinks
  <2> QED
    BY <2>2, <2>5
<1> QED
  BY <1>3, <1>4, <1>5, <1>6, <1>7 DEF IInv

(* A block is in the caches once.                                          *)
LEMMA LinkedOnce ==
    \A i, j : \A x \in Linked(i) : x \in Linked(j) => i = j
  BY DEF Linked

(* The neighbours of an entry are entries of the same list.                *)
LEMMA ListClosed ==
    ASSUME NEW M, NEW nst, NEW ost, NEW nw, NEW od, NEW used, NEW e \in M,
           ListOf(M, nst, ost, nw, od, used)
    PROVE  /\ nst \in M /\ ost \in M /\ M \subseteq Addr
           /\ nw[e] \in M \cup {NULL} /\ od[e] \in M \cup {NULL}
<1>1. nst \in M /\ ost \in M /\ nw[nst] = NULL /\ od[ost] = NULL /\ M \subseteq Addr
  BY DEF ListOf
<1>2. (e # nst => nw[e] \in M) /\ (e # ost => od[e] \in M)
  BY DEF ListOf
<1> QED
  BY <1>1, <1>2

(* A hit moves the entry it found to the front of its list.                *)
LEMMA HitInv ==
    ASSUME IInv, TypeOK', Hit
    PROVE  IInv'
<1> DEFINE id == req.cache_id
<1>1. /\ phase = "lookup" /\ phase' = "idle" /\ ent # NULL /\ victim' = NULL
      /\ current' = "hash_arr"
      /\ MoveToFront(id, ent)
      /\ UNCHANGED <<block, bucket_next, buckets, cache_count>>
  BY DEF Hit, Return
<1>2. victim = NULL
  BY <1>1 DEF IInv, VictimInv
<1>3. \A i : Linked(i)' = Linked(i) /\ Members(i)' = Members(i) /\ Members(i) = Linked(i)
  BY <1>1, <1>2, AddrAssumption DEF Linked, Members
<1>4. \A i, b : Chain(i, b)' = Chain(i, b)
  BY <1>1, <1>3 DEF Chain
<1>5. id \in CacheId /\ ent \in Members(id)
  <2>1. id \in CacheId /\ req.str \in Str /\ req.target_bpp \in Precision
    BY <1>1, DecodedType DEF IInv, ReqInv
  <2>2. ReqBucket \in Bucket
    BY <2>1, BucketAssumption DEF ReqBucket, BucketOf
  <2>3. PICK born : Ahead(id, ReqBucket, born)
    BY <2>1, <2>2 DEF IInv, ChainInv
  <2>4. ent \in Chain(id, ReqBucket)
    BY <2>3, <1>1 DEF Ahead
  <2> QED
    BY <2>1, <2>4, <1>3 DEF Chain
<1>6. ListInv'
  <2> SUFFICES ASSUME NEW i \in CacheId
               PROVE  \E used : ListOf(Members(i)', newest'[i], oldest'[i], newer', older', used)
    BY DEF ListInv
  <2>1. PICK used : ListOf(Members(i), newest[i], oldest[i], newer, older, used)
    BY DEF IInv, ListInv
  <2>2. CASE ent = newest[id]
    <3>1. UNCHANGED <<newer, older, newest, oldest>>
      BY <2>2, <1>1 DEF MoveToFront, OldestWithout
    <3> QED
      BY <3>1, <2>1, <1>3
  <2>3. CASE ent # newest[id]
    <3>0. newest \in [CacheId -> Pointer] /\ oldest \in [CacheId -> Pointer]
      BY DEF IInv, TypeOK, StaticTypeOK
    <3>1. /\ older' = [a \in Addr |-> IF a = ent THEN newest[id]
                                      ELSE IF a = newer[ent] THEN older[ent] ELSE older[a]]
          /\ newer' = [a \in Addr |-> IF a = ent THEN NULL
                                      ELSE IF a = newest[id] THEN ent
                                      ELSE IF a = older[ent] THEN newer[ent] ELSE newer[a]]
      BY <2>3, <1>1 DEF MoveToFront, OldestWithout
    <3>2. /\ oldest'[id] = IF oldest[id] = ent THEN newer[ent] ELSE oldest[id]
          /\ newest'[id] = ent
          /\ \A j \in CacheId : j # id => oldest'[j] = oldest[j] /\ newest'[j] = newest[j]
      BY <2>3, <3>0, <1>1, <1>5 DEF MoveToFront, OldestWithout
    <3>3. CASE i = id
      <4>1. \E used2 : ListOf(Members(id), ent, oldest'[id], newer', older', used2)
        BY <3>1, <3>2, <3>3, <2>1, <2>3, <1>5, ListMoveToFront
      <4> QED
        BY <4>1, <3>2, <3>3, <1>3
    <3>4. CASE i # id
      <4>1. PICK u : ListOf(Members(id), newest[id], oldest[id], newer, older, u)
        BY <1>5 DEF IInv, ListInv
      <4>2. /\ newest[id] \in Members(id)
            /\ newer[ent] \in Members(id) \cup {NULL}
            /\ older[ent] \in Members(id) \cup {NULL}
        BY <4>1, <1>5, ListClosed
      <4>3. Members(i) \subseteq Addr
        BY <2>1 DEF ListOf
      <4>4. ASSUME NEW x \in Members(i)
            PROVE  x # ent /\ x # newest[id] /\ x # newer[ent] /\ x # older[ent]
        BY <4>2, <4>3, <4>4, <3>4, <1>3, <1>5, LinkedOnce, AddrAssumption
      <4>5. \A x \in Members(i) : newer'[x] = newer[x] /\ older'[x] = older[x]
        BY <4>3, <4>4, <3>1
      <4>6. ListOf(Members(i), newest[i], oldest[i], newer', older', used)
        BY <4>5, <2>1, ListFrame
      <4> QED
        BY <4>6, <3>2, <3>4, <1>3
    <3> QED
      BY <3>3, <3>4
  <2> QED
    BY <2>2, <2>3
<1>7. ReqInv' /\ FillInv' /\ VictimInv'
  BY <1>1 DEF ReqInv, FillInv, VictimInv, Filling
<1>8. EntryInv'
  BY <1>1 DEF IInv, EntryInv
<1>9. UniqueInv'
  BY <1>1, <1>3 DEF IInv, UniqueInv, Filling, Key
<1>10. ChainInv'
  BY <1>1, <1>4 DEF IInv, ChainInv, Ahead
<1>11. CountInv'
  BY <1>1, <1>3 DEF IInv, CountInv
<1> QED
  BY <1>6, <1>7, <1>8, <1>9, <1>10, <1>11 DEF IInv

(* An eviction takes the oldest entry off the list of use.                 *)
LEMMA EvictInv ==
    ASSUME IInv, TypeOK', Evict
    PROVE  IInv'
<1> DEFINE id == req.cache_id
           out == oldest[id]
<1>1. /\ phase = "makeroom" /\ phase' = "unlink" /\ cache_count[id] = CACHE_SIZE
      /\ victim' = out /\ link' = NULL
      /\ UNCHANGED <<block, bucket_next, newer, buckets, cache_count, req, ent, current,
                     temporary, bpp>>
  BY DEF Evict, Full
<1>2. /\ oldest' = [oldest EXCEPT ![id] = newer[out]]
      /\ older' = [a \in Addr |-> IF a = newer[out] THEN NULL ELSE older[a]]
      /\ newest' = [newest EXCEPT ![id] = IF newest[id] = out THEN NULL ELSE newest[id]]
  BY DEF Evict, Full
<1>3. /\ id \in CacheId /\ Members(id) # {} /\ Members(id) = Linked(id)
      /\ out \in Linked(id) /\ out \in Members(id)
  <2>1. /\ id \in CacheId /\ Members(id) # {} /\ Members(id) = Linked(id)
        /\ out \in Linked(id)
    BY <1>1, FullCacheHasOldest DEF IInv
  <2> HIDE DEF id, out
  <2> QED
    BY <2>1
<1>4. victim = NULL
  BY <1>1 DEF IInv, VictimInv
<1> HIDE DEF out
<1>5. /\ \A i : Linked(i)' = Linked(i)
      /\ Members(id)' = Members(id) \ {out}
      /\ \A i : i # id => Members(i)' = Members(i)
  <2>1. \A i : Linked(i)' = Linked(i)
    BY <1>1 DEF Linked
  <2>2. \A i : Members(i)' = Linked(i) \ {out} /\ Members(i) = Linked(i)
    BY <2>1, <1>1, <1>4, AddrAssumption DEF Members, Linked
  <2>3. \A i : i # id => out \notin Linked(i)
    BY <1>3, LinkedOnce
  <2>4. id' = id
    BY <1>1
  <2> HIDE DEF id
  <2>5. \A i : i # id => Members(i)' = Members(i)
    BY <2>2, <2>3
  <2>6. Members(id)' = Members(id) \ {out}
    BY <2>2, <2>4
  <2> QED
    BY <2>1, <2>5, <2>6
<1>6. \A i, b : Chain(i, b)' = Chain(i, b)
  BY <1>1, <1>5 DEF Chain
<1>7. ListInv'
  <2> SUFFICES ASSUME NEW i \in CacheId
               PROVE  \E used : ListOf(Members(i)', newest'[i], oldest'[i], newer', older', used)
    BY DEF ListInv
  <2>0. newest \in [CacheId -> Pointer] /\ oldest \in [CacheId -> Pointer]
    BY DEF IInv, TypeOK, StaticTypeOK
  <2>1. PICK used : ListOf(Members(i), newest[i], oldest[i], newer, older, used)
    BY DEF IInv, ListInv
  <2>2. /\ oldest'[id] = newer[out] /\ newest'[id] = IF newest[id] = out THEN NULL ELSE newest[id]
        /\ \A j \in CacheId : j # id => oldest'[j] = oldest[j] /\ newest'[j] = newest[j]
    BY <2>0, <1>2, <1>3
  <2>3. CASE i = id
    <3>1. ListOf(Members(id) \ {out}, newest'[id], newer[out], newer, older', used)
      BY <2>1, <2>2, <2>3, <1>2, <1>3, ListEvictOldest DEF out
    <3> QED
      BY <3>1, <2>2, <2>3, <1>1, <1>5
  <2>4. CASE i # id
    <3>1. PICK u : ListOf(Members(id), newest[id], oldest[id], newer, older, u)
      BY <1>3 DEF IInv, ListInv
    <3>2. newer[out] \in Members(id) \cup {NULL}
      <4> HIDE DEF id
      <4> QED
        BY <3>1, <1>3, ListClosed
    <3>3. Members(i) \subseteq Addr /\ Members(i) = Linked(i)
      BY <2>1, <1>4, AddrAssumption DEF ListOf, Members, Linked
    <3>4. \A x \in Members(i) : x # newer[out]
      BY <3>2, <3>3, <2>4, <1>3, LinkedOnce, AddrAssumption
    <3>5. \A x \in Members(i) : newer[x] = newer[x] /\ older'[x] = older[x]
      BY <3>3, <3>4, <1>2
    <3>6. ListOf(Members(i), newest[i], oldest[i], newer, older', used)
      BY <3>5, <2>1, ListFrame
    <3> QED
      BY <3>6, <2>2, <2>4, <1>1, <1>5
  <2> QED
    BY <2>3, <2>4
<1>8. ReqInv' /\ EntryInv' /\ FillInv'
  BY <1>1 DEF IInv, ReqInv, EntryInv, FillInv, Filling
<1>9. VictimInv'
  BY <1>1, <1>3, <1>5 DEF VictimInv
<1>10. UniqueInv'
  BY <1>1, <1>5 DEF IInv, UniqueInv, Filling, Key, ReqKey
<1>11. ChainInv'
  BY <1>1, <1>6 DEF IInv, ChainInv, Ahead
<1>12. CountInv'
  <2>1. \A i \in CacheId : IsFiniteSet(Members(i)) /\ cache_count[i] = Cardinality(Members(i)) + 0
    BY <1>1 DEF IInv, CountInv
  <2>2. \A i \in CacheId : Cardinality(Members(i)) \in Nat
    BY <2>1, FS_CardinalityType
  <2>3. /\ IsFiniteSet(Members(id) \ {out})
        /\ Cardinality(Members(id) \ {out}) = Cardinality(Members(id)) - 1
    <3> HIDE DEF id
    <3> QED
      BY <2>1, <1>3, FS_RemoveElement
  <2>4. cache_count[id] = Cardinality(Members(id)') + 1
    BY <2>1, <2>2, <2>3, <1>3, <1>5
  <2> QED
    BY <2>1, <2>2, <2>3, <2>4, <1>1, <1>5 DEF CountInv
<1> QED
  BY <1>7, <1>8, <1>9, <1>10, <1>11, <1>12 DEF IInv

(* The victim leaves its bucket chain and is freed.                        *)
LEMMA FreeInv ==
    ASSUME IInv, TypeOK', FreeVictim
    PROVE  IInv'
<1> DEFINE id == req.cache_id
           vb == VictimBucket
<1>1. /\ phase = "unlink" /\ phase' = "insert" /\ victim' = NULL
      /\ LinkedTo = victim
      /\ block' = [block EXCEPT ![victim] = Blank]
      /\ newer' = [newer EXCEPT ![victim] = NULL]
      /\ older' = [older EXCEPT ![victim] = NULL]
      /\ UNCHANGED <<newest, oldest, cache_count, req, ent, current, temporary, bpp>>
  BY DEF FreeVictim, AfterVictim
<1>2. /\ link = NULL => /\ buckets' = [buckets EXCEPT ![id][vb] = bucket_next[victim]]
                        /\ bucket_next' = [bucket_next EXCEPT ![victim] = NULL]
      /\ link # NULL => /\ bucket_next' = [bucket_next EXCEPT ![link] = bucket_next[victim],
                                                              ![victim] = NULL]
                        /\ buckets' = buckets
  BY DEF FreeVictim, AfterVictim
<1>3. /\ victim \in Addr /\ victim \in Linked(id) /\ id \in CacheId /\ vb \in Bucket
      /\ victim \in Chain(id, vb)
  BY <1>1, VictimHashed
<1>t. /\ block \in [Addr -> Block] /\ bucket_next \in [Addr -> Pointer]
      /\ newer \in [Addr -> Pointer] /\ older \in [Addr -> Pointer]
      /\ buckets \in [CacheId -> [Bucket -> Pointer]]
  BY DEF IInv, TypeOK, StaticTypeOK
<1>4. /\ \A a \in Addr : a # victim => block'[a] = block[a] /\ newer'[a] = newer[a]
                                       /\ older'[a] = older[a]
      /\ block'[victim] = Blank
  BY <1>1, <1>3, <1>t
<1>5. \A i : Linked(i)' = Linked(i) \ {victim}
  BY <1>3, <1>4 DEF Linked, Blank
<1>6. \A i : Members(i)' = Members(i)
  <2>1. \A i : NULL \notin Linked(i)
    BY AddrAssumption DEF Linked
  <2> QED
    BY <2>1, <1>1, <1>5 DEF Members
<1>7. \A i, b : Chain(i, b)' = Chain(i, b) \ {victim}
  BY <1>4, <1>5 DEF Chain, Linked
<1>8. \A i : \A x \in Linked(i)' : x \in Linked(i) /\ Key(x)' = Key(x)
  BY <1>4, <1>5 DEF Linked, Key
<1>9. ListInv'
  <2> SUFFICES ASSUME NEW i \in CacheId
               PROVE  \E used : ListOf(Members(i)', newest'[i], oldest'[i], newer', older', used)
    BY DEF ListInv
  <2>1. PICK used : ListOf(Members(i), newest[i], oldest[i], newer, older, used)
    BY DEF IInv, ListInv
  <2>2. \A x \in Members(i) : x \in Addr /\ x # victim
    BY DEF Members, Linked
  <2>3. \A x \in Members(i) : newer'[x] = newer[x] /\ older'[x] = older[x]
    BY <2>2, <1>4
  <2>4. ListOf(Members(i), newest[i], oldest[i], newer', older', used)
    BY <2>1, <2>3, ListFrame
  <2> QED
    BY <2>4, <1>1, <1>6
<1>10. ChainInv'
  <2> SUFFICES ASSUME NEW i \in CacheId, NEW b \in Bucket
               PROVE  \E born : /\ ChainOf(Chain(i, b)', buckets'[i][b], bucket_next', born)
                                /\ Ahead(i, b, born)'
    BY DEF ChainInv
  <2>1. PICK born : /\ ChainOf(Chain(i, b), buckets[i][b], bucket_next, born)
                    /\ Ahead(i, b, born)
    BY DEF IInv, ChainInv
  <2>2. Ahead(i, b, born)'
    BY <1>1 DEF Ahead
  <2>3. \A x \in Chain(i, b) : x \in Addr
    BY DEF Chain, Linked
  <2>4. CASE i = id /\ b = vb
    <3>1. link # NULL => link \in Chain(i, b) /\ link # victim /\ link \in Addr
      BY <2>1, <2>3, <2>4, <1>1, <1>3 DEF Ahead, ChainOf
    <3>2. CASE link = NULL
      <4>1. buckets[i][b] = victim
        BY <3>2, <2>4, <1>1 DEF LinkedTo
      <4>2. buckets'[i][b] = bucket_next[victim]
        BY <3>2, <2>4, <1>2, <1>t
      <4>3. \A x \in Chain(i, b) \ {victim} : bucket_next'[x] = bucket_next[x]
        BY <3>2, <2>3, <1>2, <1>t
      <4>4. ChainOf(Chain(i, b) \ {victim}, buckets'[i][b], bucket_next', born)
        BY <4>1, <4>2, <4>3, <3>2, <2>1, <2>4, <1>3, ChainUnlink
      <4> QED
        BY <4>4, <2>2, <1>7
    <3>3. CASE link # NULL
      <4>1. bucket_next[link] = victim
        BY <3>3, <1>1 DEF LinkedTo
      <4>2. buckets'[i][b] = buckets[i][b]
        BY <3>3, <1>2
      <4>3. /\ bucket_next'[link] = bucket_next[victim]
            /\ \A x \in Chain(i, b) \ {victim, link} : bucket_next'[x] = bucket_next[x]
        BY <3>1, <3>3, <2>3, <1>2, <1>t
      <4>4. ChainOf(Chain(i, b) \ {victim}, buckets'[i][b], bucket_next', born)
        BY <4>1, <4>2, <4>3, <3>1, <3>3, <2>1, <2>4, <1>3, ChainUnlink
      <4> QED
        BY <4>4, <2>2, <1>7
    <3> QED
      BY <3>2, <3>3
  <2>5. CASE ~(i = id /\ b = vb)
    <3>1. \A x \in Chain(id, vb) : x \notin Chain(i, b)
      BY <2>5, LinkedOnce DEF Chain
    <3>2. link # NULL => link \in Chain(id, vb)
      <4>1. PICK u : Ahead(id, vb, u)
        BY <1>3 DEF IInv, ChainInv
      <4> QED
        BY <4>1, <1>1 DEF Ahead
    <3>3. \A x \in Chain(i, b) : x # victim /\ (link # NULL => x # link)
      BY <3>1, <3>2, <1>3
    <3>4. \A x \in Chain(i, b) : bucket_next'[x] = bucket_next[x]
      BY <3>3, <2>3, <1>2, <1>t
    <3>5. buckets'[i][b] = buckets[i][b]
      BY <2>5, <1>2, <1>3, <1>t
    <3>6. Chain(i, b)' = Chain(i, b)
      BY <3>3, <1>7
    <3>7. ChainOf(Chain(i, b), buckets[i][b], bucket_next', born)
      BY <3>4, <2>1, ChainFrame
    <3> QED
      BY <3>5, <3>6, <3>7, <2>2
  <2> QED
    BY <2>4, <2>5
<1>11. ReqInv' /\ VictimInv'
  BY <1>1 DEF IInv, ReqInv, VictimInv
<1>12. EntryInv'
  BY <1>4 DEF IInv, EntryInv, Blank
<1>13. FillInv'
  <2>1. ent \in Addr /\ block[ent].status = "private"
    BY <1>1 DEF IInv, FillInv, Filling
  <2>2. ent # victim
    BY <2>1, <1>3 DEF Linked
  <2>3. block'[ent] = block[ent]
    BY <2>1, <2>2, <1>4
  <2> QED
    BY <2>3, <1>1 DEF IInv, FillInv, Filling
<1>14. UniqueInv'
  BY <1>1, <1>8 DEF IInv, UniqueInv, Filling, ReqKey
<1>15. CountInv'
  BY <1>1, <1>6 DEF IInv, CountInv
<1> QED
  BY <1>9, <1>10, <1>11, <1>12, <1>13, <1>14, <1>15 DEF IInv

(* The filled block enters the list of use and the chain of its key.       *)
LEMMA InsertInv ==
    ASSUME IInv, TypeOK', Insert
    PROVE  IInv'
<1> DEFINE id == req.cache_id
           rb == ReqBucket
<1>1. /\ phase = "insert" /\ phase' = "idle" /\ victim' = NULL /\ current' = "hash_arr"
      /\ bucket_next' = [bucket_next EXCEPT ![ent] = buckets[id][rb]]
      /\ buckets' = [buckets EXCEPT ![id][rb] = ent]
      /\ older' = [older EXCEPT ![ent] = newest[id]]
      /\ newer' = [a \in Addr |-> IF a = ent THEN NULL
                                  ELSE IF a = newest[id] THEN ent ELSE newer[a]]
      /\ oldest' = [oldest EXCEPT ![id] = IF newest[id] = NULL THEN ent ELSE oldest[id]]
      /\ newest' = [newest EXCEPT ![id] = ent]
      /\ block' = [block EXCEPT ![ent] = [block[ent] EXCEPT !.status = "linked", !.cache = id]]
      /\ cache_count' = cache_count
  BY DEF Insert, Return, ReqBucket
<1>2. /\ id \in CacheId /\ req.str \in Str /\ req.target_bpp \in Precision
      /\ ent \in Addr /\ block[ent].status = "private"
      /\ block[ent].str = req.str /\ block[ent].target_bpp = req.target_bpp
      /\ block[ent].hash_arr = Decoded[req.str][req.target_bpp]
      /\ block[ent].cnt = Len(block[ent].hash_arr)
      /\ victim = NULL
  BY <1>1, DecodedType DEF IInv, ReqInv, FillInv, Filling, VictimInv
<1>3. rb \in Bucket
  BY <1>2, BucketAssumption DEF ReqBucket, BucketOf
<1>t. /\ block \in [Addr -> Block] /\ bucket_next \in [Addr -> Pointer]
      /\ newer \in [Addr -> Pointer] /\ older \in [Addr -> Pointer]
      /\ buckets \in [CacheId -> [Bucket -> Pointer]]
      /\ newest \in [CacheId -> Pointer] /\ oldest \in [CacheId -> Pointer]
  BY DEF IInv, TypeOK, StaticTypeOK
<1>4. /\ \A a \in Addr : a # ent => block'[a] = block[a]
      /\ block'[ent].status = "linked" /\ block'[ent].cache = id
      /\ block'[ent].str = req.str /\ block'[ent].target_bpp = req.target_bpp
      /\ block'[ent].hash_arr = block[ent].hash_arr /\ block'[ent].cnt = block[ent].cnt
  <2>1. block'[ent] = [block[ent] EXCEPT !.status = "linked", !.cache = id]
    BY <1>1, <1>2, <1>t
  <2>2. /\ block'[ent].status = "linked" /\ block'[ent].cache = id
        /\ block'[ent].str = block[ent].str /\ block'[ent].target_bpp = block[ent].target_bpp
        /\ block'[ent].hash_arr = block[ent].hash_arr /\ block'[ent].cnt = block[ent].cnt
    BY <2>1, <1>2, <1>t DEF Block
  <2>3. \A a \in Addr : a # ent => block'[a] = block[a]
    BY <1>1, <1>t
  <2> QED
    BY <2>2, <2>3, <1>2
<1> HIDE DEF rb
<1>5. /\ \A i : ent \notin Linked(i)
      /\ \A i : Linked(i)' = IF i = id THEN Linked(i) \cup {ent} ELSE Linked(i)
  BY <1>2, <1>4 DEF Linked
<1>6. /\ \A i : Members(i) = Linked(i)
      /\ \A i : Members(i)' = Linked(i)'
  <2>1. \A i : NULL \notin Linked(i) /\ NULL \notin Linked(i)'
    BY AddrAssumption DEF Linked
  <2> QED
    BY <2>1, <1>1, <1>2 DEF Members
<1>7. \A i, b : Chain(i, b)' = IF i = id /\ b = rb THEN Chain(i, b) \cup {ent} ELSE Chain(i, b)
  <2>1. BucketOf(block'[ent].str, block'[ent].target_bpp) = rb
    BY <1>4 DEF rb, ReqBucket
  <2>2. \A i : \A x \in Linked(i) : x # ent /\ block'[x] = block[x]
    BY <1>4, <1>5 DEF Linked
  <2> QED
    BY <2>1, <2>2, <1>5 DEF Chain
<1>8. ListInv'
  <2> SUFFICES ASSUME NEW i \in CacheId
               PROVE  \E used : ListOf(Members(i)', newest'[i], oldest'[i], newer', older', used)
    BY DEF ListInv
  <2>1. PICK used : ListOf(Members(i), newest[i], oldest[i], newer, older, used)
    BY DEF IInv, ListInv
  <2>2. older' = [a \in Addr |-> IF a = ent THEN newest[id] ELSE older[a]]
    BY <1>1, <1>2, <1>t
  <2>3. /\ oldest'[id] = IF newest[id] = NULL THEN ent ELSE oldest[id]
        /\ newest'[id] = ent
        /\ \A j \in CacheId : j # id => oldest'[j] = oldest[j] /\ newest'[j] = newest[j]
    BY <1>1, <1>2, <1>t
  <2>4. CASE i = id
    <3> DEFINE M == Members(i)
    <3>1. ent \in Addr /\ ent \notin M
      BY <1>2, <1>5, <1>6
    <3>2. /\ \A a \in Addr : older'[a] = IF a = ent THEN newest[i] ELSE older[a]
          /\ \A a \in Addr : newer'[a] = IF a = ent THEN NULL
                                         ELSE IF a = newest[i] THEN ent ELSE newer[a]
          /\ oldest'[i] = IF newest[i] = NULL THEN ent ELSE oldest[i]
      BY <2>2, <2>3, <2>4, <1>1
    <3>3. ListOf(M, newest[i], oldest[i], newer, older, used)
      BY <2>1
    <3> DEFINE M2 == M \cup {ent}
    <3>m. M2 = M \cup {ent}
      OBVIOUS
    <3> HIDE DEF M, M2
    <3>4. \E used2 : ListOf(M2, ent, oldest'[i], newer', older', used2)
      BY <3>m, <3>1, <3>2, <3>3, ListInsertNewest
    <3> QED
      BY <3>4, <2>3, <2>4, <1>5, <1>6 DEF M, M2
  <2>5. CASE i # id
    <3>1. PICK u : ListOf(Members(id), newest[id], oldest[id], newer, older, u)
      BY <1>2 DEF IInv, ListInv
    <3>2. newest[id] \in Members(id) \cup {NULL}
      BY <3>1 DEF ListOf
    <3>3. \A x \in Members(i) : x \in Addr /\ x # ent
      BY <1>5, <1>6 DEF Linked
    <3>4. \A x \in Members(i) : x # newest[id]
      BY <3>2, <3>3, <2>5, <1>6, LinkedOnce, AddrAssumption
    <3>5. \A x \in Members(i) : newer'[x] = newer[x] /\ older'[x] = older[x]
      BY <3>3, <3>4, <2>2, <1>1
    <3>6. ListOf(Members(i), newest[i], oldest[i], newer', older', used)
      BY <3>5, <2>1, ListFrame
    <3> QED
      BY <3>6, <2>3, <2>5, <1>5, <1>6
  <2> QED
    BY <2>4, <2>5
<1>9. ChainInv'
  <2> SUFFICES ASSUME NEW i \in CacheId, NEW b \in Bucket
               PROVE  \E born : /\ ChainOf(Chain(i, b)', buckets'[i][b], bucket_next', born)
                                /\ Ahead(i, b, born)'
    BY DEF ChainInv
  <2>1. PICK born : ChainOf(Chain(i, b), buckets[i][b], bucket_next, born)
    BY DEF IInv, ChainInv
  <2>2. \A u : Ahead(i, b, u)'
    BY <1>1 DEF Ahead
  <2>3. \A x \in Chain(i, b) : x \in Addr /\ x # ent
    BY <1>5 DEF Chain, Linked
  <2>4. \A x \in Chain(i, b) : bucket_next'[x] = bucket_next[x]
    BY <2>3, <1>1, <1>t
  <2>5. CASE i = id /\ b = rb
    <3>1. buckets'[i][b] = ent /\ bucket_next'[ent] = buckets[i][b]
      BY <2>5, <1>1, <1>2, <1>t DEF rb
    <3>2. ent \in Addr \ Chain(i, b)
      BY <2>3, <1>2
    <3>3. \E born2 : ChainOf(Chain(i, b) \cup {ent}, ent, bucket_next', born2)
      BY <3>1, <3>2, <2>1, <2>4, ChainPush
    <3> QED
      BY <3>1, <3>3, <2>2, <2>5, <1>7
  <2>6. CASE ~(i = id /\ b = rb)
    <3>1. buckets'[i][b] = buckets[i][b]
      BY <2>6, <1>1, <1>2, <1>3, <1>t DEF rb
    <3>2. ChainOf(Chain(i, b), buckets[i][b], bucket_next', born)
      BY <2>1, <2>4, ChainFrame
    <3>3. Chain(i, b)' = Chain(i, b)
      BY <2>6, <1>7
    <3> QED
      BY <3>1, <3>2, <3>3, <2>2
  <2> QED
    BY <2>5, <2>6
<1>10. ReqInv' /\ VictimInv' /\ FillInv'
  BY <1>1 DEF ReqInv, VictimInv, FillInv, Filling
<1>11. EntryInv'
  BY <1>2, <1>4 DEF IInv, EntryInv
<1>12. UniqueInv'
  <2>1. \A i : \A x \in Linked(i) : Key(x)' = Key(x)
    BY <1>4, <1>5 DEF Linked, Key
  <2>2. \A x : x = ent => Key(x)' = ReqKey
    BY <1>4 DEF Key, ReqKey
  <2>3. \A x \in Linked(id) : Key(x) # ReqKey
    BY <1>1, <1>2 DEF IInv, UniqueInv, Filling
  <2>4. ASSUME NEW i \in CacheId, NEW x \in Linked(i)', NEW y \in Linked(i)', Key(x)' = Key(y)'
        PROVE  x = y
    <3>1. CASE x \in Linked(i) /\ y \in Linked(i)
      BY <3>1, <2>1, <2>4 DEF IInv, UniqueInv
    <3>2. CASE i = id /\ (x = ent \/ y = ent)
      BY <3>2, <2>1, <2>2, <2>3, <2>4, <1>5
    <3> QED
      BY <3>1, <3>2, <1>5
  <2> QED
    BY <2>4, <1>1 DEF UniqueInv, Filling
<1>13. CountInv'
  <2> SUFFICES ASSUME NEW i \in CacheId
               PROVE  IsFiniteSet(Members(i)') /\ cache_count[i] = Cardinality(Members(i)') + 0
    BY <1>1 DEF CountInv
  <2>1. /\ IsFiniteSet(Members(i))
        /\ cache_count[i] = Cardinality(Members(i)) + (IF i = id THEN 1 ELSE 0)
    BY <1>1 DEF IInv, CountInv
  <2>2. Cardinality(Members(i)) \in Nat
    BY <2>1, FS_CardinalityType
  <2>3. CASE i = id
    <3>1. Members(i)' = Members(i) \cup {ent} /\ ent \notin Members(i)
      BY <2>3, <1>5, <1>6
    <3>2. /\ IsFiniteSet(Members(i) \cup {ent})
          /\ Cardinality(Members(i) \cup {ent}) = Cardinality(Members(i)) + 1
      BY <3>1, <2>1, FS_AddElement
    <3> QED
      BY <3>1, <3>2, <2>1, <2>2, <2>3
  <2>4. CASE i # id
    <3>1. Members(i)' = Members(i)
      BY <2>4, <1>5, <1>6
    <3> QED
      BY <3>1, <2>1, <2>2, <2>4
  <2> QED
    BY <2>3, <2>4
<1> QED
  BY <1>8, <1>9, <1>10, <1>11, <1>12, <1>13 DEF IInv

-----------------------------------------------------------------------------
(* Every step keeps the invariant.                                         *)
LEMMA NextInv == IInv /\ [Next]_cvars => IInv'
<1> SUFFICES ASSUME IInv, [Next]_cvars PROVE IInv'
  OBVIOUS
<1>t. TypeOK'
  BY TypeNext
<1>1. CASE CallAny
  <2>1. PICK s \in Str, id \in CacheId :
           set_meta_init(s) /\ \E target \in SET_BPP_MIN .. s.bpp : cache_decode_set(s, target, id)
    BY <1>1 DEF CallAny
  <2>2. PICK target \in SET_BPP_MIN .. s.bpp : cache_decode_set(s, target, id)
    BY <2>1
  <2> QED
    BY <2>1, <2>2, <1>t, CallInv
<1>2. CASE CacheStep
  <2>1. CASE ProbeNext \/ Hit
    BY <2>1, <1>t, ProbeInv, HitInv
  <2>2. CASE RejectCapacity \/ Allocate
    BY <2>2, <1>t, RejectCapacityInv, AllocateInv
  <2>3. CASE DecodeFails \/ DecodeSucceeds
    BY <2>3, <1>t, DecodeFailsInv, DecodeSucceedsInv
  <2>4. CASE DownsampleOnce \/ StoreKey
    BY <2>4, <1>t, DownsampleInv, StoreKeyInv
  <2>5. CASE Grow \/ Evict
    BY <2>5, <1>t, GrowInv, EvictInv
  <2>6. CASE WalkBucket \/ FreeVictim
    BY <2>6, <1>t, WalkInv, FreeInv
  <2>7. CASE Insert
    BY <2>7, <1>t, InsertInv
  <2> QED
    BY <2>1, <2>2, <2>3, <2>4, <2>5, <2>6, <2>7, <1>2 DEF CacheStep
<1>3. CASE UNCHANGED cvars
  <2>1. /\ phase' = phase /\ req' = req /\ ent' = ent /\ current' = current /\ bpp' = bpp
        /\ temporary' = temporary /\ victim' = victim /\ link' = link /\ block' = block
        /\ bucket_next' = bucket_next /\ newer' = newer /\ older' = older
        /\ buckets' = buckets /\ newest' = newest /\ oldest' = oldest
        /\ cache_count' = cache_count
    BY <1>3 DEF cvars, static, locals
  <2>2. /\ \A i : Linked(i)' = Linked(i) /\ Members(i)' = Members(i)
        /\ \A i, b : Chain(i, b)' = Chain(i, b)
        /\ \A x : Key(x)' = Key(x)
        /\ VictimBucket' = VictimBucket
    BY <2>1 DEF Linked, Members, Chain, Key, VictimBucket
  <2>3. ReqInv' /\ EntryInv' /\ FillInv' /\ VictimInv'
    BY <2>1, <2>2 DEF IInv, ReqInv, EntryInv, FillInv, VictimInv
  <2>4. UniqueInv' /\ ListInv' /\ CountInv'
    BY <2>1, <2>2 DEF IInv, UniqueInv, ListInv, CountInv, ReqKey
  <2>5. ChainInv'
    BY <2>1, <2>2 DEF IInv, ChainInv, Ahead, ReqKey, ReqBucket
  <2> QED
    BY <2>3, <2>4, <2>5, <1>t DEF IInv
<1> QED
  BY <1>1, <1>2, <1>3 DEF Next

LEMMA Invariance == Spec => []IInv
<1>1. Init => IInv
  BY InitInv
<1>2. IInv /\ [Next]_cvars => IInv'
  BY NextInv
<1> QED
  BY <1>1, <1>2, PTL DEF Spec

(* The state is always one the declarations of set9.c allow; in particular *)
(* no cache ever counts more than CACHE_SIZE entries.                      *)
THEOREM TypeCorrect == Spec => []TypeOK
<1>1. IInv => TypeOK
  BY DEF IInv
<1> QED
  BY <1>1, Invariance, PTL

(* Whatever is asked in whatever order, every entry of a cache holds the   *)
(* array of exactly the key it is filed under.                             *)
THEOREM EntriesSound == Spec => []CacheSound
<1>1. IInv => CacheSound
  BY DEF IInv, EntryInv, CacheSound
<1> QED
  BY <1>1, Invariance, PTL

(* The unlinking loop of an eviction always has a block to look at: the    *)
(* evicted entry is still ahead of it in the chain.                        *)
THEOREM UnlinkingSafe == Spec => []UnlinkFindsVictim
<1>1. IInv => UnlinkFindsVictim
  <2> SUFFICES ASSUME IInv, phase = "unlink" PROVE LinkedTo # NULL
    BY DEF UnlinkFindsVictim
  <2>1. req.cache_id \in CacheId /\ VictimBucket \in Bucket
    BY VictimHashed
  <2>2. PICK born : /\ ChainOf(Chain(req.cache_id, VictimBucket),
                               buckets[req.cache_id][VictimBucket], bucket_next, born)
                    /\ Ahead(req.cache_id, VictimBucket, born)
    BY <2>1 DEF IInv, ChainInv
  <2>3. LinkedTo \in Chain(req.cache_id, VictimBucket)
    BY <2>2, LinkedToVictim
  <2> QED
    BY <2>3, AddrAssumption DEF Chain, Linked
<1> QED
  BY <1>1, Invariance, PTL

(* A call that succeeds returns what was asked for.                        *)
LEMMA ReturnsAnswer == IInv /\ [Next]_cvars => [Answered]_cvars
<1> SUFFICES ASSUME IInv, Next, phase # "idle", phase' = "idle", ret'.cnt >= 0
             PROVE  /\ ret'.hash_pt \in Addr
                    /\ block'[ret'.hash_pt].status = "linked"
                    /\ block'[ret'.hash_pt].cache = req.cache_id
                    /\ block'[ret'.hash_pt].hash_arr = Decoded[req.str][req.target_bpp]
                    /\ ret'.cnt = Len(Decoded[req.str][req.target_bpp])
  BY DEF Answered
<1>t. block \in [Addr -> Block]
  BY DEF IInv, TypeOK, StaticTypeOK
<1>1. CASE Hit
  <2>1. /\ phase = "lookup" /\ ent # NULL /\ KeyMatches(ent) /\ block' = block
        /\ ret' = [cnt |-> block[ent].cnt, hash_pt |-> ent]
    BY <1>1 DEF Hit, Return
  <2>2. req.cache_id \in CacheId /\ req.str \in Str /\ req.target_bpp \in Precision
    BY <2>1, DecodedType DEF IInv, ReqInv
  <2>3. ReqBucket \in Bucket
    BY <2>2, BucketAssumption DEF ReqBucket, BucketOf
  <2>4. PICK born : Ahead(req.cache_id, ReqBucket, born)
    BY <2>2, <2>3 DEF IInv, ChainInv
  <2>5. ent \in Linked(req.cache_id)
    BY <2>4, <2>1 DEF Ahead, Chain
  <2>6. /\ ent \in Addr /\ block[ent].status = "linked" /\ block[ent].cache = req.cache_id
        /\ block[ent].hash_arr = Decoded[req.str][req.target_bpp]
        /\ block[ent].cnt = Len(block[ent].hash_arr)
    BY <2>1, <2>5 DEF IInv, EntryInv, Linked, KeyMatches
  <2>7. ret'.cnt = block[ent].cnt /\ ret'.hash_pt = ent
    BY <2>1
  <2> QED
    BY <2>1, <2>6, <2>7
<1>2. CASE Insert
  <2>1. /\ phase = "insert" /\ ret' = [cnt |-> block[ent].cnt, hash_pt |-> ent]
        /\ block' = [block EXCEPT ![ent] = [block[ent] EXCEPT !.status = "linked",
                                                              !.cache = req.cache_id]]
    BY <1>2, <1>t DEF Insert, ReqBucket, Return
  <2>2. /\ ent \in Addr /\ block[ent].hash_arr = Decoded[req.str][req.target_bpp]
        /\ block[ent].cnt = Len(block[ent].hash_arr)
    BY <2>1 DEF IInv, FillInv, Filling
  <2>3. block'[ent] = [block[ent] EXCEPT !.status = "linked", !.cache = req.cache_id]
    BY <2>1, <2>2, <1>t
  <2>4. /\ block'[ent].status = "linked" /\ block'[ent].cache = req.cache_id
        /\ block'[ent].hash_arr = block[ent].hash_arr
    BY <2>2, <2>3, <1>t DEF Block
  <2>5. ret'.cnt = block[ent].cnt /\ ret'.hash_pt = ent
    BY <2>1
  <2> QED
    BY <2>2, <2>4, <2>5
<1>3. CASE RejectCapacity \/ DecodeFails
  <2>1. ret' = [cnt |-> -1, hash_pt |-> NULL]
    BY <1>3 DEF RejectCapacity, DecodeFails, Return
  <2> QED
    BY <2>1
<1>4. ~CallAny
  BY DEF CallAny, cache_decode_set
<1>5. ~(ProbeNext \/ Allocate \/ DecodeSucceeds \/ DownsampleOnce)
  BY DEF ProbeNext, Allocate, DecodeSucceeds, DownsampleOnce
<1>6. ~(StoreKey \/ Grow \/ Evict \/ WalkBucket \/ FreeVictim)
  BY DEF StoreKey, FinalArray, Grow, Full, Evict, WalkBucket, FreeVictim, AfterVictim
<1> QED
  BY <1>1, <1>2, <1>3, <1>4, <1>5, <1>6 DEF Next, CacheStep

(* A call that succeeds returns the array it was asked for, in a block of  *)
(* the cache it was asked of.                                              *)
THEOREM CallsReturnRequested == Spec => ReturnsRequested
  BY ReturnsAnswer, Invariance, PTL DEF Spec, ReturnsRequested

-----------------------------------------------------------------------------
(* Which calls succeed: those whose string has a value to decode.          *)

Yields(s) == value_capacity(s) >= 1 /\ s.values # <<>>

LEMMA CapacityNat ==
    ASSUME NEW s \in Str, set_meta_init(s)
    PROVE  value_capacity(s) \in Nat
<1> DEFINE n == s.len * BASE62_VALUE_BITS
           d == s.Mshift + 1
<1>1. n \in Nat /\ d \in Nat \ {0}
  BY StrAssumption DEF set_meta_init, SET_MSHIFT_MIN, SET_MSHIFT_MAX, BASE62_VALUE_BITS
<1> HIDE DEF n, d
<1>2. n \div d \in Nat
  BY <1>1, Division
<1> QED
  BY <1>2 DEF n, d, value_capacity

(* Nothing is filed under, or filled for, a string without values.         *)
YieldInv ==
    /\ \A a \in Addr : block[a].status = "linked" => Yields(block[a].str)
    /\ phase = "decode" => value_capacity(req.str) >= 1
    /\ phase \in {"downsample", "makeroom", "unlink", "insert"} => Yields(req.str)

(* What a lookup looks at is an entry of the cache it looks in.            *)
LEMMA FoundEntry ==
    ASSUME IInv, phase = "lookup", ent # NULL
    PROVE  ent \in Linked(req.cache_id) /\ ent \in Addr /\ block[ent].status = "linked"
<1>1. req.cache_id \in CacheId /\ req.str \in Str /\ req.target_bpp \in Precision
  BY DecodedType DEF IInv, ReqInv
<1>2. ReqBucket \in Bucket
  BY <1>1, BucketAssumption DEF ReqBucket, BucketOf
<1>3. PICK born : Ahead(req.cache_id, ReqBucket, born)
  BY <1>1, <1>2 DEF IInv, ChainInv
<1> QED
  BY <1>3 DEF Ahead, Chain, Linked

LEMMA YieldNext == IInv /\ YieldInv /\ [Next]_cvars => YieldInv'
<1> SUFFICES ASSUME IInv, YieldInv, [Next]_cvars PROVE YieldInv'
  OBVIOUS
<1>t. block \in [Addr -> Block]
  BY DEF IInv, TypeOK, StaticTypeOK
<1> DEFINE Kept == \A a \in Addr : block'[a].status = "linked" =>
                        block[a].status = "linked" /\ block'[a].str = block[a].str
<1>1. ASSUME NEW v, v.status # "linked", block' = [block EXCEPT ![ent] = v] PROVE Kept
  BY <1>1, <1>t
<1>2. ASSUME Kept PROVE \A a \in Addr : block'[a].status = "linked" => Yields(block'[a].str)
  BY <1>2 DEF YieldInv
<1>3. phase \in Filling => ent \in Addr /\ block[ent].status = "private" /\ block[ent] \in Block
  BY <1>t DEF IInv, FillInv
<1> HIDE DEF Kept
<1>4. CASE CallAny
  <2>1. block' = block /\ phase' = "lookup"
    BY <1>4 DEF CallAny, cache_decode_set, static
  <2> QED
    BY <2>1 DEF YieldInv
<1>5. CASE ProbeNext \/ Hit \/ RejectCapacity \/ Grow \/ Evict \/ WalkBucket \/ UNCHANGED cvars
  <2>1. /\ block' = block
        /\ phase' \in {"idle", "lookup"} \/ (phase' = phase /\ req' = req)
           \/ (phase = "makeroom" /\ phase' \in {"insert", "unlink"} /\ req' = req)
    BY <1>5 DEF ProbeNext, Hit, RejectCapacity, Grow, Evict, WalkBucket, static, cvars, locals, Return
  <2> QED
    BY <2>1 DEF YieldInv
<1>6. CASE Allocate
  <2>1. PICK a \in Addr : /\ block[a].status = "free"
                          /\ block' = [block EXCEPT ![a] = [block[a] EXCEPT !.status = "private"]]
    BY <1>6, <1>t DEF Allocate
  <2>2. [block[a] EXCEPT !.status = "private"].status # "linked"
    BY <1>t DEF Block
  <2>3. Kept
    BY <2>1, <2>2, <1>t DEF Kept
  <2>4. phase' = "decode" /\ req' = req /\ value_capacity(req.str) >= 1
    BY <1>6 DEF Allocate
  <2> QED
    BY <2>3, <2>4, <1>2 DEF YieldInv
<1>7. CASE DecodeFails
  <2>1. block' = [block EXCEPT ![ent] = Blank] /\ phase' = "idle"
    BY <1>7 DEF DecodeFails, Return
  <2> QED
    BY <2>1, <1>1, <1>2 DEF YieldInv, Blank
<1>8. CASE DecodeSucceeds
  <2>1. /\ phase = "decode" /\ phase' = "downsample" /\ req' = req /\ req.str.values # <<>>
        /\ block' = [block EXCEPT ![ent] = [block[ent] EXCEPT !.hash_arr = req.str.values,
                                                              !.cnt = Len(req.str.values)]]
    BY <1>8, <1>t DEF DecodeSucceeds
  <2>2. [block[ent] EXCEPT !.hash_arr = req.str.values, !.cnt = Len(req.str.values)].status # "linked"
    BY <2>1, <1>3 DEF Block, Filling
  <2>3. Kept
    BY <2>1, <2>2, <1>1
  <2> QED
    BY <2>1, <2>3, <1>2 DEF YieldInv, Yields
<1>9. CASE DownsampleOnce \/ StoreKey
  <2>1. /\ phase = "downsample" /\ phase' \in {"downsample", "makeroom"} /\ req' = req
        /\ \E arr, n, s, t : block' = [block EXCEPT ![ent] = [block[ent] EXCEPT !.hash_arr = arr,
                                 !.cnt = n, !.str = s, !.target_bpp = t]]
    <3>1. block[ent] \in Block /\ phase = "downsample"
      BY <1>3, <1>9 DEF DownsampleOnce, StoreKey, Filling
    <3>2. CASE DownsampleOnce
      <4>1. phase' = phase /\ req' = req
        BY <3>2 DEF DownsampleOnce
      <4>2. PICK arr, n : block' = [block EXCEPT ![ent] = [block[ent] EXCEPT !.hash_arr = arr, !.cnt = n]]
        <5>1. CASE current = "hash_arr"
          <6>1. PICK n : block' = [block EXCEPT ![ent] = [block[ent] EXCEPT !.cnt = n]]
            BY <3>2, <5>1, <1>t DEF DownsampleOnce
          <6>2. [block[ent] EXCEPT !.cnt = n] =
                   [block[ent] EXCEPT !.hash_arr = block[ent].hash_arr, !.cnt = n]
            BY <3>1 DEF Block
          <6> QED
            BY <6>1, <6>2, Zenon
        <5>2. CASE current # "hash_arr"
          BY <3>2, <5>2, <1>t DEF DownsampleOnce
        <5> QED
          BY <5>1, <5>2
      <4>3. [block[ent] EXCEPT !.hash_arr = arr, !.cnt = n] =
              [block[ent] EXCEPT !.hash_arr = arr, !.cnt = n, !.str = block[ent].str,
                                 !.target_bpp = block[ent].target_bpp]
        BY <3>1 DEF Block
      <4>4. block' = [block EXCEPT ![ent] =
                 [block[ent] EXCEPT !.hash_arr = arr, !.cnt = n, !.str = block[ent].str,
                                    !.target_bpp = block[ent].target_bpp]]
        BY <4>2, <4>3
      <4> QED
        BY <3>1, <4>1, <4>4
    <3>3. CASE StoreKey
      <4>1. PICK arr : block' = [block EXCEPT ![ent] = [block[ent] EXCEPT !.hash_arr = arr,
                            !.str = req.str, !.target_bpp = req.target_bpp]]
        BY <3>3, <1>t DEF StoreKey
      <4>2. [block[ent] EXCEPT !.hash_arr = arr, !.str = req.str, !.target_bpp = req.target_bpp] =
              [block[ent] EXCEPT !.hash_arr = arr, !.cnt = block[ent].cnt, !.str = req.str,
                                 !.target_bpp = req.target_bpp]
        BY <3>1 DEF Block
      <4>3. phase' = "makeroom" /\ req' = req
        BY <3>3 DEF StoreKey
      <4> QED
        BY <3>1, <4>1, <4>2, <4>3, Zenon
    <3> QED
      BY <3>2, <3>3, <1>9
  <2>2. PICK arr, n, s, t :
           block' = [block EXCEPT ![ent] = [block[ent] EXCEPT !.hash_arr = arr, !.cnt = n,
                                                              !.str = s, !.target_bpp = t]]
    BY <2>1
  <2>3. [block[ent] EXCEPT !.hash_arr = arr, !.cnt = n, !.str = s, !.target_bpp = t].status # "linked"
    BY <2>1, <1>3 DEF Block, Filling
  <2>4. Kept
    BY <2>2, <2>3, <1>1
  <2> QED
    BY <2>1, <2>4, <1>2 DEF YieldInv
<1>10. CASE FreeVictim
  <2>1. phase = "unlink" /\ phase' = "insert" /\ req' = req /\ block' = [block EXCEPT ![victim] = Blank]
    BY <1>10 DEF FreeVictim, AfterVictim
  <2>2. Kept
    BY <2>1, <1>t DEF Kept, Blank
  <2> QED
    BY <2>1, <2>2, <1>2 DEF YieldInv
<1>11. CASE Insert
  <2>1. /\ phase = "insert" /\ phase' = "idle"
        /\ block' = [block EXCEPT ![ent] = [block[ent] EXCEPT !.status = "linked",
                                                              !.cache = req.cache_id]]
    BY <1>11, <1>t DEF Insert, Return
  <2>2. ent \in Addr /\ block[ent].str = req.str /\ block[ent] \in Block
    BY <2>1, <1>3 DEF IInv, FillInv, Filling
  <2>3. block'[ent].str = req.str /\ \A a \in Addr : a # ent => block'[a] = block[a]
    BY <2>1, <2>2, <1>t DEF Block
  <2> QED
    BY <2>1, <2>3 DEF YieldInv
<1> QED
  BY <1>4, <1>5, <1>6, <1>7, <1>8, <1>9, <1>10, <1>11 DEF Next, CacheStep

(* A call succeeds exactly for those strings.                              *)
LEMMA SucceedsIfYields ==
    ASSUME IInv, YieldInv, CacheStep, phase' = "idle"
    PROVE  ret'.cnt >= 0 <=> Yields(req.str)
<1>1. CASE Hit
  <2>1. ent \in Addr /\ block[ent].status = "linked" /\ KeyMatches(ent) /\ ret'.cnt = block[ent].cnt
    BY <1>1, FoundEntry DEF Hit, Return
  <2>2. block[ent].cnt >= 0
    BY <2>1 DEF IInv, TypeOK, StaticTypeOK, Block
  <2>3. Yields(req.str)
    BY <2>1 DEF YieldInv, KeyMatches
  <2> QED
    BY <2>1, <2>2, <2>3
<1>2. CASE Insert
  <2>1. ret'.cnt = block[ent].cnt /\ phase = "insert"
    BY <1>2 DEF Insert, Return
  <2>2. ent \in Addr
    BY <2>1 DEF IInv, FillInv, Filling
  <2>3. block[ent].cnt >= 0
    BY <2>2 DEF IInv, TypeOK, StaticTypeOK, Block
  <2> QED
    BY <2>1, <2>3 DEF YieldInv
<1>3. CASE RejectCapacity \/ DecodeFails
  <2>1. ret'.cnt = -1
    BY <1>3 DEF RejectCapacity, DecodeFails, Return
  <2>2. value_capacity(req.str) < 1 \/ req.str.values = <<>>
    BY <1>3 DEF RejectCapacity, DecodeFails
  <2>3. value_capacity(req.str) < 1 => ~(value_capacity(req.str) >= 1)
    <3>1. req.str \in Str /\ set_meta_init(req.str)
      BY <1>3 DEF RejectCapacity, DecodeFails, IInv, ReqInv
    <3>2. value_capacity(req.str) \in Nat
      BY <3>1, CapacityNat
    <3> QED
      BY <3>2
  <2> QED
    BY <2>1, <2>2, <2>3 DEF Yields
<1>5. ~(ProbeNext \/ Allocate \/ DecodeSucceeds \/ DownsampleOnce)
  BY DEF ProbeNext, Allocate, DecodeSucceeds, DownsampleOnce, IInv
<1>6. ~(StoreKey \/ Grow \/ Evict \/ WalkBucket \/ FreeVictim)
  BY DEF StoreKey, Grow, Evict, WalkBucket, FreeVictim, AfterVictim
<1> QED
  BY <1>1, <1>2, <1>3, <1>5, <1>6 DEF CacheStep

-----------------------------------------------------------------------------
(* Reading a structure by following its links.                             *)

(* q is the members of C in the order in which next links them from first. *)
Threads(q, C, first, next) ==
    /\ q \in Seq(C)
    /\ \A i, j \in 1 .. Len(q) : q[i] = q[j] => i = j
    /\ \A x \in C : \E i \in 1 .. Len(q) : q[i] = x
    /\ IF Len(q) = 0 THEN first = NULL ELSE first = q[1] /\ next[q[Len(q)]] = NULL
    /\ \A i \in 1 .. Len(q) - 1 : next[q[i]] = q[i + 1]

LEMMA ThreadedCount ==
    ASSUME NEW C, NEW q, NEW first, NEW next, Threads(q, C, first, next)
    PROVE  IsFiniteSet(C) /\ Cardinality(C) = Len(q)
<1> DEFINE n == Len(q)
<1>1. n \in Nat /\ DOMAIN q = 1 .. n /\ q \in [1 .. n -> C]
  BY DEF Threads
<1>2. q \in Bijection(1 .. n, C)
  BY <1>1 DEF Threads, Bijection, Injection, Surjection, IsInjective
<1>3. ExistsBijection(1 .. n, C)
  BY <1>2 DEF ExistsBijection
<1> QED
  BY <1>1, <1>3, FS_NatBijection, FS_CountingElements

(* Trail meets the blocks of a structure in that order.                    *)
LEMMA TrailThreads ==
    ASSUME NEW C, C \subseteq Addr, NEW q, NEW first, NEW next, Threads(q, C, first, next)
    PROVE  Trail(first, next) = q
<1> DEFINE n == Len(q)
           follow == [a \in Pointer |-> IF a = NULL THEN NULL ELSE next[a]]
           nth(k) == Iterate(follow, first, k)
           at(k) == IF k < n THEN q[k + 1] ELSE NULL
           S == {k \in Nat : nth(k) = at(k)}
           card == Cardinality(Addr)
           met == {k \in 0 .. card : nth(k) # NULL}
<1>1. n \in Nat /\ \A i \in 1 .. n : q[i] \in Addr /\ q[i] # NULL
  BY AddrAssumption DEF Threads
<1>2. /\ nth(0) = first
      /\ \A k \in Nat : nth(k + 1) = follow[nth(k)]
  <2> HIDE DEF follow
  <2> QED
    BY IterateFacts, Zenon
<1>3. \A a \in Addr : follow[a] = next[a]
  BY AddrAssumption DEF Pointer
<1>4. follow[NULL] = NULL
  BY DEF Pointer
<1>5. /\ IF n = 0 THEN first = NULL ELSE first = q[1] /\ next[q[n]] = NULL
      /\ \A i \in 1 .. n - 1 : next[q[i]] = q[i + 1]
  BY DEF Threads
<1> HIDE DEF follow, nth, n
<1>6. 0 \in S
  BY <1>1, <1>2, <1>5
<1>7. ASSUME NEW k \in Nat, k \in S PROVE k + 1 \in S
  <2>1. nth(k + 1) = follow[at(k)]
    BY <1>2, <1>7
  <2>2. CASE k + 1 < n
    <3>1. k < n /\ k + 1 \in 1 .. n - 1 /\ at(k) = q[k + 1] /\ at(k + 1) = q[k + 1 + 1]
      BY <2>2, <1>1
    <3>2. k + 1 \in 1 .. n
      BY <3>1, <1>1
    <3>3. nth(k + 1) = next[q[k + 1]]
      BY <3>1, <3>2, <2>1, <1>1, <1>3
    <3> QED
      BY <3>1, <3>3, <1>5
  <2>3. CASE k + 1 = n
    <3>1. at(k) = q[n] /\ at(k + 1) = NULL /\ n \in 1 .. n
      BY <2>3, <1>1
    <3>2. nth(k + 1) = next[q[n]]
      BY <3>1, <2>1, <1>1, <1>3
    <3> QED
      BY <3>1, <3>2, <1>5, <2>3
  <2>4. CASE k + 1 > n
    <3>1. at(k) = NULL /\ at(k + 1) = NULL
      BY <2>4, <1>1
    <3> QED
      BY <3>1, <2>1, <1>4
  <2> QED
    BY <2>2, <2>3, <2>4, <1>1
<1>8. \A k \in Nat : k \in S
  <2> HIDE DEF S
  <2> QED
    BY <1>6, <1>7, Induct
<1>9. card \in Nat /\ n <= card
  <2>1. IsFiniteSet(Addr)
    BY FiniteAssumption
  <2>2. Cardinality(C) = n
    BY ThreadedCount DEF n
  <2> QED
    BY <2>1, <2>2, FS_CardinalityType, FS_Subset
<1>10. met = 0 .. n - 1
  <2>1. \A k \in 0 .. card : nth(k) = at(k)
    BY <1>8, <1>9
  <2> HIDE DEF card
  <2> QED
    BY <2>1, <1>1, <1>9
<1>11. Cardinality(met) = n
  <2>1. Cardinality(0 .. n - 1) = IF 0 > n - 1 THEN 0 ELSE n - 1 - 0 + 1
    BY <1>1, FS_Interval
  <2>2. Cardinality(0 .. n - 1) = n
    BY <2>1, <1>1
  <2> HIDE DEF met
  <2> QED
    BY <2>2, <1>10
<1>12. Trail(first, next) = [i \in 1 .. Cardinality(met) |-> nth(i - 1)]
  BY DEF Trail, met, nth, follow, card
<1>13. \A i \in 1 .. n : nth(i - 1) = q[i]
  <2> TAKE i \in 1 .. n
  <2>1. i - 1 \in Nat /\ i - 1 < n /\ i - 1 + 1 = i
    BY <1>1
  <2> QED
    BY <2>1, <1>8
<1>14. q = [i \in 1 .. n |-> q[i]]
  BY DEF Threads, n
<1> QED
  BY <1>11, <1>12, <1>13, <1>14

(* Every chain can be read that way: by induction on its length.           *)
LEMMA ChainThreaded ==
    ASSUME NEW C, NEW head, NEW bn, NEW born, ChainOf(C, head, bn, born)
    PROVE  Threads(Trail(head, bn), C, head, bn)
<1> DEFINE S == {n \in Nat : \A D \in SUBSET Addr, h \in Pointer :
                    Cardinality(D) = n /\ ChainOf(D, h, bn, born) => \E q : Threads(q, D, h, bn)}
<1>f. \A D \in SUBSET Addr : IsFiniteSet(D) /\ Cardinality(D) \in Nat
  BY FiniteAssumption, FS_Subset, FS_CardinalityType
<1>1. 0 \in S
  <2> SUFFICES ASSUME NEW D \in SUBSET Addr, NEW h \in Pointer,
                      Cardinality(D) = 0, ChainOf(D, h, bn, born)
               PROVE  \E q : Threads(q, D, h, bn)
    OBVIOUS
  <2>1. D = {} /\ h = NULL
    BY <1>f, FS_EmptySet DEF ChainOf
  <2>2. Threads(<<>>, D, h, bn)
    BY <2>1 DEF Threads
  <2> QED
    BY <2>2
<1>2. ASSUME NEW n \in Nat, n \in S PROVE n + 1 \in S
  <2> SUFFICES ASSUME NEW D \in SUBSET Addr, NEW h \in Pointer,
                      Cardinality(D) = n + 1, ChainOf(D, h, bn, born)
               PROVE  \E q : Threads(q, D, h, bn)
    BY n + 1 \in Nat
  <2>1. D # {} /\ h \in D
    BY <1>f, FS_EmptySet DEF ChainOf
  <2> DEFINE E == D \ {h}
             t == bn[h]
  <2>2. ChainOf(E, t, bn, born)
    BY <2>1, ChainUnlink
  <2>3. Cardinality(E) = n /\ E \in SUBSET Addr
    BY <2>1, <1>f, FS_RemoveElement
  <2>4. t \in Pointer
    BY <2>2 DEF ChainOf, Pointer
  <2> HIDE DEF t
  <2>5. PICK p : Threads(p, E, t, bn)
    BY <2>2, <2>3, <2>4, <1>2
  <2> DEFINE q == [i \in 1 .. Len(p) + 1 |-> IF i = 1 THEN h ELSE p[i - 1]]
  <2>6. Len(p) \in Nat /\ \A i \in 1 .. Len(p) : p[i] \in E
    BY <2>5 DEF Threads
  <2>7. q \in Seq(D) /\ Len(q) = Len(p) + 1 /\ q[1] = h
        /\ \A i \in 1 .. Len(p) : q[i + 1] = p[i]
        /\ \A j \in 2 .. Len(q) : j - 1 \in 1 .. Len(p) /\ q[j] = p[j - 1] /\ q[j] \in E
    <3>1. \A i \in 1 .. Len(p) + 1 : q[i] \in D
      BY <2>1, <2>6
    <3>2. q \in Seq(D)
      BY <3>1, <2>6
    <3>3. Len(q) = Len(p) + 1
      BY <2>6
    <3> QED
      BY <3>2, <3>3, <2>6
  <2> HIDE DEF q
  <2>8. \A i, j \in 1 .. Len(q) : q[i] = q[j] => i = j
    <3> SUFFICES ASSUME NEW i \in 1 .. Len(q), NEW j \in 1 .. Len(q), q[i] = q[j], i # j
                 PROVE  FALSE
      OBVIOUS
    <3>1. CASE i = 1 \/ j = 1
      BY <3>1, <2>7, <2>6
    <3>2. CASE i # 1 /\ j # 1
      <4>1. i \in 2 .. Len(q) /\ j \in 2 .. Len(q)
        BY <3>2, <2>6, <2>7
      <4>2. i - 1 \in 1 .. Len(p) /\ j - 1 \in 1 .. Len(p) /\ p[i - 1] = p[j - 1]
        BY <4>1, <2>7
      <4>3. \A a, b \in 1 .. Len(p) : p[a] = p[b] => a = b
        BY <2>5, Zenon DEF Threads
      <4>4. i - 1 = j - 1
        BY <4>2, <4>3, Zenon
      <4> QED
        BY <4>4
    <3> QED
      BY <3>1, <3>2
  <2>9. \A x \in D : \E i \in 1 .. Len(q) : q[i] = x
    <3> SUFFICES ASSUME NEW x \in D PROVE \E i \in 1 .. Len(q) : q[i] = x
      OBVIOUS
    <3>1. CASE x = h
      BY <3>1, <2>6, <2>7
    <3>2. CASE x # h
      <4>1. PICK i \in 1 .. Len(p) : p[i] = x
        BY <3>2, <2>5 DEF Threads
      <4>2. i + 1 \in 1 .. Len(q) /\ q[i + 1] = x
        BY <4>1, <2>6, <2>7
      <4> QED
        BY <4>2
    <3> QED
      BY <3>1, <3>2
  <2>10. /\ IF Len(p) = 0 THEN t = NULL ELSE t = p[1] /\ bn[p[Len(p)]] = NULL
         /\ \A i \in 1 .. Len(p) - 1 : bn[p[i]] = p[i + 1]
    BY <2>5 DEF Threads
  <2>11. h = q[1] /\ bn[q[Len(q)]] = NULL
    <3>1. CASE Len(p) = 0
      BY <3>1, <2>7, <2>10 DEF t
    <3>2. CASE Len(p) # 0
      BY <3>2, <2>6, <2>7, <2>10
    <3> QED
      BY <3>1, <3>2
  <2>12. \A i \in 1 .. Len(q) - 1 : bn[q[i]] = q[i + 1]
    <3> SUFFICES ASSUME NEW i \in 1 .. Len(p) PROVE bn[q[i]] = q[i + 1]
      BY <2>6, <2>7
    <3>1. CASE i = 1
      BY <3>1, <2>6, <2>7, <2>10 DEF t
    <3>2. CASE i # 1
      <4>1. i - 1 \in 1 .. Len(p) - 1 /\ i - 1 + 1 = i /\ i \in 2 .. Len(q)
        BY <3>2, <2>6, <2>7
      <4>2. q[i] = p[i - 1] /\ q[i + 1] = p[i]
        BY <4>1, <2>7
      <4> QED
        BY <4>1, <4>2, <2>10
    <3> QED
      BY <3>1, <3>2
  <2>13. Threads(q, D, h, bn)
    BY <2>6, <2>7, <2>8, <2>9, <2>11, <2>12 DEF Threads
  <2> QED
    BY <2>13
<1>3. \A n \in Nat : n \in S
  <2> HIDE DEF S
  <2> QED
    BY <1>1, <1>2, Induct
<1>4. C \in SUBSET Addr /\ head \in Pointer
  BY DEF ChainOf, Pointer
<1>5. Cardinality(C) \in S
  BY <1>3, <1>4, <1>f
<1>6. PICK q : Threads(q, C, head, bn)
  BY <1>4, <1>5
<1> QED
  BY <1>4, <1>6, TrailThreads

(* So can a list of use, from either end.                                  *)
LEMMA ListThreaded ==
    ASSUME NEW M, NEW nst, NEW ost, NEW nw, NEW od, NEW used, ListOf(M, nst, ost, nw, od, used)
    PROVE  /\ Threads(Trail(nst, od), M, nst, od)
           /\ Trail(ost, nw) = Reverse(Trail(nst, od))
<1>1. ChainOf(M, nst, od, used)
  <2>1. M # {} => nst \in M /\ od[ost] = NULL /\ ost \in M
    BY DEF ListOf
  <2>2. \A x \in M : od[x] # NULL => od[x] \in M /\ used[od[x]] < used[x]
    BY <2>1 DEF ListOf
  <2>3. \A x, y \in M : used[y] < used[x] => od[x] # NULL /\ used[y] <= used[od[x]]
    BY AddrAssumption DEF ListOf
  <2> QED
    BY <2>1, <2>2, <2>3 DEF ListOf, ChainOf
<1> DEFINE q == Trail(nst, od)
           n == Len(q)
           r == Reverse(q)
<1>2. Threads(q, M, nst, od)
  BY <1>1, ChainThreaded
<1> HIDE DEF q
<1>3. n \in Nat /\ \A i \in 1 .. n : q[i] \in M
  BY <1>2 DEF Threads
<1>4. r \in Seq(M) /\ Len(r) = n /\ \A i \in 1 .. n : n - i + 1 \in 1 .. n /\ r[i] = q[n - i + 1]
  BY <1>3 DEF Reverse
<1>5. /\ \A i, j \in 1 .. n : q[i] = q[j] => i = j
      /\ \A x \in M : \E i \in 1 .. n : q[i] = x
      /\ IF n = 0 THEN nst = NULL ELSE nst = q[1] /\ od[q[n]] = NULL
      /\ \A i \in 1 .. n - 1 : od[q[i]] = q[i + 1]
  BY <1>2 DEF Threads
<1> HIDE DEF r, n
<1>6. \A i, j \in 1 .. n : r[i] = r[j] => i = j
  <2> SUFFICES ASSUME NEW i \in 1 .. n, NEW j \in 1 .. n, r[i] = r[j] PROVE i = j
    OBVIOUS
  <2>1. /\ n - i + 1 \in 1 .. n /\ n - j + 1 \in 1 .. n
        /\ q[n - i + 1] = q[n - j + 1]
    BY <1>4
  <2>2. n - i + 1 = n - j + 1
    BY <2>1, <1>5
  <2> QED
    BY <2>2, <1>3
<1>7. \A x \in M : \E i \in 1 .. n : r[i] = x
  <2> SUFFICES ASSUME NEW x \in M PROVE \E i \in 1 .. n : r[i] = x
    OBVIOUS
  <2>1. PICK i \in 1 .. n : q[i] = x
    BY <1>5
  <2>2. n - i + 1 \in 1 .. n /\ n - (n - i + 1) + 1 = i
    BY <1>3
  <2>3. r[n - i + 1] = x
    BY <2>1, <2>2, <1>4
  <2> QED
    BY <2>2, <2>3
<1>8. \A i \in 1 .. n - 1 : nw[r[i]] = r[i + 1]
  <2> SUFFICES ASSUME NEW i \in 1 .. n - 1 PROVE nw[r[i]] = r[i + 1]
    OBVIOUS
  <2>1. i \in 1 .. n /\ i + 1 \in 1 .. n /\ n - i \in 1 .. n - 1 /\ n - (i + 1) + 1 = n - i
    BY <1>3
  <2>2. r[i] = q[n - i + 1] /\ r[i + 1] = q[n - i]
    BY <2>1, <1>4
  <2>3. od[q[n - i]] = q[n - i + 1] /\ q[n - i] \in M /\ q[n - i + 1] \in M
    BY <2>1, <1>3, <1>5
  <2>4. q[n - i] # ost
    BY <2>3, AddrAssumption DEF ListOf
  <2> QED
    BY <2>2, <2>3, <2>4 DEF ListOf
<1>9. IF n = 0 THEN ost = NULL ELSE ost = r[1] /\ nw[r[n]] = NULL
  <2>1. CASE n = 0
    BY <2>1, <1>5 DEF ListOf
  <2>2. CASE n # 0
    <3>1. n \in 1 .. n /\ 1 \in 1 .. n /\ n - 1 + 1 = n /\ n - n + 1 = 1
      BY <2>2, <1>3
    <3>2. r[1] = q[n] /\ r[n] = q[1] /\ q[n] \in M
      BY <3>1, <1>3, <1>4
    <3>3. nst = q[1] /\ od[q[n]] = NULL
      BY <2>2, <1>5
    <3>4. q[n] = ost
      BY <3>2, <3>3, AddrAssumption DEF ListOf
    <3> QED
      BY <3>2, <3>3, <3>4, <2>2 DEF ListOf
  <2> QED
    BY <2>1, <2>2
<1>10. Threads(r, M, ost, nw)
  BY <1>4, <1>6, <1>7, <1>8, <1>9 DEF Threads
<1>11. Trail(ost, nw) = r
  BY <1>10, TrailThreads DEF ListOf
<1> QED
  BY <1>2, <1>11 DEF r, q

-----------------------------------------------------------------------------
(* The structures, as the invariants of the runs state them.               *)

(* The one block that is filled is that of the activation.                 *)
PrivateInv == \A a \in Addr : block[a].status = "private" => phase \in Filling /\ ent = a

LEMMA PrivateNext == IInv /\ PrivateInv /\ [Next]_cvars => PrivateInv'
<1> SUFFICES ASSUME IInv, PrivateInv, [Next]_cvars PROVE PrivateInv'
  OBVIOUS
<1>t. block \in [Addr -> Block]
  BY DEF IInv, TypeOK, StaticTypeOK
<1>1. CASE CallAny
  <2>1. block' = block /\ phase = "idle"
    BY <1>1 DEF CallAny, cache_decode_set, static
  <2> QED
    BY <2>1 DEF PrivateInv, Filling
<1>2. CASE ProbeNext \/ Hit \/ RejectCapacity
  <2>1. block' = block /\ phase = "lookup"
    BY <1>2 DEF ProbeNext, Hit, RejectCapacity, static
  <2> QED
    BY <2>1 DEF PrivateInv, Filling
<1>3. CASE Allocate
  <2>1. PICK a \in Addr : /\ block' = [block EXCEPT ![a] = [block[a] EXCEPT !.status = "private"]]
                          /\ ent' = a /\ phase = "lookup" /\ phase' = "decode"
    BY <1>3, <1>t DEF Allocate
  <2>2. \A b \in Addr : b # a => block'[b] = block[b]
    BY <2>1, <1>t
  <2> QED
    BY <2>1, <2>2 DEF PrivateInv, Filling
<1>4. CASE DecodeFails
  <2>1. phase \in Filling /\ block' = [block EXCEPT ![ent] = Blank]
    BY <1>4 DEF DecodeFails, Filling
  <2> QED
    BY <2>1, <1>t DEF PrivateInv, Blank
<1>5. CASE DecodeSucceeds \/ DownsampleOnce \/ StoreKey \/ Grow \/ Evict \/ WalkBucket
  <2>1. /\ phase' \in Filling /\ ent' = ent
        /\ \A a \in Addr : a # ent => block'[a] = block[a]
    BY <1>5, <1>t DEF DecodeSucceeds, DownsampleOnce, StoreKey, Grow, Evict, WalkBucket, static,
       Filling
  <2> QED
    BY <2>1 DEF PrivateInv
<1>6. CASE FreeVictim
  <2>1. phase' \in Filling /\ ent' = ent /\ block' = [block EXCEPT ![victim] = Blank]
    BY <1>6 DEF FreeVictim, AfterVictim, Filling
  <2> QED
    BY <2>1, <1>t DEF PrivateInv, Blank
<1>7. CASE Insert
  <2>1. /\ phase = "insert"
        /\ block' = [block EXCEPT ![ent] = [block[ent] EXCEPT !.status = "linked",
                                                              !.cache = req.cache_id]]
    BY <1>7, <1>t DEF Insert
  <2>2. ent \in Addr
    BY <2>1 DEF IInv, FillInv, Filling
  <2>3. block'[ent].status = "linked" /\ \A a \in Addr : a # ent => block'[a] = block[a]
    BY <2>1, <2>2, <1>t DEF Block
  <2> QED
    BY <2>3 DEF PrivateInv
<1>8. CASE UNCHANGED cvars
  <2>1. block' = block /\ phase' = phase /\ ent' = ent
    BY <1>8 DEF cvars, static, locals
  <2> QED
    BY <2>1 DEF PrivateInv
<1> QED
  BY <1>1, <1>2, <1>3, <1>4, <1>5, <1>6, <1>7, <1>8 DEF Next, CacheStep

(* The list of use of a cache, and what its ends and its length are.       *)
Down(id) == Trail(newest[id], older)

LEMMA DownThreads ==
    ASSUME IInv, NEW id \in CacheId
    PROVE  /\ Threads(Down(id), Members(id), newest[id], older)
           /\ Trail(oldest[id], newer) = Reverse(Down(id))
           /\ Len(Down(id)) = Cardinality(Members(id))
           /\ ToSet(Down(id)) = Members(id)
<1>1. PICK used : ListOf(Members(id), newest[id], oldest[id], newer, older, used)
  BY DEF IInv, ListInv
<1>2. /\ Threads(Down(id), Members(id), newest[id], older)
      /\ Trail(oldest[id], newer) = Reverse(Down(id))
  BY <1>1, ListThreaded DEF Down
<1>3. Len(Down(id)) = Cardinality(Members(id))
  BY <1>2, ThreadedCount
<1>4. ToSet(Down(id)) = Members(id)
  <2> DEFINE q == Down(id)
             C == Members(id)
  <2>1. q \in Seq(C) /\ \A x \in C : \E i \in 1 .. Len(q) : q[i] = x
    BY <1>2, Zenon DEF Threads
  <2> HIDE DEF q, C
  <2>2. DOMAIN q = 1 .. Len(q) /\ \A i \in 1 .. Len(q) : q[i] \in C
    BY <2>1
  <2>3. ToSet(q) = C
    BY <2>1, <2>2, Zenon DEF ToSet
  <2> QED
    BY <2>3 DEF q, C
<1> QED
  BY <1>2, <1>3, <1>4

LEMMA IntactState == IInv /\ PrivateInv => ListIntact /\ BucketsIntact /\ NoLeak
<1> SUFFICES ASSUME IInv, PrivateInv PROVE ListIntact /\ BucketsIntact /\ NoLeak
  OBVIOUS
<1>1. ListIntact
  <2> SUFFICES ASSUME phase = "idle", NEW id \in CacheId
               PROVE  /\ IsInjective(Down(id))
                      /\ ToSet(Down(id)) = Linked(id)
                      /\ Len(Down(id)) = cache_count[id]
                      /\ Trail(oldest[id], newer) = Reverse(Down(id))
    BY DEF ListIntact, Down
  <2>1. NULL \notin Linked(id)
    BY AddrAssumption DEF Linked
  <2>2. Members(id) = Linked(id)
    BY <2>1 DEF Members, IInv, VictimInv
  <2>3. Cardinality(Members(id)) = cache_count[id]
    <3>1. cache_count[id] = Cardinality(Members(id)) + 0 /\ IsFiniteSet(Members(id))
      BY DEF IInv, CountInv
    <3> QED
      BY <3>1, FS_CardinalityType
  <2>4. IsInjective(Down(id))
    BY DownThreads DEF Threads, IsInjective
  <2> QED
    BY <2>2, <2>3, <2>4, DownThreads
<1>2. BucketsIntact
  <2> SUFFICES ASSUME NEW id \in CacheId, NEW b \in Bucket
               PROVE  /\ IsInjective(Trail(buckets[id][b], bucket_next))
                      /\ ToSet(Trail(buckets[id][b], bucket_next)) = Chain(id, b)
    BY DEF BucketsIntact, Chain
  <2>1. PICK born : ChainOf(Chain(id, b), buckets[id][b], bucket_next, born)
    BY DEF IInv, ChainInv
  <2>2. Threads(Trail(buckets[id][b], bucket_next), Chain(id, b), buckets[id][b], bucket_next)
    BY <2>1, ChainThreaded
  <2> DEFINE q == Trail(buckets[id][b], bucket_next)
  <2> HIDE DEF q
  <2>3. /\ q \in Seq(Chain(id, b)) /\ DOMAIN q = 1 .. Len(q)
        /\ \A i, j \in 1 .. Len(q) : q[i] = q[j] => i = j
        /\ \A x \in Chain(id, b) : \E i \in 1 .. Len(q) : q[i] = x
    BY <2>2 DEF Threads, q
  <2>4. IsInjective(q)
    BY <2>3 DEF IsInjective
  <2>5. \A i \in DOMAIN q : q[i] \in Chain(id, b)
    BY <2>3
  <2>6. ToSet(q) = Chain(id, b)
    BY <2>3, <2>5 DEF ToSet
  <2> QED
    BY <2>4, <2>6 DEF q
<1>3. NoLeak
  <2>1. \A a \in Addr : block[a].status = "private" => phase # "idle" /\ ent = a
    BY DEF PrivateInv, Filling
  <2>2. ASSUME NEW a \in Addr, block[a].status = "linked", a # victim
        PROVE  \E id \in CacheId : a \in ToSet(Trail(newest[id], older))
    <3>1. block[a].cache \in CacheId
      BY <2>2 DEF IInv, EntryInv
    <3>2. a \in Members(block[a].cache)
      BY <2>2 DEF Members, Linked
    <3>3. a \in ToSet(Down(block[a].cache))
      BY <3>1, <3>2, DownThreads
    <3> QED
      BY <3>1, <3>3 DEF Down
  <2> QED
    BY <2>1, <2>2 DEF NoLeak
<1> QED
  BY <1>1, <1>2, <1>3

LEMMA PrivateInvariance == Spec => []PrivateInv
<1>1. Init => PrivateInv
  BY DEF Init, PrivateInv, Blank
<1> QED
  BY <1>1, PrivateNext, Invariance, PTL DEF Spec

(* After any history of hits, failures and evictions the lists of use and  *)
(* the bucket chains hold the same entries, each once, in both directions, *)
(* as many as are counted; an eviction always finds its victim, and no     *)
(* block is lost.                                                          *)
THEOREM StructuresStayIntact == Spec => []StructuresIntact
<1>1. UnlinkFindsVictim /\ ListIntact /\ BucketsIntact /\ NoLeak => StructuresIntact
  BY DEF StructuresIntact
<1> QED
  BY <1>1, UnlinkingSafe, IntactState, PrivateInvariance, Invariance, PTL

-----------------------------------------------------------------------------
(* The caches implement LruCache.                                          *)

(* What the relinking steps make of the order of a list.                   *)
LEMMA ThreadsFrame ==
    ASSUME NEW C, NEW q, NEW first, NEW next, NEW next2, Threads(q, C, first, next),
           \A x \in C : next2[x] = next[x]
    PROVE  Threads(q, C, first, next2)
<1>1. Len(q) \in Nat /\ \A i \in 1 .. Len(q) : q[i] \in C
  BY DEF Threads
<1>2. IF Len(q) = 0 THEN first = NULL ELSE first = q[1] /\ next2[q[Len(q)]] = NULL
  BY <1>1 DEF Threads
<1>3. \A i \in 1 .. Len(q) - 1 : next2[q[i]] = q[i + 1]
  <2> TAKE i \in 1 .. Len(q) - 1
  <2>1. i \in 1 .. Len(q) /\ next[q[i]] = q[i + 1]
    BY <1>1 DEF Threads
  <2> QED
    BY <2>1, <1>1
<1> QED
  BY <1>2, <1>3 DEF Threads

LEMMA ThreadsPush ==
    ASSUME NEW C, NEW q, NEW first, NEW next, NEW next2, NEW e, Threads(q, C, first, next),
           e \notin C, next2[e] = first, \A x \in C : next2[x] = next[x]
    PROVE  Threads(<<e>> \o q, C \cup {e}, e, next2)
<1> DEFINE n == Len(q)
           p == <<e>> \o q
           D == C \cup {e}
<1>1. n \in Nat /\ q \in Seq(C) /\ \A i \in 1 .. n : q[i] \in C
  BY DEF Threads
<1>2. q \in Seq(D) /\ <<e>> \in Seq(D)
  BY <1>1
<1>3. /\ p \in Seq(D) /\ Len(p) = n + 1 /\ p[1] = e
      /\ \A i \in 2 .. n + 1 : i - 1 \in 1 .. n /\ p[i] = q[i - 1]
      /\ \A i \in 1 .. n : p[i + 1] = q[i]
  BY <1>1, <1>2
<1>4. /\ \A i, j \in 1 .. n : q[i] = q[j] => i = j
      /\ \A x \in C : \E i \in 1 .. n : q[i] = x
      /\ IF n = 0 THEN first = NULL ELSE first = q[1] /\ next2[q[n]] = NULL
      /\ \A i \in 1 .. n - 1 : next2[q[i]] = q[i + 1]
  BY ThreadsFrame DEF Threads
<1> HIDE DEF n, p
<1>5. \A i, j \in 1 .. n + 1 : p[i] = p[j] => i = j
  <2> SUFFICES ASSUME NEW i \in 1 .. n + 1, NEW j \in 1 .. n + 1, p[i] = p[j], i # j
               PROVE  FALSE
    OBVIOUS
  <2>1. i = 1 => j \in 2 .. n + 1
    BY <1>1
  <2>2. j = 1 => i \in 2 .. n + 1
    BY <1>1
  <2>3. CASE i = 1 \/ j = 1
    BY <2>1, <2>2, <2>3, <1>1, <1>3
  <2>4. CASE i # 1 /\ j # 1
    <3>1. i \in 2 .. n + 1 /\ j \in 2 .. n + 1
      BY <2>4, <1>1
    <3>2. i - 1 \in 1 .. n /\ j - 1 \in 1 .. n /\ q[i - 1] = q[j - 1]
      BY <3>1, <1>3
    <3>3. i - 1 = j - 1
      BY <3>2, <1>4
    <3> QED
      BY <3>3
  <2> QED
    BY <2>3, <2>4
<1>6. \A x \in D : \E i \in 1 .. n + 1 : p[i] = x
  <2> SUFFICES ASSUME NEW x \in D PROVE \E i \in 1 .. n + 1 : p[i] = x
    OBVIOUS
  <2>1. CASE x = e
    BY <2>1, <1>1, <1>3
  <2>2. CASE x # e
    <3>1. PICK i \in 1 .. n : q[i] = x
      BY <2>2, <1>4
    <3>2. i + 1 \in 2 .. n + 1 /\ i + 1 \in 1 .. n + 1 /\ i + 1 - 1 = i
      BY <1>1
    <3>3. p[i + 1] = x
      BY <3>1, <3>2, <1>3
    <3> QED
      BY <3>2, <3>3
  <2> QED
    BY <2>1, <2>2
<1>7. next2[p[n + 1]] = NULL
  <2>1. CASE n = 0
    BY <2>1, <1>3, <1>4
  <2>2. CASE n # 0
    <3>1. n + 1 \in 2 .. n + 1 /\ n + 1 - 1 = n
      BY <2>2, <1>1
    <3>2. p[n + 1] = q[n]
      <4>1. n \in 1 .. n
        BY <2>2, <1>1
      <4> QED
        BY <4>1, <1>3
    <3> QED
      BY <3>2, <2>2, <1>4
  <2> QED
    BY <2>1, <2>2
<1>8. \A i \in 1 .. n + 1 - 1 : next2[p[i]] = p[i + 1]
  <2> SUFFICES ASSUME NEW i \in 1 .. n PROVE next2[p[i]] = p[i + 1]
    BY <1>1
  <2>1. i + 1 \in 2 .. n + 1 /\ i + 1 - 1 = i
    BY <1>1
  <2>2. p[i + 1] = q[i]
    BY <2>1, <1>3
  <2>3. CASE i = 1
    BY <2>2, <2>3, <1>3, <1>4
  <2>4. CASE i # 1
    <3>1. i \in 2 .. n + 1 /\ i - 1 \in 1 .. n - 1 /\ i - 1 + 1 = i
      BY <2>4, <1>1
    <3>2. p[i] = q[i - 1] /\ next2[q[i - 1]] = q[i]
      BY <3>1, <1>3, <1>4
    <3> QED
      BY <3>2, <2>2
  <2> QED
    BY <2>3, <2>4
<1>9. ~(n + 1 = 0)
  BY <1>1
<1> HIDE DEF D
<1>10. Threads(p, D, e, next2)
  <2>1. n + 1 - 1 = n /\ Len(p) = n + 1 /\ n + 1 \in Nat
    BY <1>1, <1>3
  <2> QED
    <3>1. next2[p[Len(p)]] = NULL /\ e = p[1] /\ ~(Len(p) = 0)
      BY <2>1, <1>3, <1>7, <1>9
    <3>2. \A i \in 1 .. Len(p) - 1 : next2[p[i]] = p[i + 1]
      <4> TAKE i \in 1 .. Len(p) - 1
      <4>1. i \in 1 .. n + 1 - 1
        BY <2>1, <1>1
      <4> QED
        BY <4>1, <1>8, Zenon
    <3>3. \A i, j \in 1 .. Len(p) : p[i] = p[j] => i = j
      BY <2>1, <1>5
    <3>4. \A x \in D : \E i \in 1 .. Len(p) : p[i] = x
      BY <2>1, <1>6
    <3>5. p \in Seq(D)
      BY <1>3
    <3> QED
      BY ONLY <3>1, <3>2, <3>3, <3>4, <3>5, Zenon DEF Threads
<1> QED
  BY <1>10 DEF p, D

(* The last block is taken off.                                            *)
TakenOff(C, first, next, last, before, first2, next2) ==
    /\ last \in C
    /\ NULL \notin C
    /\ next[last] = NULL
    /\ first # last => before \in C /\ next[before] = last /\ next2[before] = NULL
    /\ \A x \in C : x # before => next2[x] = next[x]
    /\ first2 = IF first = last THEN NULL ELSE first

LEMMA ThreadsDropLast ==
    ASSUME NEW C, NEW q, NEW first, NEW next, NEW last, NEW before, NEW first2, NEW next2,
           Threads(q, C, first, next),
           TakenOff(C, first, next, last, before, first2, next2)
    PROVE  Threads(SubSeq(q, 1, Len(q) - 1), C \ {last}, first2, next2)
<1>0. /\ C # {} /\ last \in C /\ NULL \notin C /\ next[last] = NULL
      /\ first # last => before \in C /\ next[before] = last /\ next2[before] = NULL
      /\ \A x \in C : x # before => next2[x] = next[x]
      /\ first2 = IF first = last THEN NULL ELSE first
  BY DEF TakenOff
<1> DEFINE n == Len(q)
           p == SubSeq(q, 1, n - 1)
           D == C \ {last}
<1>1. n \in Nat /\ q \in Seq(C) /\ \A i \in 1 .. n : q[i] \in C
  BY DEF Threads
<1>2. n # 0
  BY <1>0, <1>1 DEF Threads
<1>3. n - 1 \in Nat /\ p \in Seq(C) /\ Len(p) = n - 1 /\ \A i \in 1 .. n - 1 : p[i] = q[i]
  <2>1. n - 1 \in Nat /\ n - 1 \in 0 .. Len(q)
    BY <1>0, <1>1, <1>2
  <2>2. \A m \in 0 .. Len(q) : /\ SubSeq(q, 1, m) \in Seq(C)
                                /\ Len(SubSeq(q, 1, m)) = m
                                /\ \A i \in 1 .. m : SubSeq(q, 1, m)[i] = q[i]
    BY <1>0, <1>1
  <2> QED
    BY <1>0, <2>1, <2>2, Zenon
<1>4. /\ \A i, j \in 1 .. n : q[i] = q[j] => i = j
      /\ \A x \in C : \E i \in 1 .. n : q[i] = x
      /\ first = q[1] /\ next[q[n]] = NULL
      /\ \A i \in 1 .. n - 1 : next[q[i]] = q[i + 1]
  BY <1>0, <1>2 DEF Threads
<1> HIDE DEF n, p
<1>5. q[n] = last
  <2>1. PICK i \in 1 .. n : q[i] = last
    BY <1>0, <1>4
  <2>2. CASE i # n
    <3>1. i \in 1 .. n - 1 /\ i + 1 \in 1 .. n
      BY <1>0, <2>2, <1>1
    <3>2. next[last] = q[i + 1] /\ q[i + 1] \in C
      BY <3>1, <2>1, <1>1, <1>4, Zenon
    <3> QED
      BY <1>0, <3>2
  <2> QED
    BY <1>0, <2>1, <2>2
<1>6. \A i \in 1 .. n - 1 : i \in 1 .. n /\ p[i] \in D /\ p[i] = q[i]
  <2> TAKE i \in 1 .. n - 1
  <2>1. i \in 1 .. n /\ n \in 1 .. n /\ i # n
    BY <1>0, <1>1
  <2>2. q[i] # q[n]
    BY <1>0, <2>1, <1>4
  <2> QED
    BY <1>0, <2>1, <2>2, <1>1, <1>3, <1>5
<1>7. p \in Seq(D)
  BY <1>0, <1>3, <1>6
<1>8. \A i, j \in 1 .. n - 1 : p[i] = p[j] => i = j
  BY <1>0, <1>6, <1>4
<1>9. \A x \in D : \E i \in 1 .. n - 1 : p[i] = x
  <2> SUFFICES ASSUME NEW x \in D PROVE \E i \in 1 .. n - 1 : p[i] = x
    OBVIOUS
  <2>1. PICK i \in 1 .. n : q[i] = x
    BY <1>0, <1>4
  <2>2. i \in 1 .. n - 1
    BY <1>0, <2>1, <1>1, <1>5
  <2> QED
    BY <1>0, <2>1, <2>2, <1>6
<1>10. CASE n = 1
  <2>1. first = last /\ first2 = NULL
    BY <1>0, <1>10, <1>4, <1>5
  <2> QED
    BY <1>0, <2>1, <1>3, <1>7, <1>8, <1>9, <1>10 DEF Threads, p, n
<1>11. CASE n # 1
  <2>1. /\ n - 1 \in 1 .. n - 1 /\ n - 1 + 1 = n /\ n - 1 # 0 /\ 1 \in 1 .. n - 1
        /\ 1 \in 1 .. n /\ n \in 1 .. n /\ n - 1 \in 1 .. n
    BY <1>0, <1>11, <1>1, <1>2
  <2>2. first # last
    BY <1>0, <2>1, <1>4, <1>5, <1>11
  <2>3. \A i \in 1 .. n : q[i] = before => i = n - 1
    <3> TAKE i \in 1 .. n
    <3> HAVE q[i] = before
    <3>1. i \in 1 .. n - 1 /\ i + 1 \in 1 .. n
      <4>1. i # n
        BY <1>0, <1>4, <1>1, <2>2
      <4> QED
        BY <1>0, <4>1, <1>1
    <3>2. q[i + 1] = q[n]
      BY <1>0, <3>1, <2>2, <1>4, <1>5
    <3>3. i + 1 = n
      BY <1>0, <3>1, <3>2, <2>1, <1>4
    <3> QED
      BY <1>0, <3>3, <1>1
  <2>4. q[n - 1] = before
    <3>1. PICK i \in 1 .. n : q[i] = before
      BY <1>0, <2>2, <1>4
    <3> QED
      BY <1>0, <3>1, <2>3
  <2>5. next2[p[n - 1]] = NULL /\ first2 = p[1]
    BY <1>0, <2>1, <2>2, <2>4, <1>4, <1>6
  <2>6. \A i \in 1 .. n - 1 - 1 : next2[p[i]] = p[i + 1]
    <3> TAKE i \in 1 .. n - 1 - 1
    <3>1. i \in 1 .. n - 1 /\ i \in 1 .. n /\ i + 1 \in 1 .. n - 1 /\ i # n - 1
      BY <1>0, <1>1
    <3>2. q[i] # before /\ q[i] \in C
      BY <1>0, <3>1, <2>3, <1>1
    <3>3. next2[q[i]] = q[i + 1]
      BY <1>0, <3>1, <3>2, <1>4
    <3> QED
      BY <1>0, <3>1, <3>3, <1>6
  <2>7. Threads(p, D, first2, next2)
    BY <1>0, <2>1, <2>5, <2>6, <1>3, <1>7, <1>8, <1>9 DEF Threads
  <2> QED
    BY <1>0, <2>7 DEF p, n
<1> QED
  BY <1>0, <1>10, <1>11

LEMMA ConcatFacts ==
    ASSUME NEW C, NEW a \in Seq(C), NEW b \in Seq(C)
    PROVE  /\ a \o b \in Seq(C)
           /\ Len(a \o b) = Len(a) + Len(b)
           /\ \A i \in 1 .. Len(a) : (a \o b)[i] = a[i]
           /\ \A i \in 1 .. Len(b) : (a \o b)[Len(a) + i] = b[i]
  OBVIOUS

(* A block other than the first is taken out.                              *)
LEMMA ThreadsRemove ==
    ASSUME NEW C, NEW q, NEW first, NEW next, NEW next2, NEW k \in 2 .. Len(q),
           Threads(q, C, first, next),
           next2[q[k - 1]] = next[q[k]],
           \A x \in C \ {q[k - 1], q[k]} : next2[x] = next[x]
    PROVE  Threads(SubSeq(q, 1, k - 1) \o SubSeq(q, k + 1, Len(q)), C \ {q[k]}, first, next2)
<1> DEFINE n == Len(q)
           D == C \ {q[k]}
           low == SubSeq(q, 1, k - 1)
           high == SubSeq(q, k + 1, n)
           r == low \o high
<1>1. n \in Nat /\ q \in Seq(C) /\ \A i \in 1 .. n : q[i] \in C
  <2>1. q \in Seq(C)
    BY Zenon DEF Threads
  <2> QED
    BY ONLY <2>1
<1>2. k \in Nat /\ k >= 2 /\ k <= n /\ n - 1 \in Nat
  BY <1>1
<1>3. low \in Seq(C) /\ Len(low) = k - 1 /\ \A i \in 1 .. k - 1 : low[i] = q[i]
  BY <1>1, <1>2
<1>4. high \in Seq(C) /\ Len(high) = n - k /\ \A i \in 1 .. n - k : high[i] = q[k + i]
  BY <1>1, <1>2
<1> HIDE DEF n, low, high
<1>5. /\ r \in Seq(C) /\ Len(r) = n - 1
      /\ \A i \in 1 .. k - 1 : r[i] = low[i]
      /\ \A i \in 1 .. n - k : r[k - 1 + i] = high[i]
  <2>1. /\ low \o high \in Seq(C)
        /\ Len(low \o high) = Len(low) + Len(high)
        /\ \A i \in 1 .. Len(low) : (low \o high)[i] = low[i]
        /\ \A i \in 1 .. Len(high) : (low \o high)[Len(low) + i] = high[i]
    <3>1. low \in Seq(C) /\ high \in Seq(C)
      BY <1>3, <1>4
    <3> QED
      BY ONLY <3>1, ConcatFacts
  <2>2. k - 1 + (n - k) = n - 1
    BY <1>1, <1>2
  <2> QED
    BY <2>1, <2>2, <1>3, <1>4
<1> HIDE DEF r
<1> DEFINE old(i) == IF i < k THEN i ELSE i + 1
<1>6. \A i \in 1 .. n - 1 : r[i] = q[old(i)] /\ old(i) \in 1 .. n /\ old(i) # k
  <2> TAKE i \in 1 .. n - 1
  <2>1. CASE i < k
    <3>1. i \in 1 .. k - 1
      BY <2>1, <1>2
    <3> QED
      BY <3>1, <2>1, <1>1, <1>3, <1>5
  <2>2. CASE ~(i < k)
    <3>0. n \in Int /\ k \in Int /\ i \in Int /\ k <= i /\ i <= n - 1
      BY <2>2, <1>1, <1>2
    <3>1. i - (k - 1) \in 1 .. n - k /\ k - 1 + (i - (k - 1)) = i /\ k + (i - (k - 1)) = i + 1
      BY ONLY <3>0
    <3>2. r[i] = q[i + 1]
      <4> DEFINE m == i - (k - 1)
      <4>1. m \in 1 .. n - k /\ k - 1 + m = i /\ k + m = i + 1
        BY <3>1
      <4> HIDE DEF m
      <4>2. r[k - 1 + m] = high[m] /\ high[m] = q[k + m]
        BY <4>1, <1>4, <1>5, Zenon
      <4> QED
        BY <4>1, <4>2, Zenon
    <3> QED
      BY <3>2, <2>2, <1>1, <1>2
  <2> QED
    BY <2>1, <2>2
<1>7. /\ \A i, j \in 1 .. n : q[i] = q[j] => i = j
      /\ \A x \in C : \E i \in 1 .. n : q[i] = x
      /\ first = q[1] /\ next[q[n]] = NULL
      /\ \A i \in 1 .. n - 1 : next[q[i]] = q[i + 1]
  <2>1. n # 0
    BY <1>2
  <2> QED
    BY <2>1 DEF Threads, n
<1>k. k \in 1 .. n /\ k - 1 \in 1 .. n /\ k - 1 \in 1 .. n - 1
  BY <1>1, <1>2
<1>8. \A i \in 1 .. n - 1 : r[i] \in D
  <2> TAKE i \in 1 .. n - 1
  <2> HIDE DEF old
  <2>1. r[i] = q[old(i)] /\ old(i) \in 1 .. n /\ old(i) # k
    BY <1>6
  <2>2. q[old(i)] # q[k]
    BY <2>1, <1>7, <1>k
  <2> QED
    BY <2>1, <2>2, <1>1
<1>9. r \in Seq(D)
  BY <1>5, <1>8
<1>10. \A i, j \in 1 .. n - 1 : r[i] = r[j] => i = j
  <2> SUFFICES ASSUME NEW i \in 1 .. n - 1, NEW j \in 1 .. n - 1, r[i] = r[j] PROVE i = j
    OBVIOUS
  <2>1. old(i) = old(j)
    <3> HIDE DEF old
    <3>1. q[old(i)] = q[old(j)] /\ old(i) \in 1 .. n /\ old(j) \in 1 .. n
      BY <1>6, Zenon
    <3> QED
      BY <3>1, <1>7, Zenon
  <2> QED
    BY <2>1, <1>1, <1>2
<1>11. \A x \in D : \E i \in 1 .. n - 1 : r[i] = x
  <2> SUFFICES ASSUME NEW x \in D PROVE \E i \in 1 .. n - 1 : r[i] = x
    OBVIOUS
  <2>1. PICK j \in 1 .. n : q[j] = x
    BY <1>7
  <2>2. j # k
    BY <2>1
  <2> DEFINE i == IF j < k THEN j ELSE j - 1
  <2>3. i \in 1 .. n - 1 /\ old(i) = j
    BY <2>2, <1>1, <1>2
  <2>4. r[i] = x
    BY <2>1, <2>3, <1>6
  <2> QED
    BY <2>3, <2>4
<1>12. r[1] = q[1] /\ n - 1 # 0
  <2>1. 1 \in 1 .. n - 1 /\ old(1) = 1
    BY <1>1, <1>2
  <2> QED
    BY <2>1, <1>2, <1>6
<1>13. next2[r[n - 1]] = NULL
  <2>1. n - 1 \in 1 .. n - 1
    BY <1>1, <1>2
  <2>2. CASE k = n
    <3>1. r[n - 1] = q[k - 1]
      BY <2>1, <2>2, <1>1, <1>6
    <3> QED
      BY <3>1, <2>2, <1>7
  <2>3. CASE k # n
    <3>1. old(n - 1) = n /\ n # k /\ n # k - 1 /\ n \in 1 .. n
      BY <2>3, <1>1, <1>2
    <3>2. r[n - 1] = q[n]
      BY <3>1, <2>1, <1>6
    <3>3. q[n] \in C \ {q[k - 1], q[k]}
      BY <3>1, <1>1, <1>7, <1>k
    <3> QED
      BY <3>2, <3>3, <1>7
  <2> QED
    BY <2>2, <2>3
<1>14. \A i \in 1 .. n - 1 - 1 : next2[r[i]] = r[i + 1]
  <2> TAKE i \in 1 .. n - 1 - 1
  <2>1. i \in 1 .. n - 1 /\ i + 1 \in 1 .. n - 1
    BY <1>1
  <2>2. r[i] = q[old(i)] /\ r[i + 1] = q[old(i + 1)]
    BY <2>1, <1>6
  <2>3. CASE i = k - 1
    <3>1. r[i] = q[k - 1] /\ r[i + 1] = q[k + 1] /\ k \in 1 .. n - 1
      BY <2>1, <2>2, <2>3, <1>1, <1>2
    <3> QED
      BY <3>1, <1>7
  <2>4. CASE i # k - 1
    <3>1. old(i) \in 1 .. n - 1 /\ old(i + 1) = old(i) + 1 /\ old(i) # k /\ old(i) # k - 1
          /\ old(i) \in 1 .. n
      BY <2>1, <2>4, <1>1, <1>2
    <3> HIDE DEF old
    <3>2. q[old(i)] \in C \ {q[k - 1], q[k]}
      BY <3>1, <1>1, <1>7, <1>k
    <3>3. next2[q[old(i)]] = q[old(i) + 1]
      BY <3>1, <3>2, <1>7
    <3> QED
      BY <3>1, <3>3, <2>2
  <2> QED
    BY <2>3, <2>4
<1>15. Threads(r, D, first, next2)
  BY <1>5, <1>7, <1>9, <1>10, <1>11, <1>12, <1>13, <1>14 DEF Threads
<1> QED
  BY <1>15 DEF r, low, high, n, D

(* A block other than the first is moved to the front.                     *)
LEMMA ThreadsMoveToFront ==
    ASSUME NEW C, NEW q, NEW first, NEW next, NEW next2, NEW k \in 2 .. Len(q),
           Threads(q, C, first, next),
           next2[q[k]] = first,
           next2[q[k - 1]] = next[q[k]],
           \A x \in C \ {q[k - 1], q[k]} : next2[x] = next[x]
    PROVE  Threads(<<q[k]>> \o SubSeq(q, 1, k - 1) \o SubSeq(q, k + 1, Len(q)), C, q[k], next2)
<1> DEFINE low == SubSeq(q, 1, k - 1)
           high == SubSeq(q, k + 1, Len(q))
           e == q[k]
           D == C \ {e}
<1>1. Threads(low \o high, D, first, next2)
  BY ThreadsRemove
<1>2. q \in Seq(C) /\ k \in 1 .. Len(q) /\ e \in C
  BY DEF Threads
<1>3. low \in Seq(C) /\ high \in Seq(C)
  BY <1>2
<1> HIDE DEF low, high
<1>4. Threads(<<e>> \o (low \o high), D \cup {e}, e, next2)
  <2>1. e \notin D /\ next2[e] = first /\ \A x \in D : next2[x] = next2[x]
    OBVIOUS
  <2> HIDE DEF D, e
  <2> QED
    BY <2>1, <1>1, ThreadsPush
<1>5. D \cup {e} = C
  BY <1>2
<1>6. <<e>> \o (low \o high) = <<e>> \o low \o high
  BY <1>2, <1>3
<1> QED
  BY <1>4, <1>5, <1>6 DEF low, high

(* The keys of a list, from those of its blocks.                           *)
Mapped(q, K) == [i \in 1 .. Len(q) |-> K[q[i]]]

LEMMA SameSeq ==
    ASSUME NEW T, NEW a \in Seq(T), NEW b \in Seq(T), Len(a) = Len(b),
           \A i \in 1 .. Len(a) : a[i] = b[i]
    PROVE  a = b
  OBVIOUS

LEMMA SubSeqFacts ==
    ASSUME NEW T, NEW a \in Seq(T), NEW m \in 1 .. Len(a) + 1, NEW n \in m - 1 .. Len(a)
    PROVE  /\ SubSeq(a, m, n) \in Seq(T)
           /\ Len(SubSeq(a, m, n)) = n - m + 1
           /\ \A i \in 1 .. n - m + 1 : SubSeq(a, m, n)[i] = a[m + i - 1]
  OBVIOUS

LEMMA MappedConcat ==
    ASSUME NEW C, NEW T, NEW K \in [C -> T], NEW a \in Seq(C), NEW b \in Seq(C)
    PROVE  Mapped(a \o b, K) = Mapped(a, K) \o Mapped(b, K)
<1> DEFINE c == a \o b
           x == Mapped(a, K)
           y == Mapped(b, K)
           z == Mapped(c, K)
           w == x \o y
<1>1. /\ c \in Seq(C) /\ Len(c) = Len(a) + Len(b)
      /\ \A i \in 1 .. Len(a) : c[i] = a[i]
      /\ \A i \in 1 .. Len(b) : c[Len(a) + i] = b[i]
  BY ConcatFacts
<1>2. /\ x \in Seq(T) /\ Len(x) = Len(a) /\ \A i \in 1 .. Len(a) : x[i] = K[a[i]]
      /\ y \in Seq(T) /\ Len(y) = Len(b) /\ \A i \in 1 .. Len(b) : y[i] = K[b[i]]
  <2>1. x \in Seq(T) /\ Len(x) = Len(a) /\ \A i \in 1 .. Len(a) : x[i] = K[a[i]]
    BY DEF Mapped
  <2>2. y \in Seq(T) /\ Len(y) = Len(b) /\ \A i \in 1 .. Len(b) : y[i] = K[b[i]]
    BY DEF Mapped
  <2> QED
    BY <2>1, <2>2
<1> HIDE DEF x, y, c
<1>3. z \in Seq(T) /\ Len(z) = Len(c) /\ \A i \in 1 .. Len(c) : z[i] = K[c[i]]
  <2>1. c \in Seq(C)
    BY <1>1
  <2> QED
    BY <2>1 DEF Mapped
<1>4. /\ w \in Seq(T) /\ Len(w) = Len(x) + Len(y)
      /\ \A i \in 1 .. Len(x) : w[i] = x[i]
      /\ \A i \in 1 .. Len(y) : w[Len(x) + i] = y[i]
  <2>1. x \in Seq(T) /\ y \in Seq(T)
    BY <1>2
  <2> QED
    BY ONLY <2>1, ConcatFacts
<1> HIDE DEF z, w
<1>5. Len(a) \in Nat /\ Len(b) \in Nat
  OBVIOUS
<1>6. \A i \in 1 .. Len(z) : z[i] = w[i]
  <2> TAKE i \in 1 .. Len(z)
  <2>1. CASE i \in 1 .. Len(a)
    <3>1. i \in 1 .. Len(c)
      BY <2>1, <1>1, <1>5
    <3> QED
      BY <3>1, <2>1, <1>1, <1>2, <1>3, <1>4
  <2>2. CASE i \notin 1 .. Len(a)
    <3>1. PICK j \in 1 .. Len(b) : i = Len(a) + j
      <4>1. i - Len(a) \in 1 .. Len(b) /\ i = Len(a) + (i - Len(a))
        BY <2>2, <1>1, <1>3, <1>5
      <4> QED
        BY <4>1
    <3>2. i \in 1 .. Len(c)
      BY <1>3
    <3>3. z[i] = K[b[j]]
      BY <3>1, <3>2, <1>1, <1>3
    <3>4. w[i] = K[b[j]]
      BY <3>1, <1>2, <1>4
    <3> QED
      BY <3>3, <3>4
  <2> QED
    BY <2>1, <2>2
<1>7. Len(z) = Len(w)
  BY <1>1, <1>2, <1>3, <1>4
<1>8. z = w
  BY ONLY <1>3, <1>4, <1>6, <1>7, SameSeq
<1> QED
  BY <1>8 DEF z, w, x, y, c

LEMMA MappedSubSeq ==
    ASSUME NEW C, NEW T, NEW K \in [C -> T], NEW q \in Seq(C),
           NEW m \in 1 .. Len(q) + 1, NEW n \in m - 1 .. Len(q)
    PROVE  Mapped(SubSeq(q, m, n), K) = SubSeq(Mapped(q, K), m, n)
<1> DEFINE a == SubSeq(q, m, n)
           R == Mapped(q, K)
           z == Mapped(a, K)
           w == SubSeq(R, m, n)
<1>0. Len(q) \in Nat /\ m \in Nat /\ n \in Int /\ n - m + 1 \in Nat /\ m >= 1 /\ n <= Len(q)
  OBVIOUS
<1>1. /\ a \in Seq(C) /\ Len(a) = n - m + 1
      /\ \A i \in 1 .. n - m + 1 : a[i] = q[m + i - 1]
  BY SubSeqFacts
<1>2. /\ R \in Seq(T) /\ Len(R) = Len(q)
      /\ \A i \in 1 .. Len(q) : R[i] = K[q[i]]
  BY DEF Mapped
<1> HIDE DEF a, R
<1>3. z \in Seq(T) /\ Len(z) = Len(a) /\ \A i \in 1 .. Len(a) : z[i] = K[a[i]]
  <2>1. a \in Seq(C)
    BY <1>1
  <2> QED
    BY <2>1 DEF Mapped
<1>4. m \in 1 .. Len(R) + 1 /\ n \in m - 1 .. Len(R)
  BY <1>2
<1>5. /\ w \in Seq(T) /\ Len(w) = n - m + 1
      /\ \A i \in 1 .. n - m + 1 : w[i] = R[m + i - 1]
  BY ONLY <1>2, <1>4, SubSeqFacts
<1> HIDE DEF z, w
<1>6. \A i \in 1 .. Len(z) : z[i] = w[i]
  <2> TAKE i \in 1 .. Len(z)
  <2>1. i \in 1 .. n - m + 1
    BY <1>1, <1>3
  <2>2. m + i - 1 \in 1 .. Len(q)
    BY <2>1, <1>0
  <2>3. z[i] = K[q[m + i - 1]]
    BY <2>1, <1>1, <1>3
  <2>4. w[i] = K[q[m + i - 1]]
    BY <2>1, <2>2, <1>2, <1>5
  <2> QED
    BY <2>3, <2>4
<1>7. Len(z) = Len(w)
  BY <1>1, <1>3, <1>5
<1>8. z = w
  BY ONLY <1>3, <1>5, <1>6, <1>7, SameSeq
<1> QED
  BY <1>8 DEF z, w, a, R

LEMMA SplitAt ==
    ASSUME NEW T, NEW q \in Seq(T), NEW k \in 1 .. Len(q)
    PROVE  /\ SubSeq(q, 1, k - 1) \in Seq(T)
           /\ SubSeq(q, k + 1, Len(q)) \in Seq(T)
           /\ <<q[k]>> \in Seq(T)
           /\ k = 1 => <<q[k]>> \o SubSeq(q, 1, k - 1) \o SubSeq(q, k + 1, Len(q)) = q
<1>1. /\ SubSeq(q, 1, k - 1) \in Seq(T)
      /\ SubSeq(q, k + 1, Len(q)) \in Seq(T)
      /\ <<q[k]>> \in Seq(T)
  OBVIOUS
<1>2. ASSUME k = 1 PROVE <<q[k]>> \o SubSeq(q, 1, k - 1) \o SubSeq(q, k + 1, Len(q)) = q
  <2>1. SubSeq(q, 1, 0) = <<>> /\ SubSeq(q, 2, Len(q)) \in Seq(T)
    BY <1>2
  <2>2. <<q[1]>> \o <<>> \o SubSeq(q, 2, Len(q)) = q
    BY <1>2
  <2> QED
    BY <2>1, <2>2, <1>2
<1> QED
  BY <1>1, <1>2

LEMMA MappedToFront ==
    ASSUME NEW C, NEW T, NEW K \in [C -> T], NEW q \in Seq(C), NEW k \in 1 .. Len(q)
    PROVE  Mapped(<<q[k]>> \o SubSeq(q, 1, k - 1) \o SubSeq(q, k + 1, Len(q)), K) =
              <<K[q[k]]>> \o SubSeq(Mapped(q, K), 1, k - 1)
                          \o SubSeq(Mapped(q, K), k + 1, Len(Mapped(q, K)))
<1> DEFINE low == SubSeq(q, 1, k - 1)
           high == SubSeq(q, k + 1, Len(q))
           e == <<q[k]>>
<1>1. low \in Seq(C) /\ high \in Seq(C) /\ e \in Seq(C)
  BY SplitAt
<1>2. Len(Mapped(q, K)) = Len(q)
  BY DEF Mapped
<1>n. k \in Nat /\ Len(q) \in Nat /\ k >= 1 /\ k <= Len(q)
  OBVIOUS
<1>m. ASSUME NEW m \in 1 .. Len(q) + 1, NEW n \in m - 1 .. Len(q)
      PROVE  Mapped(SubSeq(q, m, n), K) = SubSeq(Mapped(q, K), m, n)
  BY MappedSubSeq
<1>3. Mapped(low, K) = SubSeq(Mapped(q, K), 1, k - 1)
  <2>1. 1 \in 1 .. Len(q) + 1 /\ k - 1 \in 1 - 1 .. Len(q)
    BY <1>n
  <2> QED
    BY <2>1, <1>m, Zenon
<1>4. Mapped(high, K) = SubSeq(Mapped(q, K), k + 1, Len(q))
  <2> DEFINE m == k + 1
             n == Len(q)
  <2>1. m \in 1 .. n + 1 /\ n \in m - 1 .. n
    BY <1>n
  <2> HIDE DEF m
  <2>2. Mapped(SubSeq(q, m, n), K) = SubSeq(Mapped(q, K), m, n)
    BY <2>1, <1>m
  <2> QED
    BY <2>2 DEF m
<1>5. Mapped(e, K) = <<K[q[k]]>>
  BY DEF Mapped
<1> HIDE DEF low, high, e
<1>6. e \o low \in Seq(C)
  BY <1>1
<1>c. \A a, b \in Seq(C) : Mapped(a \o b, K) = Mapped(a, K) \o Mapped(b, K)
  BY MappedConcat, Zenon
<1>7. Mapped(e \o low, K) = Mapped(e, K) \o Mapped(low, K)
  BY ONLY <1>1, <1>c, Zenon
<1>8. Mapped((e \o low) \o high, K) = Mapped(e \o low, K) \o Mapped(high, K)
  <2> DEFINE t == e \o low
  <2>1. t \in Seq(C) /\ high \in Seq(C)
    BY <1>1, <1>6
  <2> HIDE DEF t
  <2>2. Mapped(t \o high, K) = Mapped(t, K) \o Mapped(high, K)
    BY ONLY <2>1, <1>c, Zenon
  <2> QED
    BY ONLY <2>2 DEF t
<1> QED
  BY <1>2, <1>3, <1>4, <1>5, <1>7, <1>8, Zenon DEF low, high, e

LEMMA MappedPush ==
    ASSUME NEW C, NEW T, NEW K \in [C -> T], NEW q \in Seq(C), NEW e \in C
    PROVE  Mapped(<<e>> \o q, K) = <<K[e]>> \o Mapped(q, K)
<1>1. <<e>> \in Seq(C) /\ Mapped(<<e>>, K) = <<K[e]>>
  BY DEF Mapped
<1>2. Mapped(<<e>> \o q, K) = Mapped(<<e>>, K) \o Mapped(q, K)
  BY ONLY <1>1, q \in Seq(C), K \in [C -> T], MappedConcat
<1> QED
  BY <1>1, <1>2

-----------------------------------------------------------------------------
(* The keys of the blocks.                                                 *)
KeyOf == [a \in Addr |-> Key(a)]

(* Recency and what threads the list.                                      *)
LEMMA RecencyNow ==
    ASSUME IInv, NEW id \in CacheId
    PROVE  \E q : /\ q = Down(id)
                  /\ q \in Seq(Addr)
                  /\ Threads(q, Members(id), newest[id], older)
                  /\ Recency(id) = Mapped(q, KeyOf)
                  /\ Len(Recency(id)) = Len(q)
                  /\ Len(q) = Cardinality(Members(id))
<1>1. PICK q : q = Down(id)
  OBVIOUS
<1>2. Threads(q, Members(id), newest[id], older) /\ Len(q) = Cardinality(Members(id))
  BY <1>1, DownThreads
<1>3. Members(id) \subseteq Addr
  BY DEF Members, Linked
<1>4. q \in Seq(Addr) /\ \A i \in 1 .. Len(q) : q[i] \in Addr
  BY <1>2, <1>3 DEF Threads
<1>5. Recency(id) = [i \in 1 .. Len(q) |-> Key(q[i])]
  BY <1>1 DEF Recency, Down
<1>6. Recency(id) = Mapped(q, KeyOf)
  BY <1>4, <1>5 DEF Mapped, KeyOf
<1>7. Len(Recency(id)) = Len(q)
  BY <1>4, <1>5
<1> QED
  BY <1>1, <1>2, <1>4, <1>6, <1>7

(* The keys that are read when a list is followed, wherever its first      *)
(* block, its links and its blocks are taken from.                         *)
Listed(first, next, blk) ==
    LET down == Trail(first, next)
    IN  [i \in 1 .. Len(down) |-> <<blk[down[i]].str, blk[down[i]].target_bpp>>]

LEMMA RecencyListed ==
    ASSUME NEW id
    PROVE  /\ Recency(id) = Listed(newest[id], older, block)
           /\ Recency(id)' = Listed(newest'[id], older', block')
  BY DEF Recency, Listed, Key

LEMMA ListedMapped ==
    ASSUME NEW C, C \subseteq Addr, NEW q, NEW K, NEW first, NEW next, NEW blk,
           Threads(q, C, first, next),
           \A x \in C : K[x] = <<blk[x].str, blk[x].target_bpp>>
    PROVE  Listed(first, next, blk) = Mapped(q, K)
<1>1. Trail(first, next) = q
  BY TrailThreads
<1>2. \A i \in 1 .. Len(q) : q[i] \in C
  BY DEF Threads
<1>3. [i \in 1 .. Len(q) |-> <<blk[q[i]].str, blk[q[i]].target_bpp>>] =
         [i \in 1 .. Len(q) |-> K[q[i]]]
  BY <1>2
<1> QED
  BY <1>1, <1>3 DEF Listed, Mapped

(* No step of an activation changes an entry in a list of use.             *)
LEMMA MembersUntouched ==
    ASSUME IInv, CacheStep, NEW i \in CacheId, NEW x \in Members(i)
    PROVE  block'[x] = block[x]
<1>1. x \in Addr /\ block[x].status = "linked" /\ x # victim
  BY DEF Members, Linked
<1>t. block \in [Addr -> Block]
  BY DEF IInv, TypeOK, StaticTypeOK
<1>2. CASE ProbeNext \/ Hit \/ RejectCapacity \/ Grow \/ Evict \/ WalkBucket
  BY <1>2 DEF ProbeNext, Hit, RejectCapacity, Grow, Evict, WalkBucket, static
<1>3. CASE Allocate
  <2>1. PICK a \in Addr : block[a].status = "free"
                          /\ block' = [block EXCEPT ![a] = [block[a] EXCEPT !.status = "private"]]
    BY <1>3, <1>t DEF Allocate
  <2> QED
    BY <2>1, <1>1, <1>t
<1>4. ASSUME phase \in Filling PROVE ent # x
  BY <1>1, <1>4 DEF IInv, FillInv
<1>5. CASE DecodeFails
  BY <1>1, <1>4, <1>5, <1>t DEF DecodeFails, Filling
<1>6. CASE DecodeSucceeds
  BY <1>1, <1>4, <1>6, <1>t DEF DecodeSucceeds, Filling
<1>7. CASE DownsampleOnce
  BY <1>1, <1>4, <1>7, <1>t DEF DownsampleOnce, Filling
<1>8. CASE StoreKey
  BY <1>1, <1>4, <1>8, <1>t DEF StoreKey, Filling
<1>9. CASE FreeVictim
  <2>2. block' = [block EXCEPT ![victim] = Blank]
    BY <1>9 DEF FreeVictim, AfterVictim
  <2> QED
    BY <2>2, <1>1, <1>t
<1>10. CASE Insert
  <2>1. ent # x
    BY <1>4, <1>10 DEF Insert, Filling
  <2>2. block' = [block EXCEPT ![ent] = [block[ent] EXCEPT !.status = "linked",
                                                           !.cache = req.cache_id]]
    BY <1>10, <1>t DEF Insert
  <2> QED
    BY <2>1, <2>2, <1>1, <1>t
<1> QED
  BY <1>2, <1>3, <1>5, <1>6, <1>7, <1>8, <1>9, <1>10 DEF CacheStep

(* What the keys are made of.                                               *)
LEMMA KeyOfType ==
    ASSUME IInv
    PROVE  KeyOf \in [Addr -> (Str \cup {NULL}) \X (Precision \cup {NULL})]
<1>1. \A a \in Addr : block[a].str \in Str \cup {NULL} /\ block[a].target_bpp \in Precision \cup {NULL}
  BY DEF IInv, TypeOK, StaticTypeOK, Block
<1> QED
  BY <1>1 DEF KeyOf, Key

(* The lists a step leaves alone.                                          *)
LEMMA RecencyKept ==
    ASSUME IInv, NEW id \in CacheId, newest'[id] = newest[id],
           \A x \in Members(id) : older'[x] = older[x] /\ block'[x] = block[x]
    PROVE  Recency(id)' = Recency(id)
<1>1. PICK q : /\ Threads(q, Members(id), newest[id], older)
               /\ Recency(id) = Mapped(q, KeyOf)
  BY RecencyNow
<1>2. PICK C : C = Members(id)
  OBVIOUS
<1>3. PICK K : K = KeyOf
  OBVIOUS
<1>4. C \subseteq Addr
  BY <1>2 DEF Members, Linked
<1>5. Threads(q, C, newest[id], older)
  BY <1>1, <1>2
<1>6. \A x \in C : older'[x] = older[x]
  BY <1>2
<1>7. Threads(q, C, newest'[id], older')
  BY <1>5, <1>6, ThreadsFrame
<1>8. \A x \in C : K[x] = <<block'[x].str, block'[x].target_bpp>>
  BY <1>2, <1>3, <1>4 DEF KeyOf, Key
<1>9. Listed(newest'[id], older', block') = Mapped(q, K)
  BY <1>4, <1>7, <1>8, ListedMapped
<1> QED
  BY <1>1, <1>3, <1>9, RecencyListed

(* Two caches have no entry in common.                                     *)
LEMMA MembersDisjoint ==
    ASSUME NEW i, NEW j, i # j, NEW x \in Members(i)
    PROVE  x \notin Members(j) /\ x \notin Linked(j) /\ x \in Linked(i) /\ x \in Addr
  BY DEF Members, Linked

(* The steps that LruCache does not see.                                   *)
LEMMA UnseenStep ==
    ASSUME IInv, Allocate \/ ProbeNext \/ RejectCapacity \/ DecodeFails \/ DecodeSucceeds
                 \/ DownsampleOnce \/ StoreKey \/ Grow \/ WalkBucket \/ FreeVictim
    PROVE  \A id \in CacheId : Recency(id)' = Recency(id)
<1> SUFFICES ASSUME NEW id \in CacheId PROVE Recency(id)' = Recency(id)
  OBVIOUS
<1>1. CacheStep
  BY DEF CacheStep
<1>2. \A x \in Members(id) : block'[x] = block[x]
  BY <1>1, MembersUntouched
<1>3. newest' = newest
  BY DEF Allocate, ProbeNext, RejectCapacity, DecodeFails, DecodeSucceeds, DownsampleOnce, StoreKey,
         Grow, WalkBucket, FreeVictim, AfterVictim, static
<1>4. \A x \in Members(id) : older'[x] = older[x]
  <2>1. CASE FreeVictim
    <3>1. older' = [older EXCEPT ![victim] = NULL] /\ older \in [Addr -> Pointer]
      BY <2>1 DEF FreeVictim, AfterVictim, IInv, TypeOK, StaticTypeOK
    <3> QED
      BY <3>1 DEF Members, Linked
  <2>2. CASE ~FreeVictim
    BY <2>2 DEF Allocate, ProbeNext, RejectCapacity, DecodeFails, DecodeSucceeds, DownsampleOnce,
       StoreKey, Grow, WalkBucket, static
  <2> QED
    BY <2>1, <2>2
<1> QED
  BY <1>2, <1>3, <1>4, RecencyKept

(* A hit.                                                                  *)
LEMMA HitOrder ==
    ASSUME IInv, Hit, NEW c \in CacheId, c = req.cache_id
    PROVE  /\ \A id \in CacheId : id # c => Recency(id)' = Recency(id)
           /\ LET r == Recency(c)
              IN  \E k \in DOMAIN r :
                     /\ r[k] = ReqKey
                     /\ Recency(c)' = <<ReqKey>> \o SubSeq(r, 1, k - 1) \o SubSeq(r, k + 1, Len(r))
<1>0. /\ phase = "lookup" /\ ent # NULL /\ KeyMatches(ent) /\ MoveToFront(c, ent)
      /\ block' = block /\ victim = NULL
  BY DEF Hit, IInv, VictimInv
<1>1. ent \in Linked(c) /\ ent \in Addr
  BY <1>0, FoundEntry
<1>2. c \in CacheId
  OBVIOUS
<1>3. ent \in Members(c)
  BY <1>0, <1>1, AddrAssumption DEF Members
<1>4. Key(ent) = ReqKey
  BY <1>0 DEF KeyMatches, Key, ReqKey
<1>5. PICK used : ListOf(Members(c), newest[c], oldest[c], newer, older, used)
  BY <1>2 DEF IInv, ListInv
<1>6. PICK q : /\ q \in Seq(Addr)
               /\ Threads(q, Members(c), newest[c], older)
               /\ Recency(c) = Mapped(q, KeyOf)
               /\ Len(Recency(c)) = Len(q)
  BY <1>2, RecencyNow
<1>7. PICK k \in 1 .. Len(q) : q[k] = ent
  BY <1>3, <1>6 DEF Threads
<1>8. PICK C, K, e, r : C = Members(c) /\ K = KeyOf /\ e = ent /\ r = Recency(c)
  OBVIOUS
<1>9. K \in [Addr -> (Str \cup {NULL}) \X (Precision \cup {NULL})]
  BY <1>8, KeyOfType
<1>10. newest \in [CacheId -> Pointer] /\ older \in [Addr -> Pointer] /\ newer \in [Addr -> Pointer]
  BY DEF IInv, TypeOK, StaticTypeOK
<1>11. /\ Len(q) \in Nat /\ \A i \in 1 .. Len(q) : q[i] \in C
       /\ \A i, j \in 1 .. Len(q) : q[i] = q[j] => i = j
       /\ newest[c] = q[1]
       /\ \A i \in 1 .. Len(q) - 1 : older[q[i]] = q[i + 1]
  BY <1>6, <1>7, <1>8 DEF Threads
<1>12. Len(r) = Len(q) /\ r = Mapped(q, K) /\ k \in DOMAIN r /\ r[k] = ReqKey /\ K[e] = ReqKey
  <2>1. Len(r) = Len(q) /\ r = Mapped(q, K)
    BY <1>6, <1>8
  <2>2. k \in DOMAIN r /\ r[k] = K[q[k]]
    BY <2>1 DEF Mapped
  <2>3. K[e] = ReqKey
    BY <1>1, <1>4, <1>8 DEF KeyOf
  <2> QED
    BY <2>1, <2>2, <2>3, <1>7, <1>8
<1> DEFINE Moved == <<ReqKey>> \o SubSeq(r, 1, k - 1) \o SubSeq(r, k + 1, Len(r))
           Others == \A id \in CacheId : id # c => Recency(id)' = Recency(id)
<1> SUFFICES Recency(c)' = Moved /\ Others
  <2>1. k \in DOMAIN r /\ r[k] = ReqKey /\ r = Recency(c)
    BY <1>8, <1>12
  <2> QED
    BY <2>1, <1>2, Zenon
<1>13. CASE k = 1
  <2>1. newest' = newest /\ older' = older
    BY <1>0, <1>7, <1>11, <1>13 DEF MoveToFront
  <2>2. \A id \in CacheId : Recency(id)' = Recency(id)
    BY <2>1, <1>0, RecencyKept
  <2>3. r \in Seq((Str \cup {NULL}) \X (Precision \cup {NULL}))
    BY <1>6, <1>9, <1>12 DEF Mapped
  <2>4. <<r[k]>> \o SubSeq(r, 1, k - 1) \o SubSeq(r, k + 1, Len(r)) = r
    BY <2>3, <1>12, <1>13, SplitAt
  <2>5. Moved = r
    BY <2>4, <1>12
  <2> QED
    BY <2>2, <2>5, <1>2, <1>8
<1>14. CASE k # 1
  <2>1. k \in 2 .. Len(q) /\ k - 1 \in 1 .. Len(q) /\ k - 1 \in 1 .. Len(q) - 1 /\ k - 1 # k
        /\ k - 1 + 1 = k /\ 1 \in 1 .. Len(q)
    BY <1>11, <1>14
  <2>2. ent # newest[c] /\ older[q[k - 1]] = ent /\ q[k - 1] # ent /\ q[k - 1] \in C
    <3>1. q[1] # q[k] /\ q[k - 1] # q[k]
      BY <2>1, <1>11, <1>14
    <3> QED
      BY <3>1, <2>1, <1>7, <1>11
  <2>3. newer[ent] = q[k - 1]
    <3>1. q[k - 1] # oldest[c]
      BY <2>2, <1>0, <1>3, <1>5, <1>8, AddrAssumption DEF ListOf
    <3> QED
      BY <3>1, <2>2, <1>5, <1>8 DEF ListOf
  <2>4. /\ older' = [a \in Addr |-> IF a = ent THEN newest[c]
                                    ELSE IF a = newer[ent] THEN older[ent] ELSE older[a]]
        /\ newest' = [newest EXCEPT ![c] = ent]
    BY <2>2, <1>0, Zenon DEF MoveToFront
  <2>5. C \subseteq Addr
    BY <1>8 DEF Members, Linked
  <2>6. /\ older'[q[k]] = newest[c] /\ older'[q[k - 1]] = older[q[k]]
        /\ \A x \in C \ {q[k - 1], q[k]} : older'[x] = older[x]
    BY <2>2, <2>3, <2>4, <2>5, <1>1, <1>7
  <2>7. newest'[c] = e /\ \A id \in CacheId : id # c => newest'[id] = newest[id]
    BY <2>4, <1>2, <1>8, <1>10
  <2> DEFINE p == <<q[k]>> \o SubSeq(q, 1, k - 1) \o SubSeq(q, k + 1, Len(q))
  <2>8. Threads(q, C, newest[c], older)
    BY <1>6, <1>8
  <2>9. Threads(p, C, q[k], older')
    BY <2>1, <2>6, <2>8, ThreadsMoveToFront
  <2>10. q \in Seq(Addr)
    BY <1>6
  <2>11. Mapped(p, K) = <<K[q[k]]>> \o SubSeq(Mapped(q, K), 1, k - 1)
                                    \o SubSeq(Mapped(q, K), k + 1, Len(Mapped(q, K)))
    BY <2>10, <1>9, MappedToFront
  <2> HIDE DEF p
  <2>12. \A x \in C : K[x] = <<block'[x].str, block'[x].target_bpp>>
    BY <2>5, <1>0, <1>8 DEF KeyOf, Key
  <2>13. Listed(newest'[c], older', block') = Mapped(p, K)
    BY <2>5, <2>7, <2>9, <2>12, <1>7, <1>8, ListedMapped
  <2>14. Recency(c)' = Moved
    <3>1. Mapped(p, K) = Moved
      BY <2>11, <1>7, <1>8, <1>12, Zenon
    <3> QED
      BY <3>1, <2>13, RecencyListed
  <2>15. ASSUME NEW id \in CacheId, id # c PROVE Recency(id)' = Recency(id)
    <3>1. \A x \in Members(id) : x \in Addr /\ x # ent /\ x # newer[ent]
      BY <2>2, <2>3, <2>15, <1>3, <1>8, MembersDisjoint
    <3>2. \A x \in Members(id) : older'[x] = older[x]
      BY <3>1, <2>4
    <3> QED
      BY <3>2, <2>7, <2>15, <1>0, RecencyKept
  <2> QED
    BY <2>14, <2>15
<1> QED
  BY <1>13, <1>14

(* An eviction takes the least recent key off a full list.                 *)
LEMMA EvictOrder ==
    ASSUME IInv, Evict, NEW c \in CacheId, c = req.cache_id
    PROVE  /\ \A id \in CacheId : id # c => Recency(id)' = Recency(id)
           /\ Recency(c)' = SubSeq(Recency(c), 1, CACHE_SIZE - 1)
           /\ Len(Recency(c)) = CACHE_SIZE
<1>1. /\ phase = "makeroom" /\ cache_count[c] = CACHE_SIZE /\ block' = block
      /\ older' = [a \in Addr |-> IF a = newer[oldest[c]] THEN NULL ELSE older[a]]
      /\ newest' = [newest EXCEPT ![c] = IF newest[c] = oldest[c] THEN NULL ELSE newest[c]]
  <2>1. newest \in [CacheId -> Pointer]
    BY DEF IInv, TypeOK, StaticTypeOK
  <2> QED
    BY <2>1, Zenon DEF Evict, Full
<1>2. Members(c) # {} /\ Members(c) = Linked(c)
  BY <1>1, FullCacheHasOldest DEF IInv
<1>3. PICK used : ListOf(Members(c), newest[c], oldest[c], newer, older, used)
  BY DEF IInv, ListInv
<1>4. PICK q : /\ q \in Seq(Addr)
               /\ Threads(q, Members(c), newest[c], older)
               /\ Recency(c) = Mapped(q, KeyOf)
               /\ Len(Recency(c)) = Len(q)
               /\ Len(q) = Cardinality(Members(c))
  BY RecencyNow
<1>5. PICK C, K, nst, out, before, od : /\ C = Members(c) /\ K = KeyOf /\ nst = newest[c]
                                       /\ out = oldest[c] /\ before = newer[out] /\ od = older
  OBVIOUS
<1>6. K \in [Addr -> (Str \cup {NULL}) \X (Precision \cup {NULL})]
  BY <1>5, KeyOfType
<1>7. newest \in [CacheId -> Pointer] /\ older \in [Addr -> Pointer] /\ newer \in [Addr -> Pointer]
  BY DEF IInv, TypeOK, StaticTypeOK
<1>8. C \subseteq Addr /\ NULL \notin C /\ C # {}
  BY <1>2, <1>5, AddrAssumption DEF Members, Linked
<1>9. /\ od[out] = NULL /\ out \in C
      /\ nst # out => before \in C /\ od[before] = out
      /\ nst = out => before = NULL
  BY <1>3, <1>5, <1>8 DEF ListOf
<1>10. Len(q) = CACHE_SIZE
  <2>1. CACHE_SIZE = Cardinality(Members(c)) + 0 /\ IsFiniteSet(Members(c))
    BY <1>1 DEF IInv, CountInv
  <2> QED
    BY <2>1, <1>4, FS_CardinalityType
<1> DEFINE p == SubSeq(q, 1, Len(q) - 1)
           nst2 == IF nst = out THEN NULL ELSE nst
<1>11. Threads(p, C \ {out}, nst2, older')
  <2>1. Threads(q, C, nst, od)
    BY <1>4, <1>5
  <2>2. \A x \in C : x # before => older'[x] = od[x]
    BY <1>1, <1>5, <1>8
  <2>3. nst # out => older'[before] = NULL
    BY <1>1, <1>5, <1>8, <1>9
  <2>4. TakenOff(C, nst, od, out, before, nst2, older')
    BY <2>2, <2>3, <1>8, <1>9 DEF TakenOff
  <2> HIDE DEF nst2
  <2> QED
    BY ONLY <2>1, <2>4, ThreadsDropLast
<1> HIDE DEF nst2
<1>12. newest'[c] = nst2 /\ \A id \in CacheId : id # c => newest'[id] = newest[id]
  BY <1>1, <1>5, <1>7 DEF nst2
<1>13. \A x \in C \ {out} : K[x] = <<block'[x].str, block'[x].target_bpp>>
  BY <1>1, <1>5, <1>8 DEF KeyOf, Key
<1>14. Mapped(p, K) = SubSeq(Mapped(q, K), 1, CACHE_SIZE - 1)
  <2>1. 1 \in 1 .. Len(q) + 1 /\ CACHE_SIZE - 1 \in 1 - 1 .. Len(q)
    BY <1>10, SizeAssumption
  <2>2. ASSUME NEW m \in 1 .. Len(q) + 1, NEW n \in m - 1 .. Len(q)
        PROVE  Mapped(SubSeq(q, m, n), K) = SubSeq(Mapped(q, K), m, n)
    <3>1. q \in Seq(Addr)
      BY <1>4
    <3> QED
      <4> DEFINE T == (Str \cup {NULL}) \X (Precision \cup {NULL})
      <4>1. K \in [Addr -> T]
        BY <1>6
      <4> HIDE DEF T
      <4> QED
        BY ONLY <3>1, <4>1, m \in 1 .. Len(q) + 1, n \in m - 1 .. Len(q), MappedSubSeq
  <2>3. Mapped(SubSeq(q, 1, CACHE_SIZE - 1), K) = SubSeq(Mapped(q, K), 1, CACHE_SIZE - 1)
    BY <2>1, <2>2, Zenon
  <2> QED
    BY <2>3, <1>10
<1> HIDE DEF p
<1>15. Listed(newest'[c], older', block') = Mapped(p, K)
  BY <1>8, <1>11, <1>12, <1>13, ListedMapped
<1>16. Recency(c)' = SubSeq(Recency(c), 1, CACHE_SIZE - 1)
  BY <1>14, <1>15, <1>4, <1>5, RecencyListed
<1>17. ASSUME NEW id \in CacheId, id # c PROVE Recency(id)' = Recency(id)
  <2>1. \A x \in Members(id) : x \in Addr /\ x # before
    BY <1>5, <1>9, <1>17, MembersDisjoint, AddrAssumption
  <2>2. \A x \in Members(id) : older'[x] = older[x]
    BY <2>1, <1>1, <1>5
  <2> QED
    BY <2>2, <1>1, <1>12, <1>17, RecencyKept
<1> QED
  BY <1>4, <1>10, <1>16, <1>17

(* A new entry goes to the front of a list that has room.                  *)
LEMMA InsertOrder ==
    ASSUME IInv, Insert, NEW c \in CacheId, c = req.cache_id
    PROVE  /\ \A id \in CacheId : id # c => Recency(id)' = Recency(id)
           /\ Recency(c)' = <<ReqKey>> \o Recency(c)
           /\ Len(Recency(c)) < CACHE_SIZE
<1>t. block \in [Addr -> Block] /\ newest \in [CacheId -> Pointer] /\ older \in [Addr -> Pointer]
      /\ cache_count[c] \in 0 .. CACHE_SIZE
  BY DEF IInv, TypeOK, StaticTypeOK
<1>1. /\ phase = "insert" /\ older' = [older EXCEPT ![ent] = newest[c]]
      /\ newest' = [newest EXCEPT ![c] = ent]
      /\ block' = [block EXCEPT ![ent] = [block[ent] EXCEPT !.status = "linked", !.cache = c]]
  BY <1>t DEF Insert
<1>2. /\ ent \in Addr /\ block[ent].status = "private"
      /\ block[ent].str = req.str /\ block[ent].target_bpp = req.target_bpp
  BY <1>1 DEF IInv, FillInv, Filling
<1>3. PICK q : /\ q \in Seq(Addr)
               /\ Threads(q, Members(c), newest[c], older)
               /\ Recency(c) = Mapped(q, KeyOf)
               /\ Len(Recency(c)) = Len(q)
               /\ Len(q) = Cardinality(Members(c))
  BY RecencyNow
<1>4. PICK C, K, nst, e, od : C = Members(c) /\ K = KeyOf /\ nst = newest[c] /\ e = ent /\ od = older
  OBVIOUS
<1>5. K \in [Addr -> (Str \cup {NULL}) \X (Precision \cup {NULL})]
  BY <1>4, KeyOfType
<1>6. C \subseteq Addr /\ e \in Addr /\ \A id : e \notin Members(id)
  BY <1>2, <1>4 DEF Members, Linked
<1>7. older'[e] = nst /\ \A a \in Addr : a # e => older'[a] = od[a]
  BY <1>1, <1>2, <1>4, <1>t
<1>8. Threads(<<e>> \o q, C \cup {e}, e, older')
  <2>1. Threads(q, C, nst, od) /\ e \notin C /\ \A x \in C : older'[x] = od[x]
    BY <1>3, <1>4, <1>6, <1>7
  <2> QED
    BY <2>1, <1>7, ThreadsPush
<1>9. newest'[c] = e /\ \A id \in CacheId : id # c => newest'[id] = newest[id]
  BY <1>1, <1>4, <1>t
<1>10. /\ \A a \in Addr : a # e => block'[a] = block[a]
       /\ block'[e].str = block[e].str /\ block'[e].target_bpp = block[e].target_bpp
  BY <1>1, <1>2, <1>4, <1>t DEF Block
<1>11. \A x \in C \cup {e} : K[x] = <<block'[x].str, block'[x].target_bpp>>
  BY <1>4, <1>6, <1>10 DEF KeyOf, Key
<1>12. K[e] = ReqKey
  BY <1>2, <1>4 DEF KeyOf, Key, ReqKey
<1>13. Mapped(<<e>> \o q, K) = <<K[e]>> \o Mapped(q, K)
  <2>1. q \in Seq(Addr) /\ e \in Addr
    BY <1>3, <1>6
  <2> QED
    BY ONLY <2>1, <1>5, MappedPush
<1>14. Listed(newest'[c], older', block') = Mapped(<<e>> \o q, K)
  <2>1. C \cup {e} \subseteq Addr
    BY <1>6
  <2> QED
    BY <2>1, <1>8, <1>9, <1>11, ListedMapped
<1>15. Recency(c)' = <<ReqKey>> \o Recency(c)
  BY <1>12, <1>13, <1>14, <1>3, <1>4, RecencyListed
<1>16. Len(q) < CACHE_SIZE
  <2>1. cache_count[c] = Cardinality(Members(c)) + 1 /\ IsFiniteSet(Members(c))
    BY <1>1 DEF IInv, CountInv
  <2> QED
    BY <2>1, <1>3, <1>t, SizeAssumption, FS_CardinalityType
<1>17. ASSUME NEW id \in CacheId, id # c PROVE Recency(id)' = Recency(id)
  <2>1. \A x \in Members(id) : x \in Addr /\ x # e
    BY <1>6 DEF Members, Linked
  <2>2. \A x \in Members(id) : older'[x] = older[x] /\ block'[x] = block[x]
    BY <2>1, <1>4, <1>7, <1>10
  <2> QED
    BY <2>2, <1>9, <1>17, RecencyKept
<1> QED
  BY <1>3, <1>15, <1>16, <1>17

(* What is looked up and not found is in no list.                          *)
LEMMA NotHeld ==
    ASSUME IInv, phase \in Filling, NEW c \in CacheId, c = req.cache_id
    PROVE  \A i \in DOMAIN Recency(c) : Recency(c)[i] # ReqKey
<1>1. PICK q : /\ Threads(q, Members(c), newest[c], older)
               /\ Recency(c) = Mapped(q, KeyOf)
  BY RecencyNow
<1>2. \A i \in 1 .. Len(q) : q[i] \in Members(c)
  BY <1>1 DEF Threads
<1>3. \A x \in Members(c) : x \in Addr /\ Key(x) # ReqKey
  BY DEF IInv, UniqueInv, Members, Linked
<1>4. \A i \in 1 .. Len(q) : KeyOf[q[i]] # ReqKey
  BY <1>2, <1>3 DEF KeyOf
<1>5. DOMAIN Recency(c) = 1 .. Len(q) /\ \A i \in 1 .. Len(q) : Recency(c)[i] = KeyOf[q[i]]
  BY <1>1 DEF Mapped
<1> QED
  BY <1>4, <1>5

(* The lists of all the caches, and how a step that changes one of them    *)
(* changes them.                                                           *)
Lists == [id \in CacheId |-> Recency(id)]

LEMMA ListsKept ==
    ASSUME \A id \in CacheId : Recency(id)' = Recency(id)
    PROVE  Lists' = Lists
  BY DEF Lists

LEMMA ListsChange ==
    ASSUME NEW c \in CacheId, NEW new,
           \A id \in CacheId : id # c => Recency(id)' = Recency(id),
           Recency(c)' = new
    PROVE  Lists' = [Lists EXCEPT ![c] = new]
  BY DEF Lists

LEMMA ListsAt ==
    ASSUME NEW c \in CacheId
    PROVE  Lists[c] = Recency(c)
  BY DEF Lists

(* The request being served.                                               *)
Asked == IF phase = "idle" THEN NULL ELSE <<req.cache_id, ReqKey>>

LEMMA RequestKnown ==
    ASSUME IInv, phase # "idle"
    PROVE  req.cache_id \in CacheId /\ ReqKey \in CacheKeys /\ Asked = <<req.cache_id, ReqKey>>
  BY DEF IInv, ReqInv, ReqKey, CacheKeys, Asked

(* The operations of LruCache, in these terms.                             *)
LEMMA LruAsk ==
    ASSUME NEW c, NEW k, Asked = NULL, Asked' = <<c, k>>, Lists' = Lists
    PROVE  Lru!Ask(c, k)
  BY DEF Lru!Ask, Asked, Lists, ReqKey

LEMMA LruTouch ==
    ASSUME NEW c, NEW k, NEW i \in DOMAIN Lists[c],
           Asked = <<c, k>>, Asked' = NULL, Lists[c][i] = k,
           Lists' = [Lists EXCEPT ![c] =
                        <<k>> \o SubSeq(Lists[c], 1, i - 1)
                              \o SubSeq(Lists[c], i + 1, Len(Lists[c]))]
    PROVE  Lru!Touch(c, k)
  BY DEF Lru!Touch, Asked, Lists, ReqKey

LEMMA LruDrop ==
    ASSUME NEW c, NEW k, Asked = <<c, k>>, Asked' = Asked,
           \A i \in DOMAIN Lists[c] : Lists[c][i] # k,
           HasValues(k), Len(Lists[c]) = CACHE_SIZE,
           Lists' = [Lists EXCEPT ![c] = SubSeq(Lists[c], 1, CACHE_SIZE - 1)]
    PROVE  Lru!Drop(c, k)
  BY DEF Lru!Drop, Lru!Holds, Asked, Lists, ReqKey

LEMMA LruInsert ==
    ASSUME NEW c, NEW k, Asked = <<c, k>>, Asked' = NULL,
           \A i \in DOMAIN Lists[c] : Lists[c][i] # k,
           HasValues(k), Len(Lists[c]) < CACHE_SIZE,
           Lists' = [Lists EXCEPT ![c] = <<k>> \o Lists[c]]
    PROVE  Lru!Insert(c, k)
  BY DEF Lru!Insert, Lru!Holds, Asked, Lists, ReqKey

LEMMA LruReject ==
    ASSUME NEW c, NEW k, Asked = <<c, k>>, Asked' = NULL, ~HasValues(k), Lists' = Lists
    PROVE  Lru!Reject(c, k)
  BY DEF Lru!Reject, Asked, Lists, ReqKey

LEMMA LruStutter ==
    ASSUME Asked' = Asked, Lists' = Lists
    PROVE  UNCHANGED Lru!lvars
  BY DEF Lru!lvars, Asked, Lists, ReqKey

(* At first every list is empty.                                           *)
LEMMA LruInit == Init => Lru!Init
<1> SUFFICES ASSUME Init PROVE Lru!Init
  OBVIOUS
<1>0. IInv
  BY InitInv
<1>1. ASSUME NEW id \in CacheId PROVE Recency(id) = <<>>
  <2>1. PICK q : Len(q) = Cardinality(Members(id)) /\ Recency(id) = Mapped(q, KeyOf)
    BY <1>0, RecencyNow
  <2>2. Members(id) = {}
    BY DEF Init, Members, Linked, Blank
  <2>3. Len(q) = 0
    BY <2>1, <2>2, FS_EmptySet
  <2> QED
    BY <2>1, <2>3 DEF Mapped
<1>2. phase = "idle"
  BY DEF Init
<1> QED
  BY <1>1, <1>2 DEF Lru!Init

(* Every step is an operation of LruCache, or is not seen by it.           *)
LEMMA LruStep == IInv /\ YieldInv /\ [Next]_cvars => [Lru!Next]_Lru!lvars
<1> SUFFICES ASSUME IInv, YieldInv, [Next]_cvars PROVE [Lru!Next]_Lru!lvars
  OBVIOUS
<1>1. ASSUME NEW c \in CacheId, NEW k \in CacheKeys,
             Lru!Ask(c, k) \/ Lru!Touch(c, k) \/ Lru!Drop(c, k) \/ Lru!Insert(c, k)
               \/ Lru!Reject(c, k)
      PROVE  Lru!Next
  BY <1>1 DEF Lru!Next
<1>2. ASSUME phase # "idle"
      PROVE  /\ req.cache_id \in CacheId /\ ReqKey \in CacheKeys
             /\ Asked = <<req.cache_id, ReqKey>>
  BY <1>2, RequestKnown
<1>3. ASSUME phase # "idle" PROVE \E c \in CacheId : c = req.cache_id /\ Lists[c] = Recency(c)
  BY <1>2, <1>3, ListsAt
<1>4. ASSUME phase \in {"downsample", "makeroom", "unlink", "insert"} PROVE HasValues(ReqKey)
  BY <1>4 DEF YieldInv, Yields, HasValues, ReqKey
<1>5. CASE UNCHANGED cvars
  <2>1. Asked' = Asked
    BY <1>5 DEF cvars, locals, Asked, ReqKey
  <2>2. \A id \in CacheId : Recency(id)' = Recency(id)
    BY <1>5, RecencyKept DEF cvars, static
  <2> QED
    BY <2>1, <2>2, ListsKept, LruStutter
<1>6. CASE CallAny
  <2>1. PICK s \in Str, c \in CacheId :
            \E target \in SET_BPP_MIN .. s.bpp : cache_decode_set(s, target, c)
    BY <1>6 DEF CallAny
  <2>t. PICK t \in SET_BPP_MIN .. s.bpp : cache_decode_set(s, t, c)
    BY <2>1
  <2>2. /\ phase = "idle" /\ phase' = "lookup"
        /\ req' = [str |-> s, target_bpp |-> t, cache_id |-> c]
        /\ UNCHANGED static
    BY <2>t DEF cache_decode_set
  <2>3. <<s, t>> \in CacheKeys
    BY DEF CacheKeys
  <2>4. Asked = NULL /\ Asked' = <<c, <<s, t>>>>
    BY <2>2 DEF Asked, ReqKey
  <2>5. \A id \in CacheId : Recency(id)' = Recency(id)
    BY <2>2, RecencyKept DEF static
  <2>6. Lru!Ask(c, <<s, t>>)
    BY <2>4, <2>5, ListsKept, LruAsk
  <2> QED
    BY <2>3, <2>6, <1>1
<1>7. CASE ProbeNext \/ Allocate \/ DecodeSucceeds \/ DownsampleOnce \/ StoreKey \/ Grow
           \/ WalkBucket \/ FreeVictim
  <2>1. \A id \in CacheId : Recency(id)' = Recency(id)
    BY <1>7, UnseenStep
  <2>2. phase # "idle" /\ phase' # "idle" /\ req' = req
    BY <1>7 DEF ProbeNext, Allocate, DecodeSucceeds, DownsampleOnce, StoreKey, Grow, WalkBucket,
                FreeVictim, AfterVictim
  <2>3. Asked' = Asked
    BY <2>2 DEF Asked, ReqKey
  <2> QED
    BY <2>1, <2>3, ListsKept, LruStutter
<1>8. CASE RejectCapacity \/ DecodeFails
  <2>1. \A id \in CacheId : Recency(id)' = Recency(id)
    BY <1>8, UnseenStep
  <2>2. phase # "idle" /\ phase' = "idle" /\ ~HasValues(ReqKey)
    <3>1. phase # "idle" /\ phase' = "idle" /\ (value_capacity(req.str) < 1 \/ req.str.values = <<>>)
      BY <1>8 DEF RejectCapacity, DecodeFails, Return
    <3>2. req.str \in Str /\ value_capacity(req.str) \in Nat
      BY <3>1, CapacityNat DEF IInv, ReqInv
    <3>3. ReqKey[1] = req.str
      BY DEF ReqKey
    <3>4. ~(value_capacity(req.str) >= 1 /\ req.str.values # <<>>)
      BY <3>1, <3>2
    <3> QED
      BY <3>1, <3>3, <3>4 DEF HasValues
  <2>3. Asked' = NULL
    BY <2>2 DEF Asked
  <2>4. Lru!Reject(req.cache_id, ReqKey)
    BY <2>1, <2>2, <2>3, <1>2, ListsKept, LruReject
  <2> QED
    BY <2>2, <2>4, <1>1, <1>2
<1>9. CASE Hit
  <2>1. phase # "idle" /\ phase' = "idle"
    BY <1>9 DEF Hit, Return
  <2>2. Asked' = NULL
    BY <2>1 DEF Asked
  <2>3. PICK c \in CacheId : c = req.cache_id /\ Lists[c] = Recency(c)
    BY <2>1, <1>3
  <2>4. PICK k, r : k = ReqKey /\ r = Recency(c)
    OBVIOUS
  <2>5. /\ \A id \in CacheId : id # c => Recency(id)' = Recency(id)
        /\ \E i \in DOMAIN r :
              /\ r[i] = k
              /\ Recency(c)' = <<k>> \o SubSeq(r, 1, i - 1) \o SubSeq(r, i + 1, Len(r))
    BY <2>3, <2>4, <1>9, HitOrder, Zenon
  <2>6. PICK i \in DOMAIN r :
              /\ r[i] = k
              /\ Recency(c)' = <<k>> \o SubSeq(r, 1, i - 1) \o SubSeq(r, i + 1, Len(r))
    BY <2>5
  <2>7. Lists' = [Lists EXCEPT ![c] =
                     <<k>> \o SubSeq(r, 1, i - 1) \o SubSeq(r, i + 1, Len(r))]
    BY <2>5, <2>6, ListsChange
  <2>8. Asked = <<c, k>> /\ Lists[c] = r
    BY <2>1, <2>3, <2>4, <1>2
  <2>9. Lru!Touch(c, k)
    BY <2>2, <2>6, <2>7, <2>8, LruTouch
  <2> QED
    BY <2>1, <2>4, <2>9, <1>1, <1>2
<1>10. CASE Evict
  <2>1. phase = "makeroom" /\ phase' = "unlink" /\ req' = req
    BY <1>10 DEF Evict
  <2>2. Asked' = Asked
    BY <2>1 DEF Asked, ReqKey
  <2>3. PICK c \in CacheId : c = req.cache_id /\ Lists[c] = Recency(c)
    BY <2>1, <1>3
  <2>4. PICK k, r : k = ReqKey /\ r = Recency(c)
    OBVIOUS
  <2>5. /\ \A id \in CacheId : id # c => Recency(id)' = Recency(id)
        /\ Recency(c)' = SubSeq(r, 1, CACHE_SIZE - 1)
        /\ Len(r) = CACHE_SIZE
    BY <2>3, <2>4, <1>10, EvictOrder
  <2>6. \A i \in DOMAIN r : r[i] # k
    BY <2>1, <2>3, <2>4, NotHeld DEF Filling
  <2>7. Lists' = [Lists EXCEPT ![c] = SubSeq(r, 1, CACHE_SIZE - 1)]
    BY <2>5, ListsChange
  <2>8. Asked = <<c, k>> /\ Lists[c] = r /\ HasValues(k) /\ k \in CacheKeys
    BY <2>1, <2>3, <2>4, <1>2, <1>4
  <2>9. Lru!Drop(c, k)
    BY <2>2, <2>5, <2>6, <2>7, <2>8, LruDrop
  <2> QED
    BY <2>8, <2>9, <1>1
<1>11. CASE Insert
  <2>1. phase = "insert" /\ phase' = "idle"
    BY <1>11 DEF Insert, Return
  <2>2. Asked' = NULL
    BY <2>1 DEF Asked
  <2>3. PICK c \in CacheId : c = req.cache_id /\ Lists[c] = Recency(c)
    BY <2>1, <1>3
  <2>4. PICK k, r : k = ReqKey /\ r = Recency(c)
    OBVIOUS
  <2>5. /\ \A id \in CacheId : id # c => Recency(id)' = Recency(id)
        /\ Recency(c)' = <<k>> \o r
        /\ Len(r) < CACHE_SIZE
    BY <2>3, <2>4, <1>11, InsertOrder
  <2>6. \A i \in DOMAIN r : r[i] # k
    BY <2>1, <2>3, <2>4, NotHeld DEF Filling
  <2>7. Lists' = [Lists EXCEPT ![c] = <<k>> \o r]
    BY <2>5, ListsChange
  <2>8. Asked = <<c, k>> /\ Lists[c] = r /\ HasValues(k) /\ k \in CacheKeys
    BY <2>1, <2>3, <2>4, <1>2, <1>4
  <2>9. Lru!Insert(c, k)
    BY <2>2, <2>5, <2>6, <2>7, <2>8, LruInsert
  <2> QED
    BY <2>8, <2>9, <1>1
<1> QED
  BY <1>5, <1>6, <1>7, <1>8, <1>9, <1>10, <1>11 DEF Next, CacheStep

(* Each cache, through its pointers, is the list of keys in order of use   *)
(* that LruCache describes: a hit moves its key to the front, a new key    *)
(* enters there, only a full cache gives one up and then the least recent, *)
(* and what cannot be decoded changes nothing (set9.c:549-687).            *)
THEOREM CachesAreLru == Spec => ImplementsLru
<1>1. Init => YieldInv
  BY DEF Init, Blank, YieldInv
<1>2. Spec => [](IInv /\ YieldInv)
  BY <1>1, InitInv, NextInv, YieldNext, PTL DEF Spec
<1> QED
  BY <1>2, LruInit, LruStep, PTL DEF Spec, ImplementsLru, Lru!Spec

-----------------------------------------------------------------------------
(***************************************************************************)
(* rpmsetcmp only calls cache_decode_set as it may be called, so all that  *)
(* is proved of the caches holds here too; and the pointer it keeps to the *)
(* first array is safe, because what the second fetch frees or fills is    *)
(* never an entry of the first cache.  So what it compares are the arrays  *)
(* of its two arguments, and its answer is SetVersion's.                   *)
(***************************************************************************)

(* Block p is an entry of cache id with the n values of s at the target.   *)
Holds(id, p, n, s) ==
    /\ p \in Linked(id)
    /\ block[p].hash_arr = Decoded[s][target_bpp]
    /\ n = Len(Decoded[s][target_bpp])

(* What rpmsetcmp knows at each of its steps.                              *)
ArgsInv ==
    /\ pc \in {"idle", "headers", "decode1", "decode2", "compare"}
    /\ pc \notin {"decode1", "decode2"} => phase = "idle"
    /\ args \in Seq(Arg)
    /\ pc # "idle" => str1 \in Str /\ str2 \in Str
    /\ pc \in {"decode1", "decode2", "compare"} => set_meta_init(str1) /\ set_meta_init(str2)

FetchInv ==
    /\ pc = "decode1" /\ phase # "idle" =>
          req.str = str1 /\ req.target_bpp = target_bpp /\ req.cache_id = 0
    /\ pc = "decode1" /\ phase = "idle" /\ ret.cnt >= 0 =>
          Holds(0, ret.hash_pt, ret.cnt, str1)
    /\ pc = "decode2" /\ phase # "idle" =>
          req.str = str2 /\ req.target_bpp = target_bpp /\ req.cache_id = 1
    /\ pc = "decode2" /\ phase = "idle" /\ ret.cnt >= 0 =>
          Holds(1, ret.hash_pt, ret.cnt, str2)

HoldInv ==
    /\ pc \in {"decode2", "compare"} => Holds(0, hash_arr1, cnt1, str1)
    /\ pc = "compare" => Holds(1, hash_arr2, cnt2, str2)

CmpInv == IInv /\ ArgsInv /\ FetchInv /\ HoldInv

(* The comparison is made at a precision both strings have.                *)
LEMMA TargetInRange ==
    ASSUME ArgsInv, pc # "idle", set_meta_init(str1), set_meta_init(str2)
    PROVE  target_bpp \in SET_BPP_MIN .. str1.bpp /\ target_bpp \in SET_BPP_MIN .. str2.bpp
<1>1. str1.bpp \in SET_BPP_MIN .. SET_BPP_MAX /\ str2.bpp \in SET_BPP_MIN .. SET_BPP_MAX
  BY DEF set_meta_init
<1> QED
  BY <1>1 DEF target_bpp, SET_BPP_MIN, SET_BPP_MAX

(* A step of a fetch touches entries of no cache but the one it fetches    *)
(* into.                                                                   *)
LEMMA OtherCacheUntouched ==
    ASSUME IInv, CacheStep, NEW i \in CacheId, i # req.cache_id, NEW x \in Linked(i)
    PROVE  block'[x] = block[x]
<1>1. x \in Addr /\ block[x].status = "linked" /\ block[x].cache = i
  BY DEF Linked
<1>t. block \in [Addr -> Block]
  BY DEF IInv, TypeOK, StaticTypeOK
<1>2. CASE ProbeNext \/ Hit \/ RejectCapacity \/ Grow \/ Evict \/ WalkBucket
  BY <1>2 DEF ProbeNext, Hit, RejectCapacity, Grow, Evict, WalkBucket, static
<1>3. CASE Allocate
  <2>1. PICK a \in Addr : block[a].status = "free"
                          /\ block' = [block EXCEPT ![a] = [block[a] EXCEPT !.status = "private"]]
    BY <1>3, <1>t DEF Allocate
  <2> QED
    BY <2>1, <1>1, <1>t
<1>4. ASSUME phase \in Filling PROVE ent # x
  BY <1>1, <1>4 DEF IInv, FillInv
<1>5. CASE DecodeFails
  BY <1>1, <1>4, <1>5, <1>t DEF DecodeFails, Filling
<1>6. CASE DecodeSucceeds
  BY <1>1, <1>4, <1>6, <1>t DEF DecodeSucceeds, Filling
<1>7. CASE DownsampleOnce
  BY <1>1, <1>4, <1>7, <1>t DEF DownsampleOnce, Filling
<1>8. CASE StoreKey
  BY <1>1, <1>4, <1>8, <1>t DEF StoreKey, Filling
<1>9. CASE FreeVictim
  <2>1. victim # x
    BY <1>1, <1>9, VictimHashed DEF FreeVictim, AfterVictim, Linked
  <2>2. block' = [block EXCEPT ![victim] = Blank]
    BY <1>9 DEF FreeVictim, AfterVictim
  <2> QED
    BY <2>1, <2>2, <1>1, <1>t
<1>10. CASE Insert
  <2>1. ent # x
    BY <1>4, <1>10 DEF Insert, Filling
  <2>2. block' = [block EXCEPT ![ent] = [block[ent] EXCEPT !.status = "linked",
                                                           !.cache = req.cache_id]]
    BY <1>10, <1>t DEF Insert
  <2> QED
    BY <2>1, <2>2, <1>1, <1>t
<1> QED
  BY <1>2, <1>3, <1>5, <1>6, <1>7, <1>8, <1>9, <1>10 DEF CacheStep

(* What the steps of a fetch keep.                                         *)
LEMMA FetchKeepsRequest ==
    ASSUME CacheStep
    PROVE  phase # "idle" /\ (phase' = "idle" \/ req' = req)
<1>1. CASE ProbeNext \/ Allocate \/ DecodeSucceeds \/ DownsampleOnce
  BY <1>1 DEF ProbeNext, Allocate, DecodeSucceeds, DownsampleOnce
<1>2. CASE StoreKey \/ Grow \/ Evict \/ WalkBucket \/ FreeVictim
  BY <1>2 DEF StoreKey, Grow, Evict, WalkBucket, FreeVictim, AfterVictim
<1>3. CASE Hit \/ RejectCapacity \/ DecodeFails \/ Insert
  BY <1>3 DEF Hit, RejectCapacity, DecodeFails, Insert, Return
<1> QED
  BY <1>1, <1>2, <1>3 DEF CacheStep

(* What is held through a step that leaves its block and the arguments.    *)
LEMMA HoldsKept ==
    ASSUME NEW i, NEW p, NEW n, NEW s, Holds(i, p, n, s), p \in Linked(i)',
           block'[p] = block[p], target_bpp' = target_bpp
    PROVE  p \in Linked(i)' /\ block'[p].hash_arr = Decoded[s][target_bpp']
           /\ n = Len(Decoded[s][target_bpp'])
  BY DEF Holds

LEMMA CmpInitInv == CmpInit => CmpInv
<1> SUFFICES ASSUME CmpInit PROVE CmpInv
  OBVIOUS
<1>1. IInv
  BY InitInv DEF CmpInit
<1>2. pc = "idle" /\ phase = "idle" /\ args = <<>>
  BY DEF CmpInit, Init
<1> QED
  BY <1>1, <1>2 DEF CmpInv, ArgsInv, FetchInv, HoldInv

(* A step of rpmsetcmp itself that ends its call.                          *)
LEMMA FinishInv ==
    ASSUME CmpInv, UNCHANGED cvars, phase = "idle", NEW value, Finish(value)
    PROVE  CmpInv'
<1>1. IInv'
  BY NextInv DEF CmpInv
<1>2. pc' = "idle" /\ phase' = "idle" /\ args' = args
  BY DEF Finish, cvars, locals
<1> QED
  BY <1>1, <1>2 DEF CmpInv, ArgsInv, FetchInv, HoldInv

LEMMA CmpNextInv == CmpInv /\ [CmpNext]_vars => CmpInv'
<1> SUFFICES ASSUME CmpInv, [CmpNext]_vars PROVE CmpInv'
  OBVIOUS
<1>0. IInv /\ ArgsInv /\ FetchInv /\ HoldInv
  BY DEF CmpInv
<1>1. CASE RejectHeader
  <2>1. phase = "idle" /\ UNCHANGED cvars
    BY <1>0, <1>1 DEF RejectHeader, ArgsInv
  <2> QED
    BY <2>1, <1>1, FinishInv DEF RejectHeader
<1>2. CASE RejectFirst
  BY <1>2, FinishInv DEF RejectFirst
<1>3. CASE SameString
  BY <1>3, FinishInv DEF SameString, Fetched
<1>4. CASE RejectSecond
  BY <1>4, FinishInv DEF RejectSecond
<1>5. CASE Compare
  <2>1. phase = "idle" /\ UNCHANGED cvars
    BY <1>0, <1>5 DEF Compare, ArgsInv
  <2> QED
    BY <2>1, <1>5, FinishInv DEF Compare
<1>6. CASE Decode1
  <2>1. /\ pc = "headers" /\ pc' = "decode1" /\ args' = args
        /\ set_meta_init(str1) /\ set_meta_init(str2)
        /\ cache_decode_set(str1, target_bpp, 0)
    BY <1>6 DEF Decode1
  <2>2. str1' = str1 /\ str2' = str2 /\ target_bpp' = target_bpp
    BY <2>1 DEF str1, str2, target_bpp
  <2>3. str1 \in Str /\ target_bpp \in SET_BPP_MIN .. str1.bpp /\ 0 \in CacheId
    BY <2>1, <1>0, TargetInRange, CacheIdAssumption DEF ArgsInv
  <2>4. IInv'
    BY <2>1, <2>3, <1>0, NextInv DEF Next, CallAny
  <2>5. /\ phase' = "lookup" /\ req'.str = str1 /\ req'.target_bpp = target_bpp
        /\ req'.cache_id = 0
    BY <2>1 DEF cache_decode_set
  <2>6. ArgsInv'
    BY <2>1, <2>2, <1>0 DEF ArgsInv
  <2> QED
    BY <2>1, <2>2, <2>4, <2>5, <2>6 DEF CmpInv, FetchInv, HoldInv
<1>7. CASE Decode2
  <2>1. /\ pc = "decode1" /\ pc' = "decode2" /\ args' = args /\ phase = "idle" /\ ret.cnt >= 0
        /\ hash_arr1' = ret.hash_pt /\ cnt1' = ret.cnt
        /\ cache_decode_set(str2, target_bpp, 1)
    BY <1>7 DEF Decode2, Fetched, SecondCache
  <2>2. str1' = str1 /\ str2' = str2 /\ target_bpp' = target_bpp
    BY <2>1 DEF str1, str2, target_bpp
  <2>3. str2 \in Str /\ set_meta_init(str2) /\ target_bpp \in SET_BPP_MIN .. str2.bpp
        /\ 1 \in CacheId
    BY <2>1, <1>0, TargetInRange, CacheIdAssumption DEF ArgsInv
  <2>4. IInv'
    BY <2>1, <2>3, <1>0, NextInv DEF Next, CallAny
  <2>5. /\ phase' = "lookup" /\ req'.str = str2 /\ req'.target_bpp = target_bpp
        /\ req'.cache_id = 1 /\ block' = block
    BY <2>1 DEF cache_decode_set, static
  <2>6. ArgsInv'
    BY <2>1, <2>2, <1>0 DEF ArgsInv
  <2>7. Holds(0, hash_arr1, cnt1, str1)'
    BY <2>1, <2>2, <2>5, <1>0 DEF FetchInv, Holds, Linked
  <2> QED
    BY <2>1, <2>2, <2>4, <2>5, <2>6, <2>7 DEF CmpInv, FetchInv, HoldInv
<1>8. CASE Decoded2
  <2>1. /\ pc = "decode2" /\ pc' = "compare" /\ args' = args /\ phase = "idle" /\ ret.cnt >= 0
        /\ hash_arr2' = ret.hash_pt /\ cnt2' = ret.cnt /\ hash_arr1' = hash_arr1
        /\ cnt1' = cnt1 /\ UNCHANGED cvars
    BY <1>8 DEF Decoded2, Fetched
  <2>2. str1' = str1 /\ str2' = str2 /\ target_bpp' = target_bpp
    BY <2>1 DEF str1, str2, target_bpp
  <2>3. phase' = "idle" /\ block' = block
    BY <2>1 DEF cvars, static, locals
  <2>4. IInv'
    BY <2>1, <1>0, NextInv
  <2>5. ArgsInv'
    BY <2>1, <2>2, <2>3, <1>0 DEF ArgsInv
  <2>6. Holds(0, hash_arr1, cnt1, str1)' /\ Holds(1, hash_arr2, cnt2, str2)'
    BY <2>1, <2>2, <2>3, <1>0 DEF FetchInv, HoldInv, Holds, Linked
  <2> QED
    BY <2>1, <2>4, <2>5, <2>6 DEF CmpInv, FetchInv, HoldInv
<1>9. CASE CacheStep /\ UNCHANGED mine
  <2>1. /\ pc' = pc /\ args' = args /\ hash_arr1' = hash_arr1 /\ hash_arr2' = hash_arr2
        /\ cnt1' = cnt1 /\ cnt2' = cnt2
    BY <1>9 DEF mine
  <2>2. str1' = str1 /\ str2' = str2 /\ target_bpp' = target_bpp
    BY <2>1 DEF str1, str2, target_bpp
  <2>3. phase # "idle" /\ (phase' = "idle" \/ req' = req)
    BY <1>9, FetchKeepsRequest
  <2>4. pc \in {"decode1", "decode2"}
    BY <2>3, <1>0 DEF ArgsInv
  <2>5. IInv'
    BY <1>0, <1>9, NextInv DEF Next
  <2>6. ArgsInv'
    BY <2>1, <2>2, <2>4, <1>0 DEF ArgsInv
  <2>7. \A i, p : p \in Linked(i)' <=> p \in Addr /\ block'[p].status = "linked"
                                                 /\ block'[p].cache = i
    BY DEF Linked
  <2>8. ASSUME phase' = "idle", ret'.cnt >= 0, NEW s, NEW i,
               req.str = s, req.target_bpp = target_bpp, req.cache_id = i
        PROVE  Holds(i, ret.hash_pt, ret.cnt, s)'
    <3>1. Answered
      <4>1. [Answered]_cvars
        BY <1>0, <1>9, ReturnsAnswer DEF Next
      <4> QED
        BY <4>1, <2>3, <2>8 DEF cvars, locals
    <3>2. /\ ret'.hash_pt \in Addr /\ block'[ret'.hash_pt].status = "linked"
          /\ block'[ret'.hash_pt].cache = i
          /\ block'[ret'.hash_pt].hash_arr = Decoded[s][target_bpp]
          /\ ret'.cnt = Len(Decoded[s][target_bpp])
      BY <3>1, <2>3, <2>8 DEF Answered
    <3> QED
      BY <3>2, <2>2, <2>7 DEF Holds
  <2>9. pc = "decode2" => Holds(0, hash_arr1, cnt1, str1)'
    <3> SUFFICES ASSUME pc = "decode2" PROVE Holds(0, hash_arr1, cnt1, str1)'
      OBVIOUS
    <3>1. Holds(0, hash_arr1, cnt1, str1) /\ req.cache_id = 1
      BY <2>3, <1>0 DEF HoldInv, FetchInv
    <3>2. block'[hash_arr1] = block[hash_arr1]
      BY <3>1, <1>0, <1>9, CacheIdAssumption, OtherCacheUntouched DEF Holds
    <3> QED
      BY <3>1, <3>2, <2>1, <2>2 DEF Holds, Linked
  <2>10. HoldInv'
    BY <2>1, <2>4, <2>9 DEF HoldInv
  <2>11. CASE pc = "decode1"
    <3>1. req.str = str1 /\ req.target_bpp = target_bpp /\ req.cache_id = 0
      BY <2>3, <2>11, <1>0 DEF FetchInv
    <3>2. phase' = "idle" /\ ret'.cnt >= 0 => Holds(0, ret.hash_pt, ret.cnt, str1)'
      BY <3>1, <2>2, <2>8 DEF Holds
    <3> QED
      BY <3>1, <3>2, <2>1, <2>2, <2>3, <2>5, <2>6, <2>10, <2>11 DEF CmpInv, FetchInv
  <2>12. CASE pc = "decode2"
    <3>1. req.str = str2 /\ req.target_bpp = target_bpp /\ req.cache_id = 1
      BY <2>3, <2>12, <1>0 DEF FetchInv
    <3>2. phase' = "idle" /\ ret'.cnt >= 0 => Holds(1, ret.hash_pt, ret.cnt, str2)'
      BY <3>1, <2>2, <2>8 DEF Holds
    <3> QED
      BY <3>1, <3>2, <2>1, <2>2, <2>3, <2>5, <2>6, <2>10, <2>12 DEF CmpInv, FetchInv
  <2> QED
    BY <2>4, <2>11, <2>12
<1>10. CASE \E arg1, arg2 \in Arg : Call(arg1, arg2)
  <2>1. PICK arg1 \in Arg, arg2 \in Arg : Call(arg1, arg2)
    BY <1>10
  <2>2. pc = "idle" /\ pc' = "headers" /\ args' = <<arg1, arg2>> /\ UNCHANGED cvars
    BY <2>1 DEF Call
  <2>3. phase' = "idle"
    BY <2>2, <1>0 DEF ArgsInv, cvars, locals
  <2>4. IInv'
    BY <2>2, <1>0, NextInv
  <2>5. str1' = arg1.body /\ str2' = arg2.body
    BY <2>2 DEF str1, str2
  <2>6. ArgsInv'
    BY <2>2, <2>3, <2>5, ArgAssumption DEF ArgsInv
  <2> QED
    BY <2>2, <2>4, <2>6 DEF CmpInv, FetchInv, HoldInv
<1>11. CASE UNCHANGED vars
  <2>1. /\ pc' = pc /\ args' = args /\ hash_arr1' = hash_arr1 /\ hash_arr2' = hash_arr2
        /\ cnt1' = cnt1 /\ cnt2' = cnt2 /\ UNCHANGED cvars
    BY <1>11 DEF vars, mine
  <2>2. str1' = str1 /\ str2' = str2 /\ target_bpp' = target_bpp
    BY <2>1 DEF str1, str2, target_bpp
  <2>3. phase' = phase /\ req' = req /\ ret' = ret /\ block' = block
    BY <2>1 DEF cvars, static, locals
  <2>4. IInv'
    BY <2>1, <1>0, NextInv
  <2>5. ArgsInv'
    BY <2>1, <2>2, <2>3, <1>0 DEF ArgsInv
  <2>6. FetchInv' /\ HoldInv'
    BY <2>1, <2>2, <2>3, <1>0 DEF FetchInv, HoldInv, Holds, Linked
  <2> QED
    BY <2>4, <2>5, <2>6 DEF CmpInv
<1> QED
  BY <1>1, <1>2, <1>3, <1>4, <1>5, <1>6, <1>7, <1>8, <1>9, <1>10, <1>11 DEF CmpNext, CmpStep

LEMMA CmpInvariance == CmpSpec => []CmpInv
  BY CmpInitInv, CmpNextInv, PTL DEF CmpSpec

(* rpmsetcmp's own variables keep their types.                             *)
LEMMA CmpTypeNext == CmpInv /\ CmpTypeOK /\ [CmpNext]_vars => CmpTypeOK'
<1> SUFFICES ASSUME CmpInv, CmpTypeOK, [CmpNext]_vars PROVE CmpTypeOK'
  OBVIOUS
<1>1. TypeOK' /\ args' \in Seq(Arg)
      /\ pc' \in {"idle", "headers", "decode1", "decode2", "compare"}
  BY CmpNextInv DEF CmpInv, IInv, ArgsInv
<1>2. /\ hash_arr1 \in Pointer /\ hash_arr2 \in Pointer /\ cnt1 \in Nat /\ cnt2 \in Nat
      /\ result \in -4 .. 1 /\ ret.cnt \in Int /\ ret.hash_pt \in Pointer
  BY DEF CmpTypeOK, TypeOK, LocalTypeOK
<1>3. ASSUME NEW value \in -4 .. 1, Finish(value) PROVE CmpTypeOK'
  <2>1. NULL \in Pointer
    BY DEF Pointer
  <2> QED
    BY <1>1, <1>3, <2>1 DEF Finish, CmpTypeOK
<1>4. ASSUME UNCHANGED <<hash_arr1, hash_arr2, cnt1, cnt2, result>> PROVE CmpTypeOK'
  BY <1>1, <1>2, <1>4 DEF CmpTypeOK
<1>5. CASE RejectHeader \/ RejectFirst \/ SameString \/ RejectSecond
  <2>1. PICK value \in {-3, -4, 0} : Finish(value)
    BY <1>5 DEF RejectHeader, RejectFirst, SameString, Fetched, RejectSecond
  <2> QED
    BY <2>1, <1>3
<1>6. CASE Compare
  <2> DEFINE value == Relation(block[hash_arr1].hash_arr, cnt1, block[hash_arr2].hash_arr, cnt2)
  <2>1. value \in {0, -2, 1, -1}
    BY <1>2 DEF Relation
  <2>2. Finish(value)
    BY <1>6 DEF Compare
  <2> HIDE DEF value
  <2> QED
    BY <2>1, <2>2, <1>3
<1>7. CASE Decode1 \/ (CacheStep /\ UNCHANGED mine)
           \/ (\E arg1, arg2 \in Arg : Call(arg1, arg2)) \/ UNCHANGED vars
  <2>1. UNCHANGED <<hash_arr1, hash_arr2, cnt1, cnt2, result>>
    BY <1>7 DEF Decode1, mine, vars, Call
  <2> QED
    BY <2>1, <1>4
<1>8. CASE Decode2
  <2>1. /\ hash_arr1' = ret.hash_pt /\ cnt1' = ret.cnt /\ ret.cnt >= 0
        /\ hash_arr2' = hash_arr2 /\ cnt2' = cnt2 /\ result' = result
    BY <1>8 DEF Decode2, Fetched, SecondCache
  <2> QED
    BY <2>1, <1>1, <1>2 DEF CmpTypeOK
<1>9. CASE Decoded2
  <2>1. /\ hash_arr2' = ret.hash_pt /\ cnt2' = ret.cnt /\ ret.cnt >= 0
        /\ hash_arr1' = hash_arr1 /\ cnt1' = cnt1 /\ result' = result
    BY <1>9 DEF Decoded2, Fetched
  <2> QED
    BY <2>1, <1>1, <1>2 DEF CmpTypeOK
<1> QED
  BY <1>5, <1>6, <1>7, <1>8, <1>9 DEF CmpNext, CmpStep

(* The state of rpmsetcmp and of both caches is always one the             *)
(* declarations allow, and every answer is one of the six of the interface.*)
THEOREM CmpTypeCorrect == CmpSpec => []CmpTypeOK
<1>1. CmpInit => CmpTypeOK
  <2>1. CmpInit => TypeOK
    BY InitInv DEF CmpInit, IInv
  <2> QED
    BY <2>1 DEF CmpInit, CmpTypeOK, Pointer
<1> QED
  BY <1>1, CmpTypeNext, CmpInvariance, PTL DEF CmpSpec

(* Wherever rpmsetcmp reads an array through a pointer it keeps, the       *)
(* pointer leads to an entry that holds the values of its own operand at   *)
(* the precision of the comparison, whatever was fetched in between.       *)
THEOREM PointersHold == CmpSpec => []HeldArrays
<1>1. CmpInv => HeldArrays
  BY DEF CmpInv, HoldInv, HeldArrays, Holds, Linked, IsLive
<1> QED
  BY <1>1, CmpInvariance, PTL

(* Every array that is cached for an argument is the set of its values     *)
(* truncated to the precision asked for: by induction on the bits removed. *)
LEMMA DecodedCorrect ==
    ASSUME NEW arg \in Arg, set_meta_init(arg.body), NEW t \in SET_BPP_MIN .. arg.body.bpp
    PROVE  /\ Decoded[arg.body][t] \in Seq(Nat)
           /\ Ascending(Decoded[arg.body][t])
           /\ Range(Decoded[arg.body][t]) =
                 {arg.body.values[i] % 2^t : i \in DOMAIN arg.body.values}
<1> DEFINE s == arg.body
           values == s.values
           D(b) == Decoded[s][b]
           Reduced(b) == /\ D(b) \in Seq(Nat)
                         /\ Ascending(D(b))
                         /\ Range(D(b)) = {values[i] % 2^b : i \in DOMAIN values}
                         /\ \A i \in 1 .. Len(D(b)) : D(b)[i] < 2^b
           S == {k \in Nat : s.bpp - k \in SET_BPP_MIN .. s.bpp => Reduced(s.bpp - k)}
<1>1. s \in Str
  BY ArgAssumption
<1>2. s.bpp \in 10 .. 32
  BY DEF set_meta_init, SET_BPP_MIN, SET_BPP_MAX
<1>3. /\ \A b \in SET_BPP_MIN .. s.bpp : D(b) \in Seq(Nat)
      /\ D(s.bpp) = values
      /\ \A b \in SET_BPP_MIN .. s.bpp - 1 : D(b) = downsample_set(D(b + 1), b)
  BY <1>1, DecodedAssumption
<1>4. values \in Seq(Nat) /\ Ascending(values) /\ \A i \in 1 .. Len(values) : values[i] < 2^s.bpp
  <2>1. s.bpp \in SET_BPP_MIN .. s.bpp
    BY <1>2 DEF SET_BPP_MIN
  <2>2. values \in Seq(Nat)
    BY <2>1, <1>3
  <2>3. Ascending(values) /\ \A i \in 1 .. Len(values) : values[i] < 2^s.bpp
    BY WrittenAssumption, Zenon
  <2> QED
    BY <2>2, <2>3
<1> HIDE DEF s, values, D
<1>5. Reduced(s.bpp)
  <2>1. s.bpp \in 0 .. 38
    BY <1>2
  <2>5. 2^s.bpp \in Nat \ {0}
    BY <2>1, Powers
  <2>2. DOMAIN values = 1 .. Len(values) /\ \A i \in 1 .. Len(values) : values[i] \in Nat
    BY <1>4
  <2>3. \A i \in 1 .. Len(values) : values[i] % 2^s.bpp = values[i]
    <3> DEFINE d == 2^s.bpp
    <3> HIDE DEF d
    <3> TAKE i \in 1 .. Len(values)
    <3>1. d \in Nat \ {0} /\ values[i] \in Nat /\ values[i] < d /\ values[i] < 2 * d
      BY <2>5, <2>2, <1>4 DEF d
    <3>2. values[i] % d = values[i]
      BY <3>1, Masking
    <3> QED
      BY <3>2 DEF d
  <2>4. Range(values) = {values[i] % 2^s.bpp : i \in DOMAIN values}
    BY <2>2, <2>3 DEF Range
  <2> QED
    BY <2>4, <1>3, <1>4, Zenon
<1>6. ASSUME NEW b \in SET_BPP_MIN .. s.bpp - 1, Reduced(b + 1) PROVE Reduced(b)
  <2>1. b \in 0 .. 38 /\ D(b) = downsample_set(D(b + 1), b)
    <3>1. b \in 0 .. 38
      BY <1>2 DEF SET_BPP_MIN
    <3> QED
      BY <3>1, <1>3
  <2> DEFINE arr == D(b + 1)
  <2>2. /\ D(b) \in Seq(Nat)
        /\ Ascending(D(b))
        /\ Range(D(b)) = {arr[i] % 2^b : i \in 1 .. Len(arr)}
        /\ \A i \in 1 .. Len(D(b)) : D(b)[i] < 2^b
    BY <2>1, <1>6, DownsampleCorrect
  <2>3. DOMAIN arr = 1 .. Len(arr)
    BY <1>6
  <2>4. Range(arr) = {values[i] % 2^(b + 1) : i \in DOMAIN values}
    BY <1>6
  <2> HIDE DEF arr
  <2>5. {arr[i] % 2^b : i \in 1 .. Len(arr)} = {x % 2^b : x \in Range(arr)}
    BY <2>3 DEF Range
  <2>6. {x % 2^b : x \in Range(arr)} = {(values[i] % 2^(b + 1)) % 2^b : i \in DOMAIN values}
    BY <2>4
  <2>7. \A i \in DOMAIN values : (values[i] % 2^(b + 1)) % 2^b = values[i] % 2^b
    <3> TAKE i \in DOMAIN values
    <3>1. values[i] \in Nat
      BY <1>4
    <3> QED
      BY <3>1, <2>1, Retruncation
  <2>8. {(values[i] % 2^(b + 1)) % 2^b : i \in DOMAIN values}
            = {values[i] % 2^b : i \in DOMAIN values}
    BY <2>7
  <2> QED
    BY <2>2, <2>5, <2>6, <2>8
<1> HIDE DEF Reduced
<1>7. 0 \in S
  BY <1>5, <1>2
<1>8. ASSUME NEW k \in Nat, k \in S PROVE k + 1 \in S
  <2> SUFFICES ASSUME s.bpp - (k + 1) \in SET_BPP_MIN .. s.bpp PROVE Reduced(s.bpp - (k + 1))
    OBVIOUS
  <2> DEFINE b == s.bpp - (k + 1)
  <2>1. b \in SET_BPP_MIN .. s.bpp - 1 /\ s.bpp - k = b + 1 /\ b + 1 \in SET_BPP_MIN .. s.bpp
    BY <1>2 DEF SET_BPP_MIN
  <2> HIDE DEF b
  <2>2. Reduced(b + 1)
    BY <2>1, <1>8
  <2>3. Reduced(b)
    BY <2>1, <2>2, <1>6
  <2> QED
    BY <2>3 DEF b
<1> HIDE DEF S
<1>9. \A k \in Nat : k \in S
  BY <1>7, <1>8, Induct
<1>10. Reduced(t)
  <2>1. s.bpp - t \in Nat /\ s.bpp - (s.bpp - t) = t /\ t \in SET_BPP_MIN .. s.bpp
    BY <1>2 DEF SET_BPP_MIN, s
  <2>2. s.bpp - t \in S
    BY <2>1, <1>9
  <2> QED
    BY <2>1, <2>2 DEF S
<1> QED
  BY <1>10 DEF Reduced, D, s, values

-----------------------------------------------------------------------------
(* The answer: rpmsetcmp implements SetVersion.                            *)

(* What the fetches that are over say of the strings.                      *)
AnswerInv ==
    /\ pc # "idle" => \E arg1, arg2 \in Arg : args = <<arg1, arg2>>
    /\ pc = "decode1" /\ phase = "idle" => (ret.cnt >= 0 <=> Yields(str1))
    /\ pc = "decode2" /\ phase = "idle" => (ret.cnt >= 0 <=> Yields(str2))
    /\ pc \in {"decode2", "compare"} => Yields(str1)
    /\ pc = "compare" => Yields(str2)

RefineInv == CmpInv /\ YieldInv /\ AnswerInv

LEMMA YieldsIsDecodable ==
    ASSUME NEW s \in Str, set_meta_init(s)
    PROVE  Yields(s) <=> ~Promise!Malformed(s)
<1>1. value_capacity(s) \in Nat
  BY CapacityNat
<1>2. Promise!value_capacity(s) = value_capacity(s)
  BY DEF Promise!value_capacity, value_capacity, Promise!BASE62_VALUE_BITS, BASE62_VALUE_BITS
<1> QED
  BY <1>1, <1>2 DEF Yields, Promise!Malformed

LEMMA SameHeader ==
    \A s : set_meta_init(s) <=> Promise!set_meta_init(s)
  BY DEF set_meta_init, Promise!set_meta_init, SET_BPP_MIN, SET_BPP_MAX, SET_MSHIFT_MIN,
         SET_MSHIFT_MAX, Promise!SET_BPP_MIN, Promise!SET_BPP_MAX, Promise!SET_MSHIFT_MIN,
         Promise!SET_MSHIFT_MAX

(* The counts and the walk of sorted_subset decide how two sets compare.   *)
LEMMA RelationIsVerdict ==
    ASSUME NEW a \in Seq(Nat), NEW b \in Seq(Nat), Ascending(a), Ascending(b)
    PROVE  Relation(a, Len(a), b, Len(b)) = Promise!Verdict(Range(a), Range(b))
<1>0. Len(a) \in Nat /\ Len(b) \in Nat
  OBVIOUS
<1>1. CASE Len(a) = Len(b)
  <2>1. /\ a = b <=> Range(a) = Range(b)
        /\ Range(a) \subseteq Range(b) => a = b
        /\ Range(b) \subseteq Range(a) => b = a
    BY <1>1, LengthsDecide
  <2>2. Relation(a, Len(a), b, Len(b)) = IF a = b THEN 0 ELSE -2
    BY <1>0, <1>1 DEF Relation
  <2>3. Promise!Verdict(Range(a), Range(b)) = IF a = b THEN 0 ELSE -2
    BY <2>1, Zenon DEF Promise!Verdict
  <2> QED
    BY <2>2, <2>3
<1>2. CASE Len(a) > Len(b)
  <2>1. ~(Range(a) \subseteq Range(b))
    BY <1>2, LengthsDecide
  <2>2. Relation(a, Len(a), b, Len(b)) = IF Range(b) \subseteq Range(a) THEN 1 ELSE -2
    BY <1>0, <1>2, SubsetCorrect DEF Relation
  <2> QED
    BY <2>1, <2>2 DEF Promise!Verdict
<1>3. CASE Len(a) < Len(b)
  <2>1. ~(Range(b) \subseteq Range(a))
    BY <1>0, <1>3, LengthsDecide
  <2>2. Relation(a, Len(a), b, Len(b)) = IF Range(a) \subseteq Range(b) THEN -1 ELSE -2
    BY <1>0, <1>3, SubsetCorrect DEF Relation
  <2> QED
    BY <2>1, <2>2 DEF Promise!Verdict
<1> QED
  BY <1>0, <1>1, <1>2, <1>3

LEMMA AnswerNext == RefineInv /\ [CmpNext]_vars => RefineInv'
<1> SUFFICES ASSUME RefineInv, [CmpNext]_vars PROVE RefineInv'
  OBVIOUS
<1>0. IInv /\ ArgsInv /\ FetchInv /\ HoldInv /\ YieldInv /\ AnswerInv /\ CmpInv
  BY DEF RefineInv, CmpInv
<1>1. CmpInv'
  BY <1>0, CmpNextInv
<1>2. YieldInv'
  <2>1. CASE CmpStep /\ UNCHANGED cvars
    BY <2>1, <1>0, YieldNext
  <2>2. CASE UNCHANGED cvars
    BY <2>2, <1>0, YieldNext
  <2>3. CASE CacheStep
    BY <2>3, <1>0, YieldNext DEF Next
  <2>4. CASE Decode1
    <3>1. /\ set_meta_init(str1) /\ set_meta_init(str2) /\ pc # "idle"
          /\ cache_decode_set(str1, target_bpp, 0)
      BY <2>4 DEF Decode1
    <3>2. str1 \in Str /\ target_bpp \in SET_BPP_MIN .. str1.bpp /\ 0 \in CacheId
      BY <3>1, <1>0, TargetInRange, CacheIdAssumption DEF ArgsInv
    <3> QED
      BY <3>1, <3>2, <1>0, YieldNext DEF Next, CallAny
  <2>5. CASE Decode2
    <3>1. /\ set_meta_init(str1) /\ set_meta_init(str2) /\ pc # "idle"
          /\ cache_decode_set(str2, target_bpp, 1)
      BY <2>5, <1>0 DEF Decode2, SecondCache, ArgsInv
    <3>2. str2 \in Str /\ target_bpp \in SET_BPP_MIN .. str2.bpp /\ 1 \in CacheId
      BY <3>1, <1>0, TargetInRange, CacheIdAssumption DEF ArgsInv
    <3> QED
      BY <3>1, <3>2, <1>0, YieldNext DEF Next, CallAny
  <2> QED
    BY <2>2, <2>3, <2>4, <2>5 DEF CmpNext, CmpStep, vars, RejectHeader, RejectFirst, SameString,
       RejectSecond, Decoded2, Compare, Call
<1> SUFFICES AnswerInv'
  BY <1>1, <1>2 DEF RefineInv
<1>3. ASSUME pc' = "idle" PROVE AnswerInv'
  BY <1>3 DEF AnswerInv
<1>4. ASSUME args' = args PROVE str1' = str1 /\ str2' = str2
  BY <1>4 DEF str1, str2
<1>5. CASE RejectHeader \/ RejectFirst \/ SameString \/ RejectSecond \/ Compare
  BY <1>3, <1>5 DEF RejectHeader, RejectFirst, SameString, RejectSecond, Compare, Finish
<1>6. CASE Decode1
  BY <1>6, <1>0, <1>4 DEF Decode1, AnswerInv, cache_decode_set
<1>7. CASE Decode2
  BY <1>7, <1>0, <1>4 DEF Decode2, Fetched, AnswerInv, cache_decode_set
<1>8. CASE Decoded2
  <2>1. phase = "idle" /\ ret.cnt >= 0 /\ pc = "decode2" /\ pc' = "compare" /\ args' = args
    BY <1>8 DEF Decoded2, Fetched
  <2> QED
    BY <2>1, <1>0, <1>4 DEF AnswerInv
<1>9. CASE CacheStep /\ UNCHANGED mine
  <2>1. pc' = pc /\ args' = args /\ phase # "idle"
    BY <1>9, FetchKeepsRequest DEF mine
  <2>2. phase' = "idle" => (ret'.cnt >= 0 <=> Yields(req.str))
    BY <1>9, <1>0, SucceedsIfYields
  <2>3. /\ pc = "decode1" => req.str = str1
        /\ pc = "decode2" => req.str = str2
        /\ pc \in {"decode1", "decode2"}
    BY <2>1, <1>0 DEF FetchInv, ArgsInv
  <2> QED
    BY <2>1, <2>2, <2>3, <1>0, <1>4 DEF AnswerInv
<1>10. CASE \E arg1, arg2 \in Arg : Call(arg1, arg2)
  BY <1>10 DEF Call, AnswerInv
<1>11. CASE UNCHANGED vars
  <2>1. pc' = pc /\ args' = args /\ phase' = phase /\ ret' = ret
    BY <1>11 DEF vars, mine, cvars, locals
  <2> QED
    BY <2>1, <1>0, <1>4 DEF AnswerInv
<1> QED
  BY <1>5, <1>6, <1>7, <1>8, <1>9, <1>10, <1>11 DEF CmpNext, CmpStep

LEMMA AnswerInit == CmpInit => RefineInv
<1> SUFFICES ASSUME CmpInit PROVE RefineInv
  OBVIOUS
<1>1. pc = "idle" /\ phase = "idle" /\ Init
  BY DEF CmpInit, Init
<1>2. YieldInv
  BY <1>1 DEF Init, Blank, YieldInv
<1> QED
  BY <1>1, <1>2, CmpInitInv DEF AnswerInv, RefineInv

(* The end of a call is the answer, every other step is not seen.          *)
LEMMA StepRefines == RefineInv /\ [CmpNext]_vars => [Promise!Next]_Promise!svars
<1> SUFFICES ASSUME RefineInv, [CmpNext]_vars PROVE [Promise!Next]_Promise!svars
  OBVIOUS
<1>0. IInv /\ ArgsInv /\ FetchInv /\ HoldInv /\ AnswerInv
  BY DEF RefineInv, CmpInv
<1>1. ASSUME pc # "idle", NEW value, Finish(value),
             value = Promise!Answer(str1, str2)
      PROVE  Promise!Next
  <2>1. /\ pc # "idle" /\ ~(pc' # "idle") /\ args' = args
        /\ result' = Promise!Answer(args[1].body, args[2].body)
    BY <1>1 DEF Finish, str1, str2
  <2>2. Promise!Return
    BY <2>1 DEF Promise!Return
  <2> QED
    BY <2>2 DEF Promise!Next
<1>2. ASSUME args' = args, result' = result, (pc' = "idle") <=> (pc = "idle")
      PROVE  UNCHANGED Promise!svars
  BY <1>2 DEF Promise!svars
<1>3. pc # "idle" => str1 \in Str /\ str2 \in Str
  BY <1>0 DEF ArgsInv
<1>4. CASE RejectHeader
  <2>1. /\ pc # "idle" /\ ~(set_meta_init(str1) /\ set_meta_init(str2))
        /\ Finish(IF ~set_meta_init(str1) THEN -3 ELSE -4)
    BY <1>4 DEF RejectHeader
  <2> DEFINE value == IF ~set_meta_init(str1) THEN -3 ELSE -4
  <2>2. value = Promise!Answer(str1, str2)
    BY <2>1, SameHeader, Zenon DEF Promise!Answer
  <2> HIDE DEF value
  <2>3. Finish(value)
    BY <2>1 DEF value
  <2> QED
    BY <2>1, <2>2, <2>3, <1>1
<1>5. CASE RejectFirst \/ RejectSecond \/ SameString \/ Compare
  <2>1. pc \in {"decode1", "decode2", "compare"}
    BY <1>5 DEF RejectFirst, RejectSecond, SameString, Compare
  <2>2. set_meta_init(str1) /\ set_meta_init(str2) /\ str1 \in Str /\ str2 \in Str
    BY <2>1, <1>0 DEF ArgsInv
  <2>3. Promise!Answer(str1, str2) =
            IF ~Yields(str1) THEN -3
            ELSE IF ~Yields(str2) THEN -4
            ELSE Promise!Verdict(Promise!Truncated(str1, Promise!CoarserBpp(str1, str2)),
                                 Promise!Truncated(str2, Promise!CoarserBpp(str1, str2)))
    BY <2>2, SameHeader, YieldsIsDecodable, Zenon DEF Promise!Answer
  <2>4. CASE RejectFirst
    <3>1. Finish(-3) /\ ~Yields(str1)
      BY <2>4, <1>0 DEF RejectFirst, AnswerInv, IInv, TypeOK, LocalTypeOK
    <3> QED
      BY <3>1, <2>1, <2>3, <1>1
  <2>5. CASE RejectSecond
    <3>1. Finish(-4) /\ Yields(str1) /\ ~Yields(str2)
      BY <2>5, <1>0 DEF RejectSecond, AnswerInv, IInv, TypeOK, LocalTypeOK
    <3> QED
      BY <3>1, <2>1, <2>3, <1>1
  <2>6. CASE SameString
    <3>1. Finish(0) /\ Yields(str1) /\ str1 = str2
      BY <2>6, <1>0 DEF SameString, Fetched, AnswerInv
    <3>2. Promise!Answer(str1, str2) = 0
      BY <3>1, <2>3, Zenon DEF Promise!Verdict
    <3> QED
      BY <3>1, <3>2, <2>1, <1>1
  <2>7. CASE Compare
    <3>1. /\ Yields(str1) /\ Yields(str2) /\ pc = "compare"
          /\ Holds(0, hash_arr1, cnt1, str1) /\ Holds(1, hash_arr2, cnt2, str2)
          /\ Finish(Relation(block[hash_arr1].hash_arr, cnt1, block[hash_arr2].hash_arr, cnt2))
      BY <2>7, <1>0 DEF Compare, AnswerInv, HoldInv
    <3> DEFINE a == Decoded[str1][target_bpp]
               b == Decoded[str2][target_bpp]
    <3>2. target_bpp = Promise!CoarserBpp(str1, str2)
      BY DEF target_bpp, Promise!CoarserBpp
    <3>3. target_bpp \in SET_BPP_MIN .. str1.bpp /\ target_bpp \in SET_BPP_MIN .. str2.bpp
      BY <3>1, <2>2, <1>0, TargetInRange
    <3>4. PICK arg1 \in Arg, arg2 \in Arg : args = <<arg1, arg2>>
      BY <3>1, <1>0 DEF AnswerInv
    <3>5. str1 = arg1.body /\ str2 = arg2.body
      BY <3>4 DEF str1, str2
    <3>6. /\ a \in Seq(Nat) /\ Ascending(a)
          /\ Range(a) = {str1.values[i] % 2^target_bpp : i \in DOMAIN str1.values}
      <4>1. set_meta_init(arg1.body) /\ target_bpp \in SET_BPP_MIN .. arg1.body.bpp
        BY <3>5, <3>3, <2>2
      <4>2. /\ Decoded[arg1.body][target_bpp] \in Seq(Nat)
            /\ Ascending(Decoded[arg1.body][target_bpp])
            /\ Range(Decoded[arg1.body][target_bpp]) =
                  {arg1.body.values[i] % 2^target_bpp : i \in DOMAIN arg1.body.values}
        BY <4>1, DecodedCorrect, Zenon
      <4> QED
        BY <4>2, <3>5, Zenon
    <3>7. /\ b \in Seq(Nat) /\ Ascending(b)
          /\ Range(b) = {str2.values[i] % 2^target_bpp : i \in DOMAIN str2.values}
      <4>1. set_meta_init(arg2.body) /\ target_bpp \in SET_BPP_MIN .. arg2.body.bpp
        BY <3>5, <3>3, <2>2
      <4>2. /\ Decoded[arg2.body][target_bpp] \in Seq(Nat)
            /\ Ascending(Decoded[arg2.body][target_bpp])
            /\ Range(Decoded[arg2.body][target_bpp]) =
                  {arg2.body.values[i] % 2^target_bpp : i \in DOMAIN arg2.body.values}
        BY <4>1, DecodedCorrect, Zenon
      <4> QED
        BY <4>2, <3>5, Zenon
    <3>8. /\ Range(a) = Promise!Truncated(str1, target_bpp)
          /\ Range(b) = Promise!Truncated(str2, target_bpp)
      BY <3>6, <3>7 DEF Promise!Truncated
    <3>9. Finish(Relation(a, Len(a), b, Len(b)))
      BY <3>1 DEF Holds
    <3> HIDE DEF a, b
    <3>10. Relation(a, Len(a), b, Len(b)) = Promise!Verdict(Range(a), Range(b))
      BY <3>6, <3>7, RelationIsVerdict
    <3>11. Promise!Answer(str1, str2) = Promise!Verdict(Range(a), Range(b))
      BY <3>1, <3>2, <3>8, <2>3
    <3> QED
      BY <3>9, <3>10, <3>11, <3>1, <1>1
  <2> QED
    BY <1>5, <2>4, <2>5, <2>6, <2>7
<1>6. CASE Decode1 \/ Decode2 \/ Decoded2 \/ (CacheStep /\ UNCHANGED mine) \/ UNCHANGED vars
  <2>1. args' = args /\ result' = result /\ ((pc' = "idle") <=> (pc = "idle"))
    BY <1>6 DEF Decode1, Decode2, Decoded2, mine, vars
  <2> QED
    BY <2>1, <1>2
<1>7. CASE \E arg1, arg2 \in Arg : Call(arg1, arg2)
  <2>1. PICK arg1 \in Arg, arg2 \in Arg : Call(arg1, arg2)
    BY <1>7
  <2>2. Promise!Call(arg1, arg2)
    BY <2>1 DEF Call, Promise!Call
  <2> QED
    BY <2>2 DEF Promise!Next
<1> QED
  BY <1>4, <1>5, <1>6, <1>7 DEF CmpNext, CmpStep

(* Whatever was compared, cached and evicted before, rpmsetcmp answers     *)
(* what the two strings alone determine: how their values, truncated to    *)
(* the coarser precision, compare as sets, or which of them is malformed.  *)
THEOREM CachingInvisible == CmpSpec => ImplementsSetVersion
<1>1. CmpInit => Promise!Init
  BY DEF CmpInit, Promise!Init
<1>2. CmpSpec => []RefineInv
  BY AnswerInit, AnswerNext, PTL DEF CmpSpec
<1> QED
  BY <1>1, <1>2, StepRefines, PTL DEF CmpSpec, ImplementsSetVersion, Promise!Spec
===============================================================================
