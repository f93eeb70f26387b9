------------------------------- MODULE LruCache -------------------------------
(***************************************************************************)
(* What the decoded-set caches promise: each is a list of keys from the    *)
(* most to the least recently asked for, without repetition, never longer  *)
(* than its capacity.  A request for a key that is held makes it the most  *)
(* recent one, always; a request for another enters it at the front, if    *)
(* it can be decoded at all, and only then, and only from a full list, is  *)
(* a key dropped: the least recent.                                        *)
(***************************************************************************)
EXTENDS Naturals, Sequences

CONSTANTS Caches,       \* the caches
          Keys,         \* what an entry is looked up by
          Decodable(_), \* whether there is anything to be cached for a key
          Capacity,     \* the most entries a cache holds
          None          \* no request

VARIABLES recency,   \* recency[c]: the keys of cache c, most recent first
          asked      \* the request being served, <<cache, key>>, or None

lvars == <<recency, asked>>

Holds(c, k) == \E i \in DOMAIN recency[c] : recency[c][i] = k

-----------------------------------------------------------------------------
Init ==
    /\ recency = [c \in Caches |-> <<>>]
    /\ asked = None

Ask(c, k) ==
    /\ asked = None
    /\ asked' = <<c, k>>
    /\ UNCHANGED recency

(* A hit makes the key the most recent one.                                *)
Touch(c, k) ==
    /\ asked = <<c, k>>
    /\ \E i \in DOMAIN recency[c] :
          /\ recency[c][i] = k
          /\ recency' = [recency EXCEPT
                ![c] = <<k>> \o SubSeq(@, 1, i - 1) \o SubSeq(@, i + 1, Len(@))]
    /\ asked' = None

(* A full cache gives up its least recently used key for a new one.        *)
Drop(c, k) ==
    /\ asked = <<c, k>>
    /\ ~Holds(c, k)
    /\ Decodable(k)
    /\ Len(recency[c]) = Capacity
    /\ recency' = [recency EXCEPT ![c] = SubSeq(@, 1, Capacity - 1)]
    /\ UNCHANGED asked

(* A decoded set enters at the front of a cache that has room.             *)
Insert(c, k) ==
    /\ asked = <<c, k>>
    /\ ~Holds(c, k)
    /\ Decodable(k)
    /\ Len(recency[c]) < Capacity
    /\ recency' = [recency EXCEPT ![c] = <<k>> \o @]
    /\ asked' = None

(* What cannot be decoded leaves every cache as it is.                     *)
Reject(c, k) ==
    /\ asked = <<c, k>>
    /\ ~Decodable(k)
    /\ asked' = None
    /\ UNCHANGED recency

Next ==
    \E c \in Caches, k \in Keys :
        Ask(c, k) \/ Touch(c, k) \/ Drop(c, k) \/ Insert(c, k) \/ Reject(c, k)

Spec == Init /\ [][Next]_lvars
=============================================================================
