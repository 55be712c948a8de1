----------------------------- MODULE LRUPolicy -----------------------------
(***************************************************************************)
(* What spec section 4.5 promises of the bounded cache, without the list   *)
(* it is built from: a set of cached keys of at most Capacity elements,    *)
(* and a recency relation older, <<a, b>> \in older meaning that a was     *)
(* used less recently than b.  A get of a cached key, or a put of any      *)
(* key, makes that key the most recently used; a put of a new key into a   *)
(* full cache first drops the least recently used key.                     *)
(***************************************************************************)
EXTENDS Naturals, FiniteSets

CONSTANTS Keys, Capacity

VARIABLES cached, older

vars == <<cached, older>>

\* older restricted to pairs that do not mention key k.
Without(k) == {p \in older : p[1] # k /\ p[2] # k}

\* k becomes the most recently used of the keys in S.
Newest(k, S) == {<<x, k>> : x \in S \ {k}}

\* v is the least recently used cached key.
IsLRU(v) == v \in cached /\ \A x \in cached \ {v} : <<v, x>> \in older

Init ==
    /\ cached = {}
    /\ older = {}

Get(k) ==
    /\ k \in cached
    /\ older' = Without(k) \cup Newest(k, cached)
    /\ UNCHANGED cached

PutCached(k) ==
    /\ k \in cached
    /\ older' = Without(k) \cup Newest(k, cached)
    /\ UNCHANGED cached

PutFresh(k) ==
    /\ k \notin cached
    /\ Cardinality(cached) < Capacity
    /\ cached' = cached \cup {k}
    /\ older' = older \cup Newest(k, cached)

PutEvict(k) ==
    /\ k \notin cached
    /\ Cardinality(cached) = Capacity
    /\ \E v \in cached :
        /\ IsLRU(v)
        /\ cached' = (cached \ {v}) \cup {k}
        /\ older' = {p \in older : p[1] # v /\ p[2] # v}
                        \cup Newest(k, cached \ {v})

Next == \E k \in Keys : Get(k) \/ PutCached(k) \/ PutFresh(k) \/ PutEvict(k)

Spec == Init /\ [][Next]_vars

=============================================================================
