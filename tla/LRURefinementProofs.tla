------------------------ MODULE LRURefinementProofs ------------------------
(***************************************************************************)
(* Proof that the list cache of SigstoreCache implements the recency       *)
(* policy of LRUPolicy (spec 4.5) under the refinement mapping of          *)
(* SigstoreCache: cached is the set of keys in the list, older the pairs   *)
(* of keys in list order (<<a, b>> when a is nearer the back than b).      *)
(*                                                                         *)
(* Each list operation is shown to change the two mapped sets as the       *)
(* matching abstract action does: MoveToFront as Get or PutCached,         *)
(* PushFront as PutFresh, RemoveBack then PushFront as PutEvict.  The      *)
(* argument rests on KeysUnique (SigstoreCacheProofs): with distinct keys  *)
(* a key has one position, so the number of keys is the list's length and  *)
(* the key at the back is older than every other.                          *)
(***************************************************************************)
EXTENDS SigstoreCacheProofs, FiniteSetTheorems

\* The mapped sets for any list.
KeysOf(l) == {l[p].key : p \in 1..Len(l)}
OlderOf(l) ==
    {<<l[pq[1]].key, l[pq[2]].key>> :
        pq \in {pq \in (1..Len(l)) \X (1..Len(l)) : pq[1] > pq[2]}}

-----------------------------------------------------------------------------
(* The mapped sets, element by element.                                    *)

\* A pair is in OlderOf(l) when its first key sits behind its second.
LEMMA OlderMember ==
    ASSUME NEW l, NEW a, NEW b
    PROVE  <<a, b>> \in OlderOf(l) <=>
               \E p, q \in 1..Len(l) : p > q /\ l[p].key = a /\ l[q].key = b
<1>1. ASSUME <<a, b>> \in OlderOf(l)
      PROVE  \E p, q \in 1..Len(l) : p > q /\ l[p].key = a /\ l[q].key = b
    <2>1. PICK pq \in (1..Len(l)) \X (1..Len(l)) :
                pq[1] > pq[2] /\ <<a, b>> = <<l[pq[1]].key, l[pq[2]].key>>
        BY <1>1 DEF OlderOf
    <2>2. a = l[pq[1]].key /\ b = l[pq[2]].key
        BY <2>1
    <2>3. QED
        BY <2>1, <2>2
<1>2. ASSUME NEW p \in 1..Len(l), NEW q \in 1..Len(l), p > q,
             l[p].key = a, l[q].key = b
      PROVE  <<a, b>> \in OlderOf(l)
    <2>1. <<p, q>> \in {pq \in (1..Len(l)) \X (1..Len(l)) : pq[1] > pq[2]}
        BY <1>2
    <2>2. QED
        BY <1>2, <2>1 DEF OlderOf
<1>3. QED
    BY <1>1, <1>2

\* OlderOf(l) holds only pairs.
LEMMA OlderPairs ==
    ASSUME NEW l, NEW pr \in OlderOf(l)
    PROVE  pr = <<pr[1], pr[2]>>
BY DEF OlderOf

\* With distinct keys, a list of n elements holds n keys.
LEMMA KeysCardinality ==
    ASSUME NEW l \in Seq(Item), UniqueKeys(l)
    PROVE  Cardinality(KeysOf(l)) = Len(l)
<1> DEFINE f == [p \in 1..Len(l) |-> l[p].key]
<1>1. f \in Bijection(1..Len(l), KeysOf(l))
    BY DEF Bijection, Injection, Surjection, IsInjective, UniqueKeys, KeysOf
<1>2. QED
    BY <1>1, FS_CountingElements DEF ExistsBijection

\* Moving the element at e to the front keeps the keys and makes its key
\* the newest: the pairs without it stay, and it follows every other key.
LEMMA MoveToFrontRecency ==
    ASSUME NEW l \in Seq(Item), UniqueKeys(l), NEW e \in 1..Len(l)
    PROVE  /\ KeysOf(MoveToFront(l, e)) = KeysOf(l)
           /\ OlderOf(MoveToFront(l, e)) =
                {pr \in OlderOf(l) : pr[1] # l[e].key /\ pr[2] # l[e].key}
                \cup {<<x, l[e].key>> : x \in KeysOf(l) \ {l[e].key}}
<1> DEFINE m == MoveToFront(l, e)
           k == l[e].key
           n == Len(l)
           f(j) == IF j = 1 THEN e ELSE IF j <= e THEN j - 1 ELSE j
           g(i) == IF i = e THEN 1 ELSE IF i < e THEN i + 1 ELSE i
<1>0. n \in Nat
    OBVIOUS
<1>1. Len(m) = n /\ \A j \in 1..n : m[j] = l[f(j)]
    BY MoveToFrontFacts
<1>2. /\ \A j \in 1..n : f(j) \in 1..n
      /\ \A i \in 1..n : g(i) \in 1..n /\ f(g(i)) = i
      /\ \A j \in 2..n : f(j) # e
      /\ \A p, q \in 2..n : p > q => f(p) > f(q)
      /\ \A i, j \in 1..n : i # e /\ j # e /\ i > j => g(i) > g(j)
      /\ \A i \in 1..n : i # e => g(i) > 1
    BY <1>0
<1>3. \A i \in 1..n : m[g(i)] = l[i]
    BY <1>1, <1>2
<1>4. \A i \in 1..n : l[i].key = k => i = e
    BY DEF UniqueKeys
<1>5. KeysOf(m) = KeysOf(l)
    BY <1>1, <1>2, <1>3 DEF KeysOf
<1> DEFINE Kept == {pr \in OlderOf(l) : pr[1] # k /\ pr[2] # k}
           New == {<<x, k>> : x \in KeysOf(l) \ {k}}
<1>6. ASSUME NEW pr \in OlderOf(m) PROVE pr \in Kept \cup New
    <2>1. pr = <<pr[1], pr[2]>>
        BY OlderPairs
    <2>2. PICK p, q \in 1..n : p > q /\ m[p].key = pr[1] /\ m[q].key = pr[2]
        BY <1>1, <2>1, OlderMember
    <2>3. p \in 2..n /\ f(p) # e /\ l[f(p)].key # k /\ pr[1] = l[f(p)].key
        <3>1. p \in 2..n
            BY <2>2
        <3>2. f(p) # e /\ f(p) \in 1..n
            BY <3>1, <1>2
        <3>3. l[f(p)].key # k
            BY <3>2, <1>4
        <3>4. QED
            BY <3>1, <3>2, <3>3, <1>1, <2>2
    <2>4. CASE q = 1
        <3>1. pr[2] = k
            BY <1>1, <2>2, <2>4
        <3>2. pr[1] \in KeysOf(l) \ {k}
            BY <1>2, <2>3 DEF KeysOf
        <3>3. QED
            BY <2>1, <3>1, <3>2
    <2>5. CASE q # 1
        <3>1. q \in 2..n /\ f(q) # e /\ l[f(q)].key # k /\ pr[2] = l[f(q)].key
            <4>1. q \in 2..n
                BY <2>2, <2>5
            <4>2. f(q) # e /\ f(q) \in 1..n
                BY <4>1, <1>2
            <4>3. l[f(q)].key # k
                BY <4>2, <1>4
            <4>4. QED
                BY <4>1, <4>2, <4>3, <1>1, <2>2
        <3>2. f(p) > f(q) /\ f(p) \in 1..n /\ f(q) \in 1..n
            BY <1>2, <2>3, <3>1, <2>2
        <3>3. pr \in OlderOf(l)
            BY <2>1, <2>3, <3>1, <3>2, OlderMember
        <3>4. QED
            BY <2>3, <3>1, <3>3
    <2>6. QED
        BY <2>4, <2>5
<1>7. ASSUME NEW pr \in Kept PROVE pr \in OlderOf(m)
    <2>1. pr = <<pr[1], pr[2]>>
        BY OlderPairs
    <2>2. PICK i, j \in 1..n : i > j /\ l[i].key = pr[1] /\ l[j].key = pr[2]
        BY <2>1, OlderMember
    <2>3. i # e /\ j # e
        BY <1>7, <2>2
    <2>4. g(i) > g(j) /\ g(i) \in 1..n /\ g(j) \in 1..n
        BY <1>2, <2>2, <2>3
    <2>5. m[g(i)].key = pr[1] /\ m[g(j)].key = pr[2]
        BY <1>3, <2>2
    <2>6. QED
        BY <1>1, <2>1, <2>4, <2>5, OlderMember
<1>8. ASSUME NEW x \in KeysOf(l) \ {k} PROVE <<x, k>> \in OlderOf(m)
    <2>1. PICK i \in 1..n : l[i].key = x
        BY DEF KeysOf
    <2>2. i # e /\ g(i) > 1 /\ g(i) \in 1..n
        BY <1>2, <2>1
    <2>3. m[g(i)].key = x /\ m[1].key = k
        BY <1>1, <1>3, <2>1
    <2>4. QED
        BY <1>0, <1>1, <2>2, <2>3, OlderMember
<1>9. QED
    BY <1>5, <1>6, <1>7, <1>8

\* Pushing an item of a new key adds the key as the newest one.
LEMMA PushFrontRecency ==
    ASSUME NEW l \in Seq(Item), NEW x \in Item,
           \A p \in 1..Len(l) : l[p].key # x.key
    PROVE  /\ KeysOf(PushFront(l, x)) = KeysOf(l) \cup {x.key}
           /\ OlderOf(PushFront(l, x)) =
                OlderOf(l) \cup {<<y, x.key>> : y \in KeysOf(l) \ {x.key}}
<1> DEFINE m == PushFront(l, x)
           n == Len(l)
<1>0. n \in Nat
    OBVIOUS
<1>1. Len(m) = n + 1 /\ \A j \in 1..n + 1 : m[j] = IF j = 1 THEN x ELSE l[j - 1]
    BY PushFrontFacts
<1>2. KeysOf(m) = KeysOf(l) \cup {x.key}
    <2>1. ASSUME NEW j \in 1..n + 1 PROVE m[j].key \in KeysOf(l) \cup {x.key}
        BY <1>0, <1>1 DEF KeysOf
    <2>2. ASSUME NEW i \in 1..n PROVE l[i].key \in KeysOf(m)
        <3>1. i + 1 \in 1..n + 1 /\ m[i + 1] = l[i]
            BY <1>0, <1>1
        <3>2. QED
            BY <1>1, <3>1 DEF KeysOf
    <2>3. x.key \in KeysOf(m)
        BY <1>0, <1>1 DEF KeysOf
    <2>4. QED
        BY <1>1, <2>1, <2>2, <2>3 DEF KeysOf
<1>3. ASSUME NEW pr \in OlderOf(m)
      PROVE  pr \in OlderOf(l) \cup {<<y, x.key>> : y \in KeysOf(l) \ {x.key}}
    <2>1. pr = <<pr[1], pr[2]>>
        BY OlderPairs
    <2>2. PICK p, q \in 1..n + 1 : p > q /\ m[p].key = pr[1] /\ m[q].key = pr[2]
        <3>1. \E a, b \in 1..Len(m) : a > b /\ m[a].key = pr[1] /\ m[b].key = pr[2]
            <4> HIDE DEF m
            <4> QED  BY <2>1, OlderMember
        <3>2. QED
            BY <1>1, <3>1
    <2>3. p - 1 \in 1..n /\ pr[1] = l[p - 1].key
        BY <1>0, <1>1, <2>2
    <2>4. CASE q = 1
        <3>1. pr[2] = x.key /\ pr[1] \in KeysOf(l) \ {x.key}
            BY <1>1, <2>2, <2>3, <2>4 DEF KeysOf
        <3>2. QED
            BY <2>1, <3>1
    <2>5. CASE q # 1
        <3>1. q - 1 \in 1..n /\ pr[2] = l[q - 1].key /\ p - 1 > q - 1
            BY <1>0, <1>1, <2>2, <2>5
        <3>2. QED
            BY <2>1, <2>3, <3>1, OlderMember
    <2>6. QED
        BY <2>4, <2>5
<1>4. ASSUME NEW pr \in OlderOf(l) PROVE pr \in OlderOf(m)
    <2>1. pr = <<pr[1], pr[2]>>
        BY OlderPairs
    <2>2. PICK i, j \in 1..n : i > j /\ l[i].key = pr[1] /\ l[j].key = pr[2]
        BY <2>1, OlderMember
    <2>3. i + 1 \in 1..n + 1 /\ j + 1 \in 1..n + 1 /\ i + 1 > j + 1
          /\ m[i + 1] = l[i] /\ m[j + 1] = l[j]
        BY <1>0, <1>1, <2>2
    <2>4. \E a, b \in 1..Len(m) : a > b /\ m[a].key = pr[1] /\ m[b].key = pr[2]
        <3>1. i + 1 \in 1..Len(m) /\ j + 1 \in 1..Len(m)
            BY <1>1, <2>3
        <3> USE <3>1
        <3> WITNESS i + 1 \in 1..Len(m), j + 1 \in 1..Len(m)
        <3> QED  BY <2>2, <2>3
    <2>5. QED
        <3> HIDE DEF m
        <3> QED  BY <2>1, <2>4, OlderMember
<1>5. ASSUME NEW y \in KeysOf(l) \ {x.key} PROVE <<y, x.key>> \in OlderOf(m)
    <2>1. PICK i \in 1..n : l[i].key = y
        BY DEF KeysOf
    <2>2. i + 1 \in 1..n + 1 /\ 1 \in 1..n + 1 /\ i + 1 > 1
          /\ m[i + 1] = l[i] /\ m[1] = x
        BY <1>0, <1>1
    <2>3. \E a, b \in 1..Len(m) : a > b /\ m[a].key = y /\ m[b].key = x.key
        BY <1>1, <2>1, <2>2
    <2>4. QED
        <3> HIDE DEF m
        <3> QED  BY <2>3, OlderMember
<1>6. QED
    BY <1>2, <1>3, <1>4, <1>5

\* Removing the back element drops its key, which is the least recently
\* used: it is older than every other key.
LEMMA RemoveBackRecency ==
    ASSUME NEW l \in Seq(Item), l # <<>>, UniqueKeys(l)
    PROVE  /\ KeysOf(RemoveBack(l)) = KeysOf(l) \ {l[Len(l)].key}
           /\ OlderOf(RemoveBack(l)) =
                {pr \in OlderOf(l) : pr[1] # l[Len(l)].key /\ pr[2] # l[Len(l)].key}
           /\ \A y \in KeysOf(l) \ {l[Len(l)].key} : <<l[Len(l)].key, y>> \in OlderOf(l)
<1> DEFINE r == RemoveBack(l)
           n == Len(l)
           v == l[n].key
<1>0. n \in Nat /\ n >= 1
    BY EmptySeq, LenProperties
<1>1. Len(r) = n - 1 /\ \A j \in 1..n - 1 : r[j] = l[j]
    BY RemoveBackFacts
<1>2. \A i \in 1..n : l[i].key = v => i = n
    BY <1>0 DEF UniqueKeys
<1>3. KeysOf(r) = KeysOf(l) \ {v}
    <2>1. ASSUME NEW j \in 1..n - 1 PROVE r[j].key \in KeysOf(l) \ {v}
        BY <1>0, <1>1, <1>2 DEF KeysOf
    <2>2. ASSUME NEW i \in 1..n, l[i].key # v PROVE l[i].key \in KeysOf(r)
        <3>1. i \in 1..n - 1
            BY <1>0, <2>2
        <3>2. QED
            BY <1>1, <3>1 DEF KeysOf
    <2>3. QED
        BY <1>1, <2>1, <2>2 DEF KeysOf
<1>4. ASSUME NEW pr \in OlderOf(r) PROVE pr \in OlderOf(l) /\ pr[1] # v /\ pr[2] # v
    <2>1. pr = <<pr[1], pr[2]>>
        BY OlderPairs
    <2>2. PICK p, q \in 1..n - 1 : p > q /\ r[p].key = pr[1] /\ r[q].key = pr[2]
        BY <1>1, <2>1, OlderMember
    <2>3. p \in 1..n /\ q \in 1..n /\ p # n /\ q # n
          /\ l[p].key = pr[1] /\ l[q].key = pr[2]
        BY <1>0, <1>1, <2>2
    <2>4. QED
        BY <1>2, <2>1, <2>2, <2>3, OlderMember
<1>5. ASSUME NEW pr \in OlderOf(l), pr[1] # v, pr[2] # v PROVE pr \in OlderOf(r)
    <2>1. pr = <<pr[1], pr[2]>>
        BY OlderPairs
    <2>2. PICK i, j \in 1..n : i > j /\ l[i].key = pr[1] /\ l[j].key = pr[2]
        BY <2>1, OlderMember
    <2>3. i \in 1..n - 1 /\ j \in 1..n - 1 /\ r[i] = l[i] /\ r[j] = l[j]
        BY <1>0, <1>1, <1>5, <2>2
    <2>4. QED
        BY <1>1, <2>1, <2>2, <2>3, OlderMember
<1>6. ASSUME NEW y \in KeysOf(l) \ {v} PROVE <<v, y>> \in OlderOf(l)
    <2>1. PICK i \in 1..n : l[i].key = y
        BY DEF KeysOf
    <2>2. n > i /\ n \in 1..n
        BY <1>0, <2>1
    <2>3. QED
        BY <2>1, <2>2, OlderMember
<1>7. QED
    BY <1>3, <1>4, <1>5, <1>6

-----------------------------------------------------------------------------
(* The mapping, and each action of the cache as an action of LRUPolicy.    *)

\* LRUPolicy counts the cached keys with the Cardinality of FiniteSets.
LEMMA SameCardinality == ASSUME NEW S PROVE LRU!Cardinality(S) = Cardinality(S)
BY DEF LRU!Cardinality, Cardinality

\* The mapped sets of the current and the next state.
LEMMA MappedSets ==
    /\ CachedKeys = KeysOf(items)
    /\ Older = OlderOf(items)
    /\ CachedKeys' = KeysOf(items')
    /\ Older' = OlderOf(items')
BY DEF CachedKeys, Older, KeysOf, OlderOf

\* Moving the element of a cached key to the front, as GetSignature and a
\* put of an existing key do, makes that key the most recently used.
LEMMA MoveStep ==
    ASSUME IInv, NEW k, getElement(items, k) # 0,
           items' = MoveToFront(items, getElement(items, k))
    PROVE  LRU!Get(k) /\ LRU!PutCached(k)
<1> DEFINE e == getElement(items, k)
<1>1. items \in Seq(Item) /\ UniqueKeys(items)
    BY DEF IInv, TypeOK, KeysUnique, UniqueKeys
<1>2. e \in 1..Len(items) /\ items[e].key = k
    BY <1>1, GetElementFacts
<1>3. /\ KeysOf(items') = KeysOf(items)
      /\ OlderOf(items') =
            {pr \in OlderOf(items) : pr[1] # k /\ pr[2] # k}
            \cup {<<x, k>> : x \in KeysOf(items) \ {k}}
    BY <1>1, <1>2, MoveToFrontRecency
<1>4. k \in CachedKeys
    BY <1>2, MappedSets DEF KeysOf
<1>5. CachedKeys' = CachedKeys
    BY <1>3, MappedSets
<1>6. Older' = LRU!Without(k) \cup LRU!Newest(k, CachedKeys)
    BY <1>3, MappedSets DEF LRU!Without, LRU!Newest
<1>7. QED
    BY <1>4, <1>5, <1>6 DEF LRU!Get, LRU!PutCached

\* A put of a new key into a cache that is not full adds it as the most
\* recently used key.
LEMMA FreshStep ==
    ASSUME IInv, NEW i \in Item, getElement(items, i.key) = 0, ~IsFull(items),
           items' = PushFront(items, i)
    PROVE  LRU!PutFresh(i.key)
<1>1. items \in Seq(Item) /\ UniqueKeys(items) /\ Len(items) \in 0..Capacity
    BY DEF IInv, TypeOK, KeysUnique, UniqueKeys
<1>2. \A p \in 1..Len(items) : items[p].key # i.key
    BY <1>1, GetElementFacts
<1>3. /\ KeysOf(items') = KeysOf(items) \cup {i.key}
      /\ OlderOf(items') = OlderOf(items) \cup {<<y, i.key>> : y \in KeysOf(items) \ {i.key}}
    BY <1>1, <1>2, PushFrontRecency
<1>4. i.key \notin CachedKeys
    BY <1>2, MappedSets DEF KeysOf
<1>5. Cardinality(CachedKeys) < Capacity
    <2>1. Cardinality(KeysOf(items)) = Len(items)
        BY <1>1, KeysCardinality
    <2>2. Len(items) < Capacity
        BY <1>1, CapacityAssumption DEF IsFull
    <2>3. QED
        BY <2>1, <2>2, MappedSets
<1>6. CachedKeys' = CachedKeys \cup {i.key}
    BY <1>3, MappedSets
<1>7. Older' = Older \cup LRU!Newest(i.key, CachedKeys)
    BY <1>3, MappedSets DEF LRU!Newest
<1>8. QED
    BY <1>4, <1>5, <1>6, <1>7, SameCardinality DEF LRU!PutFresh

\* A put of a new key into a full cache evicts the back element, whose key
\* is the least recently used, and adds the new key as the most recent.
LEMMA EvictStep ==
    ASSUME IInv, NEW i \in Item, getElement(items, i.key) = 0, IsFull(items),
           items' = PushFront(RemoveBack(items), i)
    PROVE  LRU!PutEvict(i.key)
<1> DEFINE k == i.key
           r == RemoveBack(items)
           v == items[Len(items)].key
<1>1. items \in Seq(Item) /\ UniqueKeys(items) /\ Len(items) = Capacity
    BY DEF IInv, TypeOK, KeysUnique, UniqueKeys, IsFull
<1>2. items # <<>>
    BY <1>1, CapacityAssumption
<1>3. \A p \in 1..Len(items) : items[p].key # k
    BY <1>1, GetElementFacts
<1>4. /\ KeysOf(r) = KeysOf(items) \ {v}
      /\ OlderOf(r) = {pr \in OlderOf(items) : pr[1] # v /\ pr[2] # v}
      /\ \A y \in KeysOf(items) \ {v} : <<v, y>> \in OlderOf(items)
    BY <1>1, <1>2, RemoveBackRecency
<1>5. r \in Seq(Item) /\ \A p \in 1..Len(r) : r[p].key # k
    BY <1>1, <1>2, <1>3, RemoveBackFacts, RemoveBackUnique
<1>6. /\ KeysOf(items') = KeysOf(r) \cup {k}
      /\ OlderOf(items') = OlderOf(r) \cup {<<y, k>> : y \in KeysOf(r) \ {k}}
    BY <1>5, PushFrontRecency
<1>7. k \notin CachedKeys
    BY <1>3, MappedSets DEF KeysOf
<1>8. Cardinality(CachedKeys) = Capacity
    BY <1>1, KeysCardinality, MappedSets
<1>9. v \in CachedKeys
    <2>1. Len(items) \in 1..Len(items)
        BY <1>1, CapacityAssumption
    <2>2. QED
        BY <2>1, MappedSets DEF KeysOf
<1>10. LRU!IsLRU(v)
    BY <1>4, <1>9, MappedSets DEF LRU!IsLRU
<1>11. CachedKeys' = (CachedKeys \ {v}) \cup {k}
    BY <1>4, <1>6, MappedSets
<1>12. Older' = {pr \in Older : pr[1] # v /\ pr[2] # v}
                    \cup LRU!Newest(k, CachedKeys \ {v})
    BY <1>4, <1>6, MappedSets DEF LRU!Newest
<1>13. QED
    BY <1>7, <1>8, <1>9, <1>10, <1>11, <1>12, SameCardinality DEF LRU!PutEvict

\* Every step of the cache, from a state with distinct keys, is a step of
\* LRUPolicy or leaves the mapped sets alone.
LEMMA NextRefines == IInv /\ [Next]_vars => [LRU!Next]_LRU!vars
<1> SUFFICES ASSUME IInv, [Next]_vars PROVE [LRU!Next]_LRU!vars
    OBVIOUS
<1>1. items \in Seq(Item)
    BY DEF IInv, TypeOK
<1>2. CASE \E k \in Keys : GetSignature(k)
    <2>1. PICK k \in Keys : GetSignature(k)
        BY <1>2
    <2>2. LRU!Get(k)
        BY <2>1, MoveStep DEF GetSignature
    <2>3. QED
        BY <2>2 DEF LRU!Next
<1>3. CASE \E i \in Item : PutSignature(i)
    <2>1. PICK i \in Item : PutSignature(i)
        BY <1>3
    <2>2. i.key \in Keys
        BY DEF Item
    <2>3. CASE PutExisting(i)
        <3>1. LRU!PutCached(i.key)
            BY <2>3, MoveStep DEF PutExisting
        <3>2. QED
            BY <2>2, <3>1 DEF LRU!Next
    <2>4. CASE PutNew(i) /\ ~IsFull(items)
        <3>1. LRU!PutFresh(i.key)
            BY <2>4, FreshStep DEF PutNew
        <3>2. QED
            BY <2>2, <3>1 DEF LRU!Next
    <2>5. CASE PutNew(i) /\ IsFull(items)
        <3>1. LRU!PutEvict(i.key)
            BY <2>5, EvictStep DEF PutNew
        <3>2. QED
            BY <2>2, <3>1 DEF LRU!Next
    <2>6. QED
        BY <2>1, <2>3, <2>4, <2>5 DEF PutSignature
<1>4. CASE UNCHANGED vars
    <2>1. items' = items
        BY <1>4 DEF vars
    <2>2. UNCHANGED LRU!vars
        BY <2>1 DEF LRU!vars, CachedKeys, Older
    <2>3. QED
        BY <2>2
<1>5. QED
    BY <1>2, <1>3, <1>4 DEF Next

\* The list cache implements the recency policy of spec 4.5: under the
\* mapping of SigstoreCache, every behaviour of GetSignature and
\* PutSignature is one of LRUPolicy, so the keys held never exceed the
\* size given to NewCache and a full cache always evicts the least
\* recently used key.
THEOREM LRURefinement == Spec => LRUSpec
<1>1. Init => IInv /\ LRU!Init
    <2> SUFFICES ASSUME Init PROVE IInv /\ LRU!Init
        OBVIOUS
    <2>1. IInv
        BY InitTypeOK DEF Init, IInv, KeysUnique
    <2>2. CachedKeys = {} /\ Older = {}
        BY DEF Init, CachedKeys, Older
    <2>3. QED
        BY <2>1, <2>2 DEF LRU!Init
<1>2. IInv /\ [Next]_vars => IInv'
    BY NextTypeOK, NextKeysUnique DEF IInv
<1>3. QED
    BY <1>1, <1>2, NextRefines, PTL DEF Spec, LRUSpec, LRU!Spec

=============================================================================
