--------------------------- MODULE SigstoreCache ---------------------------
(***************************************************************************)
(* The signature cache of the workload attestor (package sigstorecache,    *)
(* src/unnamed/part_002 lines 1-77): a container/list.List of Items, the   *)
(* front being the most recently used, scanned linearly by getElement.     *)
(* GetSignature moves a hit to the front; PutSignature moves an existing   *)
(* key to the front (and returns, keeping the old value) or, when the      *)
(* list length equals the size, removes the back element and pushes the    *)
(* new item at the front.                                                  *)
(*                                                                         *)
(* The list primitives are written as operators on a list argument, so    *)
(* that Attestor can build the engine's own cache from them.  This module  *)
(* is the sigstorecache package as its code is written: each call atomic.  *)
(***************************************************************************)
EXTENDS Naturals, Sequences, SequencesExt

CONSTANTS
    Keys,       \* image IDs used as cache keys
    Values,     \* the selector lists stored under a key
    Capacity    \* Cacheimpl.size, set by NewCache(maximumAmountCache)

\* NewCache(0) would make the first PutSignature call Remove(nil) and
\* panic; the cache is modelled for a positive size.
ASSUME CapacityAssumption == Capacity \in Nat \ {0}

\* The value putValue holds for a key no PutSignature has been given yet.
NoValue == CHOOSE x : x \notin Values

VARIABLES
    items,      \* Cacheimpl.items, front = index 1
    putValue    \* history: the value of the latest PutSignature per key

vars == <<items, putValue>>

\* type Item struct { Key string; Value []oci.Signature }
Item == [key : Keys, value : Values]

-----------------------------------------------------------------------------
(* List primitives of container/list, on a list l of records with a key.   *)

\* Mutant: a scan that only looks at the front element.
getElementFrontOnly(l, key) == IF l # <<>> /\ l[1].key = key THEN 1 ELSE 0

\* getElement: the first element whose key is key, 0 standing for nil.
getElement(l, key) == SelectInSeq(l, LAMBDA i : i.key = key)

\* items.MoveToFront(e) for the element at position e.
MoveToFront(l, e) == Cons(l[e], RemoveAt(l, e))

\* Mutant: evicting the front (most recently used) element.
RemoveBackFromFront(l) == Tail(l)

\* items.Remove(items.Back()).
RemoveBack(l) == Front(l)

\* items.PushFront(i).
PushFront(l, i) == Cons(i, l)

\* Mutant: the eviction check off by one.
IsFullOffByOne(l) == Len(l) = Capacity + 1

\* The check `c.items.Len() == c.size` that precedes eviction.
IsFull(l) == Len(l) = Capacity

-----------------------------------------------------------------------------
Init ==
    /\ items = <<>>
    /\ putValue = [k \in Keys |-> NoValue]

\* GetSignature(key): a miss returns nil and leaves the list alone, a hit
\* moves the element to the front.
GetSignature(key) ==
    /\ getElement(items, key) # 0
    /\ items' = MoveToFront(items, getElement(items, key))
    /\ UNCHANGED putValue

\* PutSignature(i) for an existing key: move to front and return.
PutExisting(i) ==
    /\ getElement(items, i.key) # 0
    /\ items' = MoveToFront(items, getElement(items, i.key))

\* PutSignature(i) for a new key: evict the back when full, push at front.
PutNew(i) ==
    /\ getElement(items, i.key) = 0
    /\ items' = PushFront(IF IsFull(items) THEN RemoveBack(items) ELSE items, i)

PutSignature(i) ==
    /\ PutExisting(i) \/ PutNew(i)
    /\ putValue' = [putValue EXCEPT ![i.key] = i.value]

Next ==
    \/ \E k \in Keys : GetSignature(k)
    \/ \E i \in Item : PutSignature(i)

Spec == Init /\ [][Next]_vars

-----------------------------------------------------------------------------
(* Properties.                                                             *)

\* Type invariant; the list never grows past the size given to NewCache.
TypeOK ==
    /\ items \in Seq(Item)
    /\ Len(items) \in 0..Capacity
    /\ putValue \in [Keys -> Values \cup {NoValue}]

\* No key is held by two elements of the list: getElement only finds the
\* first, so a second copy would linger as a dead entry and a stale value.
KeysUnique ==
    \A p, q \in 1..Len(items) : items[p].key = items[q].key => p = q

\* Spec 4.5 and sigstorecache_test.go TestCacheimpl_PutSignature: a put of
\* an existing key overwrites its value, so every cached element holds the
\* value that the most recent PutSignature of its key gave.
PutOverwrites ==
    \A p \in 1..Len(items) : items[p].value = putValue[items[p].key]

\* The cache implements the abstract recency policy of spec 4.5: the keys
\* held, and which of two keys was used less recently, are those of LRUPolicy.
CachedKeys == {items[p].key : p \in 1..Len(items)}
Older ==
    {<<items[pq[1]].key, items[pq[2]].key>> :
        pq \in {pq \in (1..Len(items)) \X (1..Len(items)) : pq[1] > pq[2]}}
LRU == INSTANCE LRUPolicy WITH cached <- CachedKeys, older <- Older
LRUSpec == LRU!Spec

=============================================================================
