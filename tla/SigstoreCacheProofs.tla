------------------------ MODULE SigstoreCacheProofs ------------------------
(***************************************************************************)
(* Proofs about the list cache of SigstoreCache, for every set of keys and *)
(* values and every positive size.                                         *)
(***************************************************************************)
EXTENDS SigstoreCache, SequenceTheorems, WellFoundedInduction, TLAPS

-----------------------------------------------------------------------------
(* Lemmas about the operators the cache is built from.                     *)

\* A non-empty set of naturals has a least element, which is Min.
LEMMA MinOfNaturals ==
    ASSUME NEW S \in SUBSET Nat, S # {}
    PROVE  Min(S) \in S /\ \A y \in S : Min(S) <= y
<1>1. PICK x \in S : \A y \in S : ~(<<y, x>> \in OpToRel(<, Nat))
    BY NatLessThanWellFounded, WFMin
<1>2. ASSUME NEW y \in S, y < x PROVE <<y, x>> \in OpToRel(<, Nat)
    BY <1>2 DEF OpToRel
<1>3. \A y \in S : ~(y < x)
    BY <1>1, <1>2, Zenon
<1>4. \A y \in S : x <= y
    BY <1>3
<1>5. QED
    BY <1>4 DEF Min

\* getElement finds an element with the key, or returns 0 when none has it.
LEMMA GetElementFacts ==
    ASSUME NEW l \in Seq(Item), NEW k
    PROVE  /\ getElement(l, k) \in 0..Len(l)
           /\ getElement(l, k) = 0 <=> \A p \in 1..Len(l) : l[p].key # k
           /\ getElement(l, k) # 0 => l[getElement(l, k)].key = k
<1> DEFINE I == {i \in 1..Len(l) : l[i].key = k}
<1>1. getElement(l, k) = IF I # {} THEN Min(I) ELSE 0
    BY DEF getElement, SelectInSeq
<1>2. CASE I = {}
    BY <1>1, <1>2
<1>3. CASE I # {}
    <2>0. I \in SUBSET Nat
        OBVIOUS
    <2>1. Min(I) \in I
        BY <2>0, <1>3, MinOfNaturals
    <2>2. QED
        BY <1>1, <1>3, <2>1
<1>4. QED
    BY <1>2, <1>3

\* PushFront prepends: the new element first, the others shifted by one.
LEMMA PushFrontFacts ==
    ASSUME NEW S, NEW l \in Seq(S), NEW x \in S
    PROVE  /\ PushFront(l, x) \in Seq(S)
           /\ Len(PushFront(l, x)) = Len(l) + 1
           /\ \A j \in 1..Len(l) + 1 :
                PushFront(l, x)[j] = IF j = 1 THEN x ELSE l[j - 1]
BY ConcatProperties, EmptySeq DEF PushFront, Cons

\* The length SubSeq(s, 1, n - 1) has when s has n >= 1 elements.
LEMMA PredecessorLength ==
    ASSUME NEW n \in Nat, n >= 1
    PROVE  (IF 1 <= n - 1 THEN n - 1 ELSE 0) = n - 1
OBVIOUS

\* RemoveBack drops the last element and keeps the others in place.
LEMMA RemoveBackFacts ==
    ASSUME NEW S, NEW l \in Seq(S), l # <<>>
    PROVE  /\ RemoveBack(l) \in Seq(S)
           /\ Len(RemoveBack(l)) = Len(l) - 1
           /\ \A j \in 1..Len(l) - 1 : RemoveBack(l)[j] = l[j]
<1>1. \A i \in 1..Len(l) - 1 : l[i] \in S
    BY ElementOfSeq
<1>2. Len(l) \in Nat /\ Len(l) >= 1
    BY EmptySeq, LenProperties
<1>3. /\ SubSeq(l, 1, Len(l) - 1) \in Seq(S)
      /\ Len(SubSeq(l, 1, Len(l) - 1)) = IF 1 <= Len(l) - 1 THEN Len(l) - 1 ELSE 0
      /\ \A i \in 1..Len(l) - 1 : SubSeq(l, 1, Len(l) - 1)[i] = l[i]
    BY <1>1, <1>2, SubSeqProperties
<1>4. RemoveBack(l) = SubSeq(l, 1, Len(l) - 1)
    BY DEF RemoveBack, Front
<1>5. Len(SubSeq(l, 1, Len(l) - 1)) = Len(l) - 1
    <2> DEFINE n == Len(l)
    <2>1. n \in Nat /\ n >= 1
        BY <1>2
    <2>2. (IF 1 <= n - 1 THEN n - 1 ELSE 0) = n - 1
        BY <2>1, PredecessorLength
    <2>3. QED
        BY <1>3, <2>2, Zenon
<1>6. QED
    BY <1>3, <1>4, <1>5

\* MoveToFront takes the element at e to the front and shifts the ones
\* before it back by one.
LEMMA MoveToFrontFacts ==
    ASSUME NEW S, NEW l \in Seq(S), NEW e \in 1..Len(l)
    PROVE  /\ MoveToFront(l, e) \in Seq(S)
           /\ Len(MoveToFront(l, e)) = Len(l)
           /\ \A j \in 1..Len(l) :
                MoveToFront(l, e)[j] = IF j = 1 THEN l[e]
                                       ELSE IF j <= e THEN l[j - 1] ELSE l[j]
<1> DEFINE n == Len(l)
           A == SubSeq(l, 1, e - 1)
           B == SubSeq(l, e + 1, n)
           R == A \o B
<1>0. n \in Nat /\ e \in 1..n
    BY LenProperties
<1>1. A \in Seq(S) /\ Len(A) = e - 1 /\ \A i \in 1..e - 1 : A[i] = l[i]
    <2>1. \A i \in 1..e - 1 : l[i] \in S
        BY <1>0, ElementOfSeq
    <2>2. Len(A) = IF 1 <= e - 1 THEN e - 1 ELSE 0
        BY <2>1, <1>0, SubSeqProperties
    <2>3. (IF 1 <= e - 1 THEN e - 1 ELSE 0) = e - 1
        BY <1>0
    <2>4. QED
        BY <2>1, <2>2, <2>3, <1>0, SubSeqProperties
<1>2. B \in Seq(S) /\ Len(B) = n - e /\ \A i \in 1..n - e : B[i] = l[e + i]
    <2>1. \A i \in e + 1..n : l[i] \in S
        BY <1>0, ElementOfSeq
    <2>2. Len(B) = IF e + 1 <= n THEN n - (e + 1) + 1 ELSE 0
        BY <2>1, <1>0, SubSeqProperties
    <2>3. (IF e + 1 <= n THEN n - (e + 1) + 1 ELSE 0) = n - e
        BY <1>0
    <2>4. \A i \in 1..n - e : B[i] = l[e + 1 + i - 1]
        BY <2>1, <1>0, SubSeqProperties
    <2>5. QED
        BY <2>1, <2>2, <2>3, <2>4, <1>0, SubSeqProperties
<1> HIDE DEF A, B, R
<1>3. R \in Seq(S) /\ Len(R) = n - 1
      /\ \A i \in 1..n - 1 : R[i] = IF i <= e - 1 THEN l[i] ELSE l[i + 1]
    <2>1. R \in Seq(S) /\ Len(R) = Len(A) + Len(B)
        BY <1>1, <1>2, ConcatProperties DEF R
    <2>2. \A i \in 1..Len(A) + Len(B) :
                R[i] = IF i <= Len(A) THEN A[i] ELSE B[i - Len(A)]
        BY <1>1, <1>2, ConcatProperties DEF R
    <2>3. Len(A) + Len(B) = n - 1
        BY <1>0, <1>1, <1>2
    <2>4. ASSUME NEW i \in 1..n - 1
          PROVE  R[i] = IF i <= e - 1 THEN l[i] ELSE l[i + 1]
        <3>1. R[i] = IF i <= e - 1 THEN A[i] ELSE B[i - (e - 1)]
            BY <1>1, <2>2, <2>3
        <3>2. CASE i <= e - 1
            <4>1. i \in 1..e - 1
                BY <3>2, <1>0
            <4>2. QED
                BY <1>1, <3>1, <3>2, <4>1
        <3>3. CASE ~(i <= e - 1)
            <4>1. i - (e - 1) \in 1..n - e /\ e + (i - (e - 1)) = i + 1
                BY <3>3, <1>0
            <4>2. QED
                BY <1>2, <3>1, <3>3, <4>1
        <3>4. QED
            BY <3>2, <3>3
    <2>5. QED
        BY <2>1, <2>3, <2>4
<1>4. l[e] \in S
    BY <1>0, ElementOfSeq
<1>5. MoveToFront(l, e) = <<l[e]>> \o R
    BY DEF MoveToFront, Cons, RemoveAt, A, B, R
<1>6. <<l[e]>> \in Seq(S) /\ Len(<<l[e]>>) = 1
    BY <1>4
<1>7. /\ <<l[e]>> \o R \in Seq(S) /\ Len(<<l[e]>> \o R) = n
      /\ \A j \in 1..n : (<<l[e]>> \o R)[j] = IF j <= 1 THEN l[e] ELSE R[j - 1]
    <2>1. Len(<<l[e]>>) + Len(R) = n
        BY <1>0, <1>3, <1>6
    <2>2. QED
        BY <1>3, <1>6, <2>1, ConcatProperties
<1>8. ASSUME NEW j \in 1..n
      PROVE  (<<l[e]>> \o R)[j] = IF j = 1 THEN l[e]
                                  ELSE IF j <= e THEN l[j - 1] ELSE l[j]
    <2>1. CASE j = 1
        BY <1>7, <2>1
    <2>2. CASE j # 1
        <3>1. j - 1 \in 1..n - 1 /\ (j - 1 <= e - 1 <=> j <= e) /\ j - 1 + 1 = j
            BY <2>2, <1>0
        <3>2. QED
            BY <1>3, <1>7, <2>2, <3>1
    <2>3. QED
        BY <2>1, <2>2
<1>9. QED
    BY <1>5, <1>7, <1>8

-----------------------------------------------------------------------------
(* Type correctness: no call sequence makes the list longer than the size  *)
(* given to NewCache, since PutSignature evicts before pushing a new key   *)
(* exactly when Len equals the size.                                       *)

\* The initial cache is well typed.
LEMMA InitTypeOK == Init => TypeOK
BY CapacityAssumption DEF Init, TypeOK

\* A GetSignature hit keeps the list's type and length.
LEMMA GetSignatureTypeOK ==
    ASSUME TypeOK, NEW k \in Keys, GetSignature(k)
    PROVE  TypeOK'
<1> DEFINE e == getElement(items, k)
<1>1. e \in 1..Len(items)
    BY GetElementFacts DEF TypeOK, GetSignature
<1>2. items' \in Seq(Item) /\ Len(items') = Len(items)
    BY <1>1, MoveToFrontFacts DEF TypeOK, GetSignature
<1>3. QED
    BY <1>2 DEF TypeOK, GetSignature

\* A PutSignature keeps the list within the size and the history typed.
LEMMA PutSignatureTypeOK ==
    ASSUME TypeOK, NEW i \in Item, PutSignature(i)
    PROVE  TypeOK'
<1>1. putValue' \in [Keys -> Values \cup {NoValue}]
    BY DEF TypeOK, PutSignature, Item
<1>2. CASE PutExisting(i)
    <2>1. getElement(items, i.key) \in 1..Len(items)
        BY <1>2, GetElementFacts DEF TypeOK, PutExisting
    <2>2. items' \in Seq(Item) /\ Len(items') = Len(items)
        BY <1>2, <2>1, MoveToFrontFacts DEF TypeOK, PutExisting
    <2>3. QED
        BY <1>1, <2>2 DEF TypeOK
<1>3. CASE PutNew(i)
    <2>1. CASE IsFull(items)
        <3>1. items # <<>>
            BY <2>1, CapacityAssumption DEF IsFull
        <3>2. RemoveBack(items) \in Seq(Item)
              /\ Len(RemoveBack(items)) = Capacity - 1
            BY <2>1, <3>1, RemoveBackFacts DEF TypeOK, IsFull
        <3>3. items' = PushFront(RemoveBack(items), i)
            BY <1>3, <2>1 DEF PutNew
        <3>4. items' \in Seq(Item) /\ Len(items') = Capacity
            BY <3>2, <3>3, PushFrontFacts, CapacityAssumption
        <3>5. QED
            BY <1>1, <3>4, CapacityAssumption DEF TypeOK
    <2>2. CASE ~IsFull(items)
        <3>1. items' = PushFront(items, i)
            BY <1>3, <2>2 DEF PutNew
        <3>2. items' \in Seq(Item) /\ Len(items') = Len(items) + 1
            BY <3>1, PushFrontFacts DEF TypeOK
        <3>3. Len(items) + 1 \in 0..Capacity
            BY <2>2, CapacityAssumption DEF TypeOK, IsFull
        <3>4. QED
            BY <1>1, <3>2, <3>3 DEF TypeOK
    <2>3. QED
        BY <2>1, <2>2
<1>4. QED
    BY <1>2, <1>3 DEF PutSignature

\* Every step, or stutter, of the cache preserves the type invariant.
LEMMA NextTypeOK == TypeOK /\ [Next]_vars => TypeOK'
<1> SUFFICES ASSUME TypeOK, [Next]_vars PROVE TypeOK'
    OBVIOUS
<1>1. CASE \E k \in Keys : GetSignature(k)
    BY <1>1, GetSignatureTypeOK
<1>2. CASE \E i \in Item : PutSignature(i)
    BY <1>2, PutSignatureTypeOK
<1>3. CASE UNCHANGED vars
    BY <1>3 DEF TypeOK, vars
<1>4. QED
    BY <1>1, <1>2, <1>3 DEF Next

\* TypeOK holds in every reachable state of the cache: in particular the
\* list never exceeds Capacity when each call runs alone.
THEOREM TypeCorrect == Spec => []TypeOK
BY InitTypeOK, NextTypeOK, PTL DEF Spec

-----------------------------------------------------------------------------
(* Key uniqueness: getElement finds the first element with a key, so a     *)
(* second element with that key would never be found, moved or evicted     *)
(* in order.  Each list operation PutSignature and GetSignature apply      *)
(* keeps the keys distinct, given that a new key is only pushed after      *)
(* getElement missed it.                                                   *)

\* KeysUnique for an arbitrary list.
UniqueKeys(l) == \A p, q \in 1..Len(l) : l[p].key = l[q].key => p = q

\* Moving an element to the front permutes the list, so keys stay distinct.
LEMMA MoveToFrontUnique ==
    ASSUME NEW l \in Seq(Item), NEW e \in 1..Len(l), UniqueKeys(l)
    PROVE  UniqueKeys(MoveToFront(l, e))
<1> DEFINE f(j) == IF j = 1 THEN e ELSE IF j <= e THEN j - 1 ELSE j
<1>1. Len(MoveToFront(l, e)) = Len(l)
      /\ \A j \in 1..Len(l) : MoveToFront(l, e)[j] = l[f(j)]
    BY MoveToFrontFacts
<1>2. \A j \in 1..Len(l) : f(j) \in 1..Len(l)
    OBVIOUS
<1>3. \A p, q \in 1..Len(l) : f(p) = f(q) => p = q
    OBVIOUS
<1>4. SUFFICES ASSUME NEW p \in 1..Len(l), NEW q \in 1..Len(l),
                    MoveToFront(l, e)[p].key = MoveToFront(l, e)[q].key
             PROVE  p = q
    BY <1>1 DEF UniqueKeys
<1>5. l[f(p)].key = l[f(q)].key
    BY <1>1, <1>4
<1>6. f(p) = f(q)
    BY <1>2, <1>5 DEF UniqueKeys
<1>7. QED
    BY <1>3, <1>6

\* Pushing an item whose key the list lacks keeps keys distinct.
LEMMA PushFrontUnique ==
    ASSUME NEW l \in Seq(Item), NEW x \in Item, UniqueKeys(l),
           \A p \in 1..Len(l) : l[p].key # x.key
    PROVE  UniqueKeys(PushFront(l, x))
<1>1. Len(PushFront(l, x)) = Len(l) + 1
      /\ \A j \in 1..Len(l) + 1 :
            PushFront(l, x)[j] = IF j = 1 THEN x ELSE l[j - 1]
    BY PushFrontFacts
<1>2. \A j \in 2..Len(l) + 1 : j - 1 \in 1..Len(l)
    OBVIOUS
<1>3. SUFFICES ASSUME NEW p \in 1..Len(l) + 1, NEW q \in 1..Len(l) + 1,
                    PushFront(l, x)[p].key = PushFront(l, x)[q].key
             PROVE  p = q
    BY <1>1 DEF UniqueKeys
<1>4. CASE p = 1 /\ q = 1
    BY <1>4
<1>5. CASE p = 1 /\ q # 1
    BY <1>1, <1>2, <1>3, <1>5
<1>6. CASE p # 1 /\ q = 1
    BY <1>1, <1>2, <1>3, <1>6
<1>7. CASE p # 1 /\ q # 1
    <2>1. l[p - 1].key = l[q - 1].key
        BY <1>1, <1>3, <1>7
    <2>2. p - 1 = q - 1
        BY <1>2, <1>7, <2>1 DEF UniqueKeys
    <2>3. QED
        BY <2>2
<1>8. QED
    BY <1>4, <1>5, <1>6, <1>7

\* Evicting the back keeps the remaining keys distinct and adds none.
LEMMA RemoveBackUnique ==
    ASSUME NEW l \in Seq(Item), l # <<>>, UniqueKeys(l), NEW k
    PROVE  /\ UniqueKeys(RemoveBack(l))
           /\ (\A p \in 1..Len(l) : l[p].key # k)
                 => \A p \in 1..Len(RemoveBack(l)) : RemoveBack(l)[p].key # k
<1>1. Len(RemoveBack(l)) = Len(l) - 1
      /\ \A j \in 1..Len(l) - 1 : RemoveBack(l)[j] = l[j]
    BY RemoveBackFacts
<1>2. QED
    BY <1>1 DEF UniqueKeys

\* The inductive invariant: the type invariant with distinct keys.
IInv == TypeOK /\ KeysUnique

\* A GetSignature or PutSignature step keeps the keys distinct.
LEMMA NextKeysUnique == IInv /\ [Next]_vars => KeysUnique'
<1> SUFFICES ASSUME TypeOK, UniqueKeys(items), [Next]_vars
             PROVE  UniqueKeys(items')
    BY DEF IInv, KeysUnique, UniqueKeys
<1>1. items \in Seq(Item)
    BY DEF TypeOK
<1>2. CASE \E k \in Keys : GetSignature(k)
    <2>1. PICK k \in Keys : GetSignature(k)
        BY <1>2
    <2>2. getElement(items, k) \in 1..Len(items)
        BY <1>1, <2>1, GetElementFacts DEF GetSignature
    <2>3. QED
        BY <1>1, <2>1, <2>2, MoveToFrontUnique DEF GetSignature
<1>3. CASE \E i \in Item : PutSignature(i)
    <2>1. PICK i \in Item : PutSignature(i)
        BY <1>3
    <2>2. CASE PutExisting(i)
        <3>1. getElement(items, i.key) \in 1..Len(items)
            BY <1>1, <2>2, GetElementFacts DEF PutExisting
        <3>2. QED
            BY <1>1, <2>2, <3>1, MoveToFrontUnique DEF PutExisting
    <2>3. CASE PutNew(i)
        <3>1. \A p \in 1..Len(items) : items[p].key # i.key
            BY <1>1, <2>3, GetElementFacts DEF PutNew
        <3>2. CASE IsFull(items)
            <4>1. items # <<>>
                BY <3>2, CapacityAssumption DEF IsFull
            <4>2. /\ UniqueKeys(RemoveBack(items))
                  /\ \A p \in 1..Len(RemoveBack(items)) :
                        RemoveBack(items)[p].key # i.key
                BY <1>1, <3>1, <4>1, RemoveBackUnique
            <4>3. RemoveBack(items) \in Seq(Item)
                BY <1>1, <4>1, RemoveBackFacts
            <4>4. items' = PushFront(RemoveBack(items), i)
                BY <2>3, <3>2 DEF PutNew
            <4>5. QED
                BY <4>2, <4>3, <4>4, PushFrontUnique
        <3>3. CASE ~IsFull(items)
            <4>1. items' = PushFront(items, i)
                BY <2>3, <3>3 DEF PutNew
            <4>2. QED
                BY <1>1, <3>1, <4>1, PushFrontUnique
        <3>4. QED
            BY <3>2, <3>3
    <2>4. QED
        BY <2>1, <2>2, <2>3 DEF PutSignature
<1>4. CASE UNCHANGED vars
    BY <1>4 DEF vars, UniqueKeys
<1>5. QED
    BY <1>2, <1>3, <1>4 DEF Next

\* No reachable state of the cache holds two elements with the same key:
\* PutSignature only pushes a key after getElement found no element of it.
THEOREM KeysUniqueInvariant == Spec => []KeysUnique
<1>1. Init => IInv
    BY InitTypeOK DEF Init, IInv, KeysUnique
<1>2. IInv /\ [Next]_vars => IInv'
    BY NextTypeOK, NextKeysUnique DEF IInv
<1>3. IInv => KeysUnique
    BY DEF IInv
<1>4. QED
    BY <1>1, <1>2, <1>3, PTL DEF Spec

=============================================================================
