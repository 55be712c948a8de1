--------------------------- MODULE AttestorProofs ---------------------------
(***************************************************************************)
(* Proofs about the concurrent attestor of Attestor, for every set of      *)
(* workers, images and signers, every signature assignment and every       *)
(* positive cache size.                                                    *)
(*                                                                         *)
(* The cache is shared by the workers, and a worker holds the selectors it *)
(* extracts across the steps of other workers, which put, overwrite and    *)
(* evict cache items meanwhile.  What keeps a returned subject tied to the *)
(* caller's own image is that each holding is tied to its image: every    *)
(* cache item carries only subjects of its key, and the selectors being    *)
(* extracted only subjects of the worker's image.                          *)
(***************************************************************************)
EXTENDS Attestor, SequenceTheorems, TLAPS

\* The list lemmas of SigstoreCacheProofs, for the cache as Attestor uses it.
CP == INSTANCE SigstoreCacheProofs WITH Keys <- Images,
        Values <- Seq(Subjects), putValue <- [i \in Images |-> <<>>]

-----------------------------------------------------------------------------
(* Lemmas about the operators the model is built from.                     *)

\* The set of a sequence with one more element.
LEMMA ToSetAppend ==
    ASSUME NEW S, NEW s \in Seq(S), NEW x
    PROVE  ToSet(Append(s, x)) = ToSet(s) \cup {x}
<1>1. DOMAIN Append(s, x) = 1..Len(s) + 1 /\ DOMAIN s = 1..Len(s)
      /\ \A i \in 1..Len(s) + 1 : Append(s, x)[i] = IF i = Len(s) + 1 THEN x ELSE s[i]
    BY AppendProperties
<1>2. Len(s) \in Nat
    OBVIOUS
<1>3. QED
    BY <1>1, <1>2 DEF ToSet

\* The empty sequence has no elements.
LEMMA ToSetEmpty == ToSet(<<>>) = {}
BY DEF ToSet

\* The cache operators of Attestor are those of SigstoreCacheProofs.
LEMMA SameListOps ==
    /\ Cache!Item = CP!Item
    /\ \A l, k : Cache!getElement(l, k) = CP!getElement(l, k)
    /\ \A l, e : Cache!MoveToFront(l, e) = CP!MoveToFront(l, e)
    /\ \A l, x : Cache!PushFront(l, x) = CP!PushFront(l, x)
    /\ \A l : Cache!RemoveBack(l) = CP!RemoveBack(l)
    /\ \A l : Cache!IsFull(l) = CP!IsFull(l)
BY DEF Cache!Item, CP!Item, Cache!getElement, CP!getElement, Cache!SelectInSeq,
       CP!SelectInSeq, Cache!Min, CP!Min, Cache!MoveToFront, CP!MoveToFront, Cache!Cons, CP!Cons,
       Cache!RemoveAt, CP!RemoveAt, Cache!PushFront, CP!PushFront,
       Cache!RemoveBack, CP!RemoveBack, Cache!Front, CP!Front, Cache!IsFull,
       CP!IsFull

\* Moving an element to the front keeps the length, and every element of
\* the result was an element of the list.
LEMMA MovePerm ==
    ASSUME NEW S, NEW l \in Seq(S), NEW n \in 1..Len(l)
    PROVE  /\ CP!MoveToFront(l, n) \in Seq(S)
           /\ Len(CP!MoveToFront(l, n)) = Len(l)
           /\ \A j \in 1..Len(l) : \E p \in 1..Len(l) : CP!MoveToFront(l, n)[j] = l[p]
<1>1. /\ CP!MoveToFront(l, n) \in Seq(S)
      /\ Len(CP!MoveToFront(l, n)) = Len(l)
      /\ \A j \in 1..Len(l) :
            CP!MoveToFront(l, n)[j] = IF j = 1 THEN l[n]
                                      ELSE IF j <= n THEN l[j - 1] ELSE l[j]
    BY AttestorAssumption, CP!MoveToFrontFacts
<1>2. ASSUME NEW j \in 1..Len(l)
      PROVE  \E p \in 1..Len(l) : CP!MoveToFront(l, n)[j] = l[p]
    <2>1. CASE j = 1
        BY <1>1, <2>1
    <2>2. CASE j # 1 /\ j <= n
        <3>1. j - 1 \in 1..Len(l)
            BY <2>2
        <3>2. QED
            BY <1>1, <2>2, <3>1
    <2>3. CASE j # 1 /\ ~(j <= n)
        BY <1>1, <2>3
    <2>4. QED
        BY <2>1, <2>2, <2>3
<1>3. QED
    BY <1>1, <1>2

\* A GetSignature call permutes the list: every element after it was one
\* before it.
LEMMA GetSignatureFacts ==
    ASSUME NEW l \in Seq(Cache!Item), NEW k
    PROVE  /\ GetSignature(l, k) \in Seq(Cache!Item)
           /\ \A j \in 1..Len(GetSignature(l, k)) :
                 \E p \in 1..Len(l) : GetSignature(l, k)[j] = l[p]
<1> DEFINE e == CP!getElement(l, k)
<1>1. l \in Seq(CP!Item) /\ GetSignature(l, k) = IF e = 0 THEN l ELSE CP!MoveToFront(l, e)
    BY SameListOps DEF GetSignature
<1>2. e \in 0..Len(l)
    BY <1>1, AttestorAssumption, CP!GetElementFacts
<1>3. CASE e = 0
    BY <1>1, <1>3
<1>4. CASE e # 0
    <2>1. e \in 1..Len(l)
        BY <1>2, <1>4
    <2> HIDE DEF e
    <2>2. QED
        BY <1>1, <1>4, <2>1, MovePerm
<1>5. QED
    BY <1>3, <1>4

\* A PutSignature call leaves a list whose every element is the item put
\* or an element of the list before it.
LEMMA PutSignatureFacts ==
    ASSUME NEW l \in Seq(Cache!Item), NEW x \in Cache!Item
    PROVE  /\ PutSignature(l, x) \in Seq(Cache!Item)
           /\ \A j \in 1..Len(PutSignature(l, x)) :
                 \/ PutSignature(l, x)[j] = x
                 \/ \E p \in 1..Len(l) : PutSignature(l, x)[j] = l[p]
<1> DEFINE e == CP!getElement(l, x.key)
           r == IF CP!IsFull(l) THEN CP!RemoveBack(l) ELSE l
<1>1. /\ l \in Seq(CP!Item) /\ x \in CP!Item
      /\ PutSignature(l, x) = IF e # 0 THEN CP!MoveToFront([l EXCEPT ![e] = x], e)
                                       ELSE CP!PushFront(r, x)
    BY SameListOps DEF PutSignature
<1>2. e \in 0..Len(l)
    BY <1>1, AttestorAssumption, CP!GetElementFacts
<1>3. CASE e # 0
    <2> DEFINE m == [l EXCEPT ![e] = x]
    <2>1. e \in 1..Len(l)
        BY <1>2, <1>3
    <2>2. /\ m \in Seq(CP!Item) /\ Len(m) = Len(l)
          /\ \A p \in 1..Len(l) : m[p] = x \/ m[p] = l[p]
        BY <1>1, <2>1
    <2>3. e \in 1..Len(m)
        BY <2>1, <2>2
    <2> HIDE DEF m, e
    <2>4. /\ CP!MoveToFront(m, e) \in Seq(CP!Item)
          /\ Len(CP!MoveToFront(m, e)) = Len(m)
          /\ \A j \in 1..Len(m) : \E p \in 1..Len(m) : CP!MoveToFront(m, e)[j] = m[p]
        BY <2>2, <2>3, MovePerm
    <2>5. PutSignature(l, x) = CP!MoveToFront(m, e)
        BY <1>1, <1>3 DEF m, e
    <2>6. ASSUME NEW j \in 1..Len(PutSignature(l, x))
          PROVE  \/ PutSignature(l, x)[j] = x
                 \/ \E p \in 1..Len(l) : PutSignature(l, x)[j] = l[p]
        <3>1. PICK p \in 1..Len(m) : CP!MoveToFront(m, e)[j] = m[p]
            BY <2>4, <2>5
        <3>2. QED
            BY <2>2, <2>5, <3>1
    <2>7. QED
        BY <2>4, <2>5, <2>6, SameListOps
<1>4. CASE e = 0
    <2>1. /\ r \in Seq(CP!Item)
          /\ Len(r) \in Nat
          /\ \A j \in 1..Len(r) : \E p \in 1..Len(l) : r[j] = l[p]
        <3>1. CASE CP!IsFull(l)
            <4>1. l # <<>>
                BY <1>1, <3>1, AttestorAssumption DEF CP!IsFull
            <4>2. /\ CP!RemoveBack(l) \in Seq(CP!Item)
                  /\ Len(CP!RemoveBack(l)) = Len(l) - 1
                  /\ \A j \in 1..Len(l) - 1 : CP!RemoveBack(l)[j] = l[j]
                BY <1>1, <4>1, AttestorAssumption, CP!RemoveBackFacts
            <4>3. QED
                BY <3>1, <4>2
        <3>2. CASE ~CP!IsFull(l)
            BY <1>1, <3>2
        <3>3. QED
            BY <3>1, <3>2
    <2> HIDE DEF r
    <2>2. /\ CP!PushFront(r, x) \in Seq(CP!Item)
          /\ Len(CP!PushFront(r, x)) = Len(r) + 1
          /\ \A j \in 1..Len(r) + 1 :
                CP!PushFront(r, x)[j] = IF j = 1 THEN x ELSE r[j - 1]
        BY <1>1, <2>1, AttestorAssumption, CP!PushFrontFacts
    <2>3. ASSUME NEW j \in 1..Len(r) + 1, j # 1
          PROVE  \E p \in 1..Len(l) : CP!PushFront(r, x)[j] = l[p]
        <3>1. j - 1 \in 1..Len(r)
            BY <2>1, <2>3
        <3>2. QED
            BY <2>1, <2>2, <2>3, <3>1
    <2>4. QED
        BY <1>1, <1>4, <2>2, <2>3, SameListOps
<1>5. QED
    BY <1>3, <1>4

\* A verified selector carries the subject getSignatureSubject read from a
\* signature without error, and that subject is a signer.
LEMMA SelectorFacts ==
    ASSUME NEW sig \in Ex!Signature, NEW enabled, NEW allowed
    PROVE  LET sel == Ex!SelectorValuesFromSignature(sig, enabled, allowed)
           IN  /\ sel.verified \in BOOLEAN
               /\ sel.verified =>
                     /\ sel.subject = Ex!getSignatureSubject(sig)
                     /\ sel.subject \in Subjects
                     /\ ~Ex!SubjectError(sig)
<1>1. Ex!getSignatureSubject(sig) \in Subjects \cup {Ex!Empty}
    BY DEF Ex!getSignatureSubject, Ex!certSubject, Ex!StripLeadingSlashes,
           Ex!Signature, Ex!Certs, Ex!URI, Ex!Payloads
<1>2. QED
    BY <1>1 DEF Ex!SelectorValuesFromSignature

-----------------------------------------------------------------------------
(* The inductive invariant.                                                *)

\* ExtractSelectorsFromSignatures only reads signatures the image has.
ExtractRange ==
    \A w \in Workers : pc[w] = "extract" => sigIdx[w] \in 1..Len(Sigs[image[w]])

\* A cache item holds only subjects of its own key's signatures.
Sound(it) == ToSet(it.value) \subseteq SubjectsOf(it.key)

\* Every cache item is sound, whoever put it.
CacheSound == \A p \in 1..Len(items) : Sound(items[p])

\* The selectors a worker gathers are subjects of its own image.
SelsSound ==
    \A w \in Workers : ToSet(sels[w]) \subseteq SubjectsOf(image[w])

IInv ==
    /\ TypeOK
    /\ ExtractRange
    /\ CacheSound
    /\ SelsSound
    /\ ResultFromOwnImage

\* The initial state satisfies the invariant.
LEMMA InitIInv == Init => IInv
<1> SUFFICES ASSUME Init PROVE IInv
    OBVIOUS
<1>1. TypeOK
    <2>1. (CHOOSE i \in Images : TRUE) \in Images
        BY AttestorAssumption
    <2>2. [kind |-> "none"] \in Results
        BY DEF Results
    <2>3. items \in Seq(Cache!Item) /\ sels \in [Workers -> Seq(Subjects)]
        BY DEF Init
    <2>4. count \in [Workers -> 0..MaxAttests] /\ sigIdx \in [Workers -> Nat \ {0}]
        BY AttestorAssumption DEF Init
    <2>5. image \in [Workers -> Images] /\ result \in [Workers -> Results]
        BY <2>1, <2>2 DEF Init
    <2>6. QED
        BY <2>3, <2>4, <2>5 DEF Init, TypeOK
<1>2. SelsSound
    BY ToSetEmpty DEF Init, SelsSound
<1>3. QED
    BY <1>1, <1>2 DEF Init, IInv, ExtractRange, CacheSound, ResultFromOwnImage

-----------------------------------------------------------------------------
(* Each action keeps the invariant.                                        *)

\* The results Render gives for selectors of the right type are results.
LEMMA RenderResult ==
    ASSUME NEW v \in Seq(Subjects) PROVE Result(v, v # <<>>) \in Results
BY DEF Result, Results

\* A new call resets the worker's selectors and result before its lookup.
LEMMA StartIInv ==
    ASSUME IInv, NEW w \in Workers, NEW i \in Images, Start(w, i)
    PROVE  IInv'
<1>0. TypeOK
    BY DEF IInv
<1>1. TypeOK'
    <2>1. Result(<<>>, TRUE) \in Results /\ [kind |-> "none"] \in Results
        BY DEF Result, Results
    <2>2. count' \in [Workers -> 0..MaxAttests]
        BY <1>0, AttestorAssumption DEF Start, TypeOK
    <2>3. result' \in [Workers -> Results]
        BY <1>0, <2>1 DEF Start, TypeOK
    <2>4. image' \in [Workers -> Images] /\ sels' \in [Workers -> Seq(Subjects)]
        BY <1>0 DEF Start, TypeOK
    <2>5. QED
        BY <1>0, <2>2, <2>3, <2>4 DEF Start, TypeOK
<1>2. ExtractRange'
    BY <1>0 DEF ExtractRange, Start, IInv, TypeOK
<1>3. CacheSound'
    BY DEF CacheSound, Start, IInv
<1>4. SelsSound'
    BY <1>0, ToSetEmpty DEF SelsSound, Start, IInv, TypeOK
<1>5. ResultFromOwnImage'
    BY <1>0, ToSetEmpty DEF ResultFromOwnImage, Start, IInv, TypeOK, Result
<1>6. QED
    BY <1>1, <1>2, <1>3, <1>4, <1>5 DEF IInv

\* A cache hit renders the item found for the worker's image, which holds
\* only that image's subjects; the move keeps every item in the list.
LEMMA LookupIInv ==
    ASSUME IInv, NEW w \in Workers, Lookup(w)
    PROVE  IInv'
<1> DEFINE e == Cache!getElement(items, image[w])
<1>0. TypeOK /\ CacheSound /\ pc[w] = "lookup"
    BY DEF IInv, Lookup
<1>1. /\ e \in 0..Len(items)
      /\ e # 0 => items[e].key = image[w]
    BY <1>0, SameListOps, AttestorAssumption, CP!GetElementFacts DEF TypeOK
<1>2. /\ items' \in Seq(Cache!Item)
      /\ \A j \in 1..Len(items') : \E p \in 1..Len(items) : items'[j] = items[p]
    BY <1>0, GetSignatureFacts DEF Lookup, TypeOK
<1>3. CacheSound'
    BY <1>0, <1>2 DEF CacheSound
<1>4. CASE e # 0
    <2>1. e \in 1..Len(items) /\ items[e] \in Cache!Item
        BY <1>0, <1>1, <1>4 DEF TypeOK
    <2>2. items[e].value \in Seq(Subjects)
          /\ ToSet(items[e].value) \subseteq SubjectsOf(image[w])
        BY <1>0, <1>1, <2>1 DEF CacheSound, Sound, Cache!Item
    <2>3. /\ result' = [result EXCEPT ![w] = Result(items[e].value, items[e].value # <<>>)]
          /\ pc' = [pc EXCEPT ![w] = "idle"]
        BY <1>4 DEF Lookup, Render
    <2>4. TypeOK'
        <3>1. result' \in [Workers -> Results]
            BY <1>0, <2>2, <2>3, RenderResult DEF TypeOK
        <3>2. QED
            BY <1>0, <1>2, <2>3, <3>1 DEF Lookup, TypeOK
    <2>5. ResultFromOwnImage'
        BY <1>0, <2>2, <2>3 DEF Lookup, IInv, TypeOK, ResultFromOwnImage, Result
    <2>6. ExtractRange' /\ SelsSound'
        BY <1>0, <2>3 DEF Lookup, IInv, TypeOK, ExtractRange, SelsSound
    <2>7. QED
        BY <1>3, <2>4, <2>5, <2>6 DEF IInv
<1>5. CASE e = 0
    <2>1. pc' = [pc EXCEPT ![w] = "fetch"] /\ UNCHANGED result
        BY <1>5 DEF Lookup
    <2>2. TypeOK'
        BY <1>0, <1>2, <2>1 DEF Lookup, TypeOK
    <2>3. QED
        BY <1>0, <1>3, <2>1, <2>2 DEF Lookup, IInv, TypeOK, ExtractRange,
                                      SelsSound, ResultFromOwnImage
<1>6. QED
    BY <1>4, <1>5

\* FetchImageSignatures fails, or starts the extraction at the first of
\* the image's signatures, which exist.
LEMMA FetchIInv ==
    ASSUME IInv, NEW w \in Workers, Fetch(w)
    PROVE  IInv'
<1>0. TypeOK
    BY DEF IInv
<1>1. Sigs[image[w]] \in Seq(Ex!Signature)
    BY <1>0, AttestorAssumption DEF TypeOK
<1>2. CASE /\ result' = [result EXCEPT ![w] = Error]
           /\ pc' = [pc EXCEPT ![w] = "idle"]
           /\ UNCHANGED sigIdx
    <2>1. Error \in Results
        BY DEF Error, Results
    <2>2. QED
        BY <1>0, <1>2, <2>1 DEF Fetch, IInv, TypeOK, ExtractRange, CacheSound,
                                SelsSound, ResultFromOwnImage, Error
<1>3. CASE /\ Sigs[image[w]] # <<>>
           /\ sigIdx' = [sigIdx EXCEPT ![w] = 1]
           /\ pc' = [pc EXCEPT ![w] = "extract"]
           /\ UNCHANGED result
    <2>1. 1 \in 1..Len(Sigs[image[w]])
        BY <1>1, <1>3, EmptySeq, LenProperties
    <2>2. ExtractRange'
        BY <1>0, <1>3, <2>1 DEF Fetch, IInv, TypeOK, ExtractRange
    <2>3. TypeOK'
        BY <1>0, <1>3 DEF Fetch, TypeOK
    <2>4. CacheSound' /\ SelsSound' /\ ResultFromOwnImage'
        BY <1>3 DEF Fetch, IInv, CacheSound, SelsSound, ResultFromOwnImage
    <2>5. QED
        BY <2>2, <2>3, <2>4 DEF IInv
<1>4. QED
    BY <1>2, <1>3 DEF Fetch

\* One extraction step reads a signature the image has, and keeps its
\* subject only when it is verified, so the selectors stay the image's.
LEMMA ExtractIInv ==
    ASSUME IInv, NEW w \in Workers, Extract(w)
    PROVE  IInv'
<1> DEFINE sigs == Sigs[image[w]]
           sig == sigs[sigIdx[w]]
           sel == Ex!SelectorValuesFromSignature(sig, allowListEnabled, subjectAllowList)
<1>0. TypeOK /\ SelsSound /\ pc[w] = "extract"
    BY DEF IInv, Extract
<1>1. sigs \in Seq(Ex!Signature) /\ sigIdx[w] \in 1..Len(sigs)
    BY <1>0, AttestorAssumption DEF IInv, ExtractRange, TypeOK
<1>2. sig \in Ex!Signature
    BY <1>1
<1>3. /\ sel.verified \in BOOLEAN
      /\ sel.verified => /\ sel.subject = Ex!getSignatureSubject(sig)
                          /\ sel.subject \in Subjects
                          /\ ~Ex!SubjectError(sig)
    BY <1>2, SelectorFacts
<1>4. /\ sels' = [sels EXCEPT ![w] = IF sel.verified THEN Append(sels[w], sel.subject)
                                                    ELSE sels[w]]
      /\ sigIdx' = [sigIdx EXCEPT ![w] = sigIdx[w] + 1]
      /\ pc' = [pc EXCEPT ![w] = IF sigIdx[w] = Len(sigs) THEN "store" ELSE "extract"]
    BY <1>0 DEF Extract, TypeOK
<1>5. sels[w] \in Seq(Subjects) /\ ToSet(sels[w]) \subseteq SubjectsOf(image[w])
    BY <1>0 DEF TypeOK, SelsSound
<1>6. /\ sels'[w] \in Seq(Subjects)
      /\ ToSet(sels'[w]) \subseteq SubjectsOf(image[w])
    <2>1. CASE sel.verified
        <3>1. sel.subject \in SubjectsOf(image[w])
            BY <1>1, <1>3, <2>1 DEF SubjectsOf
        <3>2. ToSet(Append(sels[w], sel.subject)) = ToSet(sels[w]) \cup {sel.subject}
            BY <1>5, ToSetAppend
        <3>3. QED
            BY <1>0, <1>3, <1>4, <1>5, <2>1, <3>1, <3>2 DEF TypeOK
    <2>2. CASE ~sel.verified
        BY <1>0, <1>4, <1>5, <2>2 DEF TypeOK
    <2>3. QED
        BY <2>1, <2>2
<1>7. TypeOK'
    <2>1. sels' \in [Workers -> Seq(Subjects)]
        BY <1>0, <1>4, <1>6 DEF TypeOK
    <2>2. sigIdx' \in [Workers -> Nat \ {0}]
        BY <1>0, <1>4 DEF TypeOK
    <2>3. QED
        BY <1>0, <1>4, <2>1, <2>2 DEF Extract, TypeOK
<1>8. ExtractRange'
    BY <1>0, <1>1, <1>4 DEF Extract, IInv, TypeOK, ExtractRange
<1>9. SelsSound'
    BY <1>0, <1>4, <1>6 DEF Extract, TypeOK, SelsSound
<1>10. CacheSound' /\ ResultFromOwnImage'
    BY DEF Extract, IInv, CacheSound, ResultFromOwnImage
<1>11. QED
    BY <1>7, <1>8, <1>9, <1>10 DEF IInv

\* The put stores an item of the worker's image holding its selectors, so
\* the cache stays sound whether the put overwrites, evicts or pushes; the
\* worker renders those same selectors.
LEMMA StoreIInv ==
    ASSUME IInv, NEW w \in Workers, Store(w)
    PROVE  IInv'
<1> DEFINE x == [key |-> image[w], value |-> sels[w]]
<1>0. TypeOK /\ CacheSound /\ SelsSound /\ pc[w] = "store"
    BY DEF IInv, Store
<1>1. x \in Cache!Item /\ Sound(x)
    BY <1>0 DEF TypeOK, SelsSound, Cache!Item, Sound
<1>2. /\ items' \in Seq(Cache!Item)
      /\ \A j \in 1..Len(items') :
            items'[j] = x \/ \E p \in 1..Len(items) : items'[j] = items[p]
    <2>1. items \in Seq(Cache!Item) /\ items' = PutSignature(items, x)
        BY <1>0 DEF TypeOK, Store
    <2> HIDE DEF x
    <2>2. QED
        BY <1>1, <2>1, PutSignatureFacts
<1>3. CacheSound'
    <2>1. SUFFICES ASSUME NEW j \in 1..Len(items') PROVE Sound(items'[j])
        BY DEF CacheSound
    <2>2. QED
        BY <1>0, <1>1, <1>2 DEF CacheSound
<1>4. /\ result' = [result EXCEPT ![w] = Result(sels[w], sels[w] # <<>>)]
      /\ pc' = [pc EXCEPT ![w] = "idle"]
    BY DEF Store, Render
<1>5. TypeOK'
    <2>1. result' \in [Workers -> Results]
        BY <1>0, <1>4, RenderResult DEF TypeOK
    <2>2. QED
        BY <1>0, <1>2, <1>4, <2>1 DEF Store, TypeOK
<1>6. ResultFromOwnImage'
    BY <1>0, <1>4 DEF Store, IInv, TypeOK, SelsSound, ResultFromOwnImage, Result
<1>7. ExtractRange' /\ SelsSound'
    BY <1>0, <1>4 DEF Store, IInv, TypeOK, ExtractRange, SelsSound
<1>8. QED
    BY <1>3, <1>5, <1>6, <1>7 DEF IInv

\* The policy calls change only the skip list and the allow list, which
\* the invariant does not mention beyond their types.
LEMMA PolicyIInv ==
    ASSUME IInv, Policy
    PROVE  IInv'
<1>0. TypeOK
    BY DEF IInv
<1>1. PolicyUnchanged
    BY DEF Policy, AddSkippedImage, ClearSkipList, AddAllowedSubject,
           ClearAllowedSubjects, EnableAllowSubjectList
<1>2. /\ skippedImages' \in SUBSET Images
      /\ allowListEnabled' \in BOOLEAN
      /\ subjectAllowList' \in SUBSET Subjects
    BY <1>0 DEF Policy, AddSkippedImage, ClearSkipList, AddAllowedSubject,
                ClearAllowedSubjects, EnableAllowSubjectList, TypeOK
<1>3. TypeOK'
    BY <1>0, <1>1, <1>2 DEF PolicyUnchanged, TypeOK
<1>4. QED
    BY <1>1, <1>3 DEF PolicyUnchanged, IInv, ExtractRange, CacheSound,
                      SelsSound, ResultFromOwnImage

\* Every step of the agent, a stutter included, keeps the invariant.
LEMMA NextIInv == IInv /\ [Next]_vars => IInv'
<1> SUFFICES ASSUME IInv, [Next]_vars PROVE IInv'
    OBVIOUS
<1>1. CASE \E w \in Workers : Worker(w)
    <2>1. PICK w \in Workers : Worker(w)
        BY <1>1
    <2>2. QED
        BY <2>1, StartIInv, LookupIInv, FetchIInv, ExtractIInv, StoreIInv
        DEF Worker
<1>2. CASE Policy
    BY <1>2, PolicyIInv
<1>3. CASE Halted \/ UNCHANGED vars
    <2>1. UNCHANGED vars
        BY <1>3 DEF Halted
    <2>2. QED
        BY <2>1 DEF vars, IInv, TypeOK, ExtractRange, CacheSound, SelsSound,
                    ResultFromOwnImage
<1>4. QED
    BY <1>1, <1>2, <1>3 DEF Next

-----------------------------------------------------------------------------
(* The theorems.                                                           *)

\* Type correctness of the attestor: every variable keeps its type under
\* any interleaving of the workers' calls and the policy calls; in
\* particular an extraction only reads a signature the image has.
THEOREM TypeCorrect == Spec => []TypeOK
<1>1. IInv => TypeOK
    BY DEF IInv
<1>2. QED
    BY <1>1, InitIInv, NextIInv, PTL DEF Spec

\* AttestContainerSignatures never returns selectors of another image:
\* whatever the interleaving of the workers (another worker's put, which
\* overwrites, evicts or pushes, between a worker's miss and its own put,
\* or between a put and a later hit), every subject in an "ok" result is
\* one that a verified signature of the caller's image carries.
THEOREM ResultFromOwnImageHolds == Spec => []ResultFromOwnImage
<1>1. IInv => ResultFromOwnImage
    BY DEF IInv
<1>2. QED
    BY <1>1, InitIInv, NextIInv, PTL DEF Spec

=============================================================================
