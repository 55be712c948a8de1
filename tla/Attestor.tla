----------------------------- MODULE Attestor ------------------------------
(***************************************************************************)
(* Concurrent attestation of containers (src/unnamed/part_000, package     *)
(* sigstore): each worker runs AttestContainerSignatures for one container *)
(* status at a time, on its own goroutine, against the policy sets (skip   *)
(* list, allow list) and the signature cache they share.                   *)
(*                                                                         *)
(* The cache is the sigstore package's own Cache interface (GetSignature,  *)
(* PutSignature over Items whose Value is []SelectorsFromSignatures).  Its *)
(* implementation is not under src/: it is modelled from spec 4.5 and 5 as *)
(* a mutex-guarded LRU list, so that each call is one atomic step, a put   *)
(* on a present key overwrites its value and moves it to the front, and    *)
(* no lock is held across the network calls between a miss and its put.   *)
(* The administrative calls that mutate the policy sets interleave too.    *)
(***************************************************************************)
EXTENDS Naturals, Sequences, SequencesExt

CONSTANTS
    Workers,     \* goroutines attesting containers
    Images,      \* image IDs of container statuses
    Subjects,    \* signer identities
    Sigs,        \* Sigs[i]: the signatures cosign verifies for image i
    Capacity,    \* size of the signature cache
    MaxAttests   \* attestations each worker makes (bounds the model)

Ex == INSTANCE Extractor

\* Every container status carries an image ID, so there is at least one.
ASSUME AttestorAssumption ==
    /\ Images # {}
    /\ Capacity \in Nat \ {0}
    /\ MaxAttests \in Nat
    /\ Sigs \in [Images -> Seq(Ex!Signature)]

VARIABLES
    items,             \* the cache list, most recently used first
    skippedImages,     \* Sigstoreimpl.skippedImages (nil taken as empty)
    allowListEnabled,  \* Sigstoreimpl.allowListEnabled
    subjectAllowList,  \* Sigstoreimpl.subjectAllowList
    pc,                \* where each worker is in AttestContainerSignatures
    image,             \* status.ImageID of the worker's current call
    sels,              \* the worker's selectors (ExtractSelectorsFromSignatures)
    sigIdx,            \* next signature ExtractSelectorsFromSignatures reads
    result,            \* what the worker's last call returned
    count              \* calls each worker has made

vars == <<items, skippedImages, allowListEnabled, subjectAllowList, pc,
          image, sels, sigIdx, result, count>>

\* The list primitives of the cache (Cons, RemoveAt, Front on sequences).
Cache == INSTANCE SigstoreCache WITH Keys <- Images,
            Values <- Seq(Subjects), putValue <- [i \in Images |-> <<>>]

\* The results: an error, or selectors with or without the sentinel
\* "sigstore-validation:passed" (subjects stand for the rendered strings).
Error == [kind |-> "error"]
Result(subjects, passed) == [kind |-> "ok", subjects |-> subjects, passed |-> passed]
Results == {Error, [kind |-> "none"]} \cup
           [kind : {"ok"}, subjects : Seq(Subjects), passed : BOOLEAN]

\* The engine cache's GetSignature (spec 4.5): a hit moves the image to
\* the most recently used position; the caller gets a copy of its item.
GetSignature(l, key) ==
    IF Cache!getElement(l, key) = 0 THEN l
    ELSE Cache!MoveToFront(l, Cache!getElement(l, key))

\* The engine cache's PutSignature (spec 4.5): a present key takes the new
\* value and moves to the front; a new one evicts the least recently used
\* item when the cache is full and is pushed at the front.
PutSignature(l, i) ==
    LET e == Cache!getElement(l, i.key) IN
    IF e # 0 THEN Cache!MoveToFront([l EXCEPT ![e] = i], e)
    ELSE Cache!PushFront(IF Cache!IsFull(l) THEN Cache!RemoveBack(l) ELSE l, i)

-----------------------------------------------------------------------------
Init ==
    /\ items = <<>>
    /\ skippedImages = {}
    /\ allowListEnabled = FALSE
    /\ subjectAllowList = {}
    /\ pc = [w \in Workers |-> "idle"]
    /\ image = [w \in Workers |-> CHOOSE i \in Images : TRUE]
    /\ sels = [w \in Workers |-> <<>>]
    /\ sigIdx = [w \in Workers |-> 1]
    /\ result = [w \in Workers |-> [kind |-> "none"]]
    /\ count = [w \in Workers |-> 0]

\* Rendering of AttestContainerSignatures (lines 403-413): the selectors of
\* a non-empty list and the sentinel, nothing for an empty list.
Render(w, value) ==
    /\ result' = [result EXCEPT ![w] = Result(value, value # <<>>)]
    /\ pc' = [pc EXCEPT ![w] = "idle"]

\* AttestContainerSignatures is called for a container of image i; the skip
\* check (ShouldSkipImage) returns the sentinel alone for a skipped image.
Start(w, i) ==
    /\ pc[w] = "idle" /\ count[w] < MaxAttests
    /\ count' = [count EXCEPT ![w] = @ + 1]
    /\ image' = [image EXCEPT ![w] = i]
    /\ sels' = [sels EXCEPT ![w] = <<>>]
    /\ IF i \in skippedImages
       THEN /\ result' = [result EXCEPT ![w] = Result(<<>>, TRUE)]
            /\ UNCHANGED pc
       ELSE /\ pc' = [pc EXCEPT ![w] = "lookup"]
            /\ result' = [result EXCEPT ![w] = [kind |-> "none"]]
    /\ UNCHANGED <<items, skippedImages, allowListEnabled, subjectAllowList,
                   sigIdx>>

\* Mutant: the hit renders the item at the front before it is moved there.
LookupReadsFront(w) ==
    /\ pc[w] = "lookup"
    /\ items' = GetSignature(items, image[w])
    /\ LET e == Cache!getElement(items, image[w]) IN
         IF e # 0 THEN Render(w, items[1].value)
         ELSE /\ pc' = [pc EXCEPT ![w] = "fetch"]
              /\ UNCHANGED result
    /\ UNCHANGED <<skippedImages, allowListEnabled, subjectAllowList, image,
                   sels, sigIdx, count>>

\* GetSignature(cacheKey): a hit is rendered at once, without the policy
\* being consulted again; a miss goes to the network.
Lookup(w) ==
    /\ pc[w] = "lookup"
    /\ items' = GetSignature(items, image[w])
    /\ LET e == Cache!getElement(items, image[w]) IN
         IF e # 0 THEN Render(w, items[e].value)
         ELSE /\ pc' = [pc EXCEPT ![w] = "fetch"]
              /\ UNCHANGED result
    /\ UNCHANGED <<skippedImages, allowListEnabled, subjectAllowList, image,
                   sels, sigIdx, count>>

\* FetchImageSignatures: parse, ValidateImage, cosign verification, all
\* over the network without a lock; any of them may fail, and an image
\* with no signatures always fails verification.
Fetch(w) ==
    /\ pc[w] = "fetch"
    /\ \/ /\ result' = [result EXCEPT ![w] = Error]
          /\ pc' = [pc EXCEPT ![w] = "idle"]
          /\ UNCHANGED sigIdx
       \/ /\ Sigs[image[w]] # <<>>
          /\ sigIdx' = [sigIdx EXCEPT ![w] = 1]
          /\ pc' = [pc EXCEPT ![w] = "extract"]
          /\ UNCHANGED result
    /\ UNCHANGED <<items, skippedImages, allowListEnabled, subjectAllowList,
                   image, sels, count>>

\* Mutant: the loop keeps selectors without checking Verified.
ExtractKeepsUnverified(w) ==
    /\ pc[w] = "extract"
    /\ LET sig == Sigs[image[w]][sigIdx[w]]
           sel == Ex!SelectorValuesFromSignature(sig, allowListEnabled,
                                                subjectAllowList)
       IN sels' = [sels EXCEPT ![w] = Append(@, sel.subject)]
    /\ sigIdx' = [sigIdx EXCEPT ![w] = @ + 1]
    /\ pc' = [pc EXCEPT ![w] = IF sigIdx[w] = Len(Sigs[image[w]])
                                THEN "store" ELSE "extract"]
    /\ UNCHANGED <<items, skippedImages, allowListEnabled, subjectAllowList,
                   image, result, count>>

\* One iteration of ExtractSelectorsFromSignatures: SelectorValuesFromSignature
\* reads the allow-list state as it is now, and a Verified one is kept.
Extract(w) ==
    /\ pc[w] = "extract"
    /\ LET sig == Sigs[image[w]][sigIdx[w]]
           sel == Ex!SelectorValuesFromSignature(sig, allowListEnabled,
                                                subjectAllowList)
       IN sels' = [sels EXCEPT ![w] = IF sel.verified THEN Append(@, sel.subject)
                                                      ELSE @]
    /\ sigIdx' = [sigIdx EXCEPT ![w] = @ + 1]
    /\ pc' = [pc EXCEPT ![w] = IF sigIdx[w] = Len(Sigs[image[w]])
                                THEN "store" ELSE "extract"]
    /\ UNCHANGED <<items, skippedImages, allowListEnabled, subjectAllowList,
                   image, result, count>>

\* Item{Key: image ID, Value: selectors} is put in the cache, and the
\* selectors are rendered.
Store(w) ==
    /\ pc[w] = "store"
    /\ items' = PutSignature(items, [key |-> image[w], value |-> sels[w]])
    /\ Render(w, sels[w])
    /\ UNCHANGED <<skippedImages, allowListEnabled, subjectAllowList, image,
                   sels, sigIdx, count>>

-----------------------------------------------------------------------------
(* The policy calls, made by the plugin's configuration at any time.       *)

PolicyUnchanged == UNCHANGED <<items, pc, image, sels, sigIdx, result, count>>

AddSkippedImage(i) ==
    /\ skippedImages' = skippedImages \cup {i}
    /\ UNCHANGED <<allowListEnabled, subjectAllowList>> /\ PolicyUnchanged

ClearSkipList ==
    /\ skippedImages' = {}
    /\ UNCHANGED <<allowListEnabled, subjectAllowList>> /\ PolicyUnchanged

AddAllowedSubject(s) ==
    /\ subjectAllowList' = subjectAllowList \cup {s}
    /\ UNCHANGED <<skippedImages, allowListEnabled>> /\ PolicyUnchanged

ClearAllowedSubjects ==
    /\ subjectAllowList' = {}
    /\ UNCHANGED <<skippedImages, allowListEnabled>> /\ PolicyUnchanged

EnableAllowSubjectList(flag) ==
    /\ allowListEnabled' = flag
    /\ UNCHANGED <<skippedImages, subjectAllowList>> /\ PolicyUnchanged

\* Every worker has made its calls.
Halted ==
    /\ \A w \in Workers : pc[w] = "idle" /\ count[w] = MaxAttests
    /\ UNCHANGED vars

Worker(w) ==
    \/ \E i \in Images : Start(w, i)
    \/ Lookup(w) \/ Fetch(w) \/ Extract(w) \/ Store(w)

Policy ==
    \/ \E i \in Images : AddSkippedImage(i)
    \/ ClearSkipList
    \/ \E s \in Subjects : AddAllowedSubject(s)
    \/ ClearAllowedSubjects
    \/ \E flag \in BOOLEAN : EnableAllowSubjectList(flag)

Next == (\E w \in Workers : Worker(w)) \/ Policy \/ Halted

\* Each goroutine is scheduled; the administrator need never act.
Spec == Init /\ [][Next]_vars /\ \A w \in Workers : WF_vars(Worker(w))

-----------------------------------------------------------------------------
(* Properties.                                                             *)

TypeOK ==
    /\ items \in Seq(Cache!Item)
    /\ skippedImages \in SUBSET Images
    /\ allowListEnabled \in BOOLEAN
    /\ subjectAllowList \in SUBSET Subjects
    /\ pc \in [Workers -> {"idle", "lookup", "fetch", "extract", "store"}]
    /\ image \in [Workers -> Images]
    /\ sels \in [Workers -> Seq(Subjects)]
    /\ sigIdx \in [Workers -> Nat \ {0}]
    /\ result \in [Workers -> Results]
    /\ count \in [Workers -> 0..MaxAttests]

\* The subjects the verified signatures of image i can yield.
SubjectsOf(i) ==
    {Ex!getSignatureSubject(Sigs[i][n]) :
        n \in {n \in DOMAIN Sigs[i] : ~Ex!SubjectError(Sigs[i][n])}}

\* A call never returns another image's selectors: whether they come from
\* its own extraction or from a cache item other workers put, overwrote,
\* moved or evicted while this one was on the network, every subject
\* returned for a container is one its own image's signatures carry.
ResultFromOwnImage ==
    \A w \in Workers :
        result[w].kind = "ok" => ToSet(result[w].subjects) \subseteq SubjectsOf(image[w])

\* Spec 1: results are never served from the cache once the allow-list
\* policy has changed meaning.  A call answered by a cache hit, while the
\* allow list is enabled, returns only allowed subjects.
CacheHitAllowed ==
    [][\A w \in Workers :
          (pc[w] = "lookup" /\ pc'[w] = "idle" /\ allowListEnabled)
              => ToSet(result'[w].subjects) \subseteq subjectAllowList]_vars

=============================================================================
