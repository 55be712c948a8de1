# TLA+ models of the sigstore workload attestor

This directory holds TLA+ models of the image-signature attestation engine.
The engine lives in `src/unnamed/part_000` (package `sigstore`). Three more
parts are modelled:

- the list cache of `src/unnamed/part_002` (package `sigstorecache`, lines
  1-77);
- the earlier attestor variant,
  `src/pkg/agent/plugin/workloadattestor/k8s/sigstore/sigstore.go`;
- the Kubernetes workload registrar webhook,
  `src/support/k8s/k8s-workload-registrar/controller.go`.

The directory also holds TLC configurations that model-check the models on
small instances, and TLAPS proofs for every instance.

## The system

A SPIRE agent calls `AttestContainerSignatures` once per container status.
Each call runs on its own goroutine. The call goes through these steps:

1. It checks the skip list (`ShouldSkipImage`). A skipped image returns only
   the sentinel selector `sigstore-validation:passed`.
2. It looks up the image ID in the signature cache (`GetSignature`).
3. On a miss, `FetchImageSignatures` runs. It parses the reference and
   validates the manifest digest, then has cosign verify the signatures
   against Rekor. Any failure ends the call with an error.
4. `ExtractSelectorsFromSignatures` runs `SelectorValuesFromSignature` on each
   signature. That function derives a subject (`getSignatureSubject`,
   `certSubject`), applies the allow list, and keeps only the Verified
   selectors.
5. The selector list is stored in the cache (`PutSignature`).
6. The call renders the list. A non-empty list gets the sentinel appended.

The cache and the three policy fields (`skippedImages`, `allowListEnabled`,
`subjectAllowList`) are shared by every call. Administrative calls
(`AddSkippedImage`, `ClearSkipList`, `AddAllowedSubject`,
`ClearAllowedSubjects`, `EnableAllowSubjectList`) can change the policy
fields at any time.

The engine's cache is the `sigstore` package's own `Cache` interface
(`New(cache Cache, ...)`, part_000). Its items hold
`[]SelectorsFromSignatures` (part_000:395). Its implementation is not under
`src/`, so it is modelled from spec 4.5 and 5:

- a bounded LRU list guarded by a mutex for each structural read or write;
- `GetSignature` moves a hit to the front;
- `PutSignature` of a present key overwrites its value and moves it to the
  front; a new key evicts the least recently used one when full.

No lock is held across the network calls between a miss and its put. The
policy maps take no lock.

`part_002` is a different package, `sigstorecache`. It is a
`container/list` with its front as the most recently used element, plus a
size. `getElement` scans the list linearly. It takes no lock, and a put of a
present key keeps the old value. The engine does not import it: its `Item`
holds `[]oci.Signature` (part_002:12). It is modelled on its own, as
`SigstoreCache`.

## Modules

| Module | Models | State | Actions |
|---|---|---|---|
| `SigstoreCache` | part_002 1-77, each call atomic | `items` (the list, front = index 1); `putValue` (history: last value put per key) | `GetSignature`, `PutSignature` (= `PutExisting` or `PutNew`) |
| `LRUPolicy` | spec 4.5, the abstract cache | `cached` (set of keys), `older` (recency relation) | `Get`, `PutCached`, `PutFresh`, `PutEvict` |
| `Extractor` | part_000 133-164, 218-264, 283-295 | none (pure operators) | `getSignatureSubject`, `certSubject`, `SelectorValuesFromSignature` |
| `Attestor` | part_000 46-131, 296-414; the engine cache from spec 4.5 | cache list, policy sets, per-worker `pc`, `image`, `sels`, `sigIdx`, `result`, `count` | one action per step of `AttestContainerSignatures` (a cache call is one step), one per policy call |
| `LegacyExtractor` | sigstore.go 34-140 (and its copy, controller.go 346-424) | none (pure operators) | `FetchSignaturePayload`, `ExtractselectorOfSignedImage`, `getSubjectImage`, `getOnlySubject`, `certSubject` |
| `Registrar` | controller.go 57-337, against the SPIRE entry API and the API server | server `entries`, `nextId`; the API server's `pods`; `initialized`, `restarts`; per handler `pc`, `req`, `entry`, `ids`, `allowed` | `Initialize`, `Receive`, `Fetch`, `Create`, `List`, `Delete`, `Respond`, `Restart` |
| `MCSigstoreCache`, `MCAttestor`, `MCLegacyExtractor`, `MCRegistrar` | TLC instances | | |
| `SigstoreCacheProofs` | TLAPS proofs about `SigstoreCache` | | |
| `RegistrarProofs` | TLAPS proofs about `Registrar` | | |
| `LRURefinementProofs` | TLAPS proof that `SigstoreCache` refines `LRUPolicy` | | |
| `AttestorProofs` | TLAPS proofs about `Attestor` | | |

**SigstoreCache.** The list primitives of `container/list` are operators on
a list argument: `getElement` (SelectInSeq; 0 stands for nil),
`MoveToFront`, `RemoveBack`, `PushFront`, and `IsFull` (`Len() == size`).
`Attestor` reuses these sequence operators through `INSTANCE` for its own
cache. `GetSignature` is enabled only on
a hit, because a miss changes nothing. `PutExisting` moves the element to
the front and, like the code, keeps its old value. `PutNew` evicts the back
when the list is full and then pushes. `putValue` is a history variable. It
records what the latest put said, so that a property can compare it with
what the cache holds. The refinement mapping to `LRUPolicy` sends `cached`
to the set of keys in the list and `older` to the pairs of keys in list
order.

**Extractor.** A signature is abstracted to what decides its subject:

- the payload: an error, JSON that does not decode, or a decoded payload
  whose optional subject is present or absent;
- the certificate: an error, nil, or its first e-mail address and first URI.

A URI carries zero or two leading slashes, which `certSubject`'s regexp
strips. The bundle fields (content, log ID, integrated time) only add
rendered strings and are left out.

**Attestor.** Each worker follows `AttestContainerSignatures` through these
`pc` values:

1. `Start`: the skip check. A skipped image returns the sentinel at once.
2. `Lookup`: `GetSignature`. A hit moves the item to the front, and the
   call renders the item's selectors without consulting the policy again.
   A miss goes to `fetch`.
3. `Fetch`: an error, which ends the call, or the image's signatures.
4. `Extract`: one loop iteration per signature. It reads the allow list as
   it is at that step.
5. `Store`: `PutSignature` of `Item{image ID, selectors}`, then the call
   renders its own selectors.

`GetSignature` and `PutSignature` are the operators of the same names. They
are modelled from spec 4.5 and 5 (marked `spec_modelled` in the map), so each
call is one atomic step. Between a worker's miss and its put, other workers
and the policy calls run freely, as they do while the code is on the
network. The signatures each image verifies to are the constant `Sigs`. A
fetch of an image with no signatures fails, because cosign reports that no
signatures matched.

**LegacyExtractor.** `getSubjectImage` does not read the subject directly.
It stores the certificate's subject under the map key `"Subject"` of each
payload's `Optional`, marshals the list to JSON, and decodes it again into a
struct whose field `Subject` matches the keys `"Subject"` and `"subject"`
alike. The model keeps what that round trip does:

- `json.Marshal` sorts map keys, so `"Subject"` comes before `"subject"`;
- `json.Unmarshal` assigns both keys to the field in that order, so the
  payload's `"subject"` wins (`DecodedSubject`);
- a value that is not a string fails the decode, and the result is `""`
  (`TypeError`);
- `fmt "%s"` renders the first element, and a regexp deletes every brace
  (`StripBraces`).

A string is abstracted to its identity, its leading slashes (a URI renders
with them) and whether it contains braces. `MCLegacyExtractor` fixes one
verified payload in the initial state and enumerates every such payload over
two identities. Its Init keeps only certificates that name the signer, as
Fulcio's always do.

**Registrar.** Each admission review is served on its own goroutine, a
handler here. A handler takes these steps, with `pc` values:

1. `Receive` (`ReviewAdmission`, `reviewAdmission`, `podSpiffeID`). A review
   of a disabled namespace, of another kind or of another operation is
   allowed at once. So is a CREATE of a pod with no SPIFFE ID. Otherwise a
   CREATE goes to `fetch` and a DELETE to `list`.
2. `Fetch` (`createPodEntry`). `getSignaturePayload` of the image named in
   the code, `registry.me:5000/spire-agent:latest-local`, fails (the error is
   only logged) or yields its payloads. The entry gets the ns, pod-name and
   image-signature-subject selectors.
3. `Create` (`createEntry`). `BatchCreateEntry` answers OK, AlreadyExists or
   an error. Only OK and AlreadyExists let the review pass.
4. `List`, then `Delete` (`deletePodEntry`). `ListEntries` by the ns and
   pod-name selectors, then `BatchDeleteEntry` of the listed IDs. Either call
   can fail, and each ID can fail on its own. NotFound counts as done.
5. `Respond`. The API server persists an allowed CREATE unless the name is
   taken, and removes the pod on an allowed DELETE. A failed review rejects
   the operation, because the webhook's failure policy is Fail.

The SPIRE server is modelled from its API contract:

- IDs are handed out in increasing order;
- AlreadyExists is answered for an entry with the same parent, SPIFFE ID and
  selectors;
- `ListEntries BySelectors` matches exactly when `MatchExact` is TRUE. That
  is SPIRE's default `MATCH_EXACT`, which the code gets because it sets no
  `Match` field. When `MatchExact` is FALSE, it matches every entry holding
  the selectors.

Only `MatchExact = TRUE` is the code as written, and there `List` never
finds a pod entry (finding 5), so `Delete` removes nothing. The runs
`registrar_webhook` and `registrar_answers` set `MatchExact = FALSE`, the
subset match (`MATCH_SUBSET`) the deletion is written for. They check the
list-then-delete protocol as it runs once the filter matches: which entries
it may remove, and that every review is answered. They say nothing about
the exact-match server the code talks to today.

`Restart` is a fault: the registrar process restarts, or the API server
times the webhook out. Every review in flight fails, and `Initialize` runs
again. It is bounded by `MaxRestarts`, and entry IDs by `MaxIds`.

## Runs

| Run | Config | Expect | Properties | Bounds |
|---|---|---|---|---|
| cache_lru | MCSigstoreCache.cfg | pass | TypeOK, KeysUnique, LRUSpec | 4 keys, 2 values, capacity 3 (4,817 states) |
| cache_put_overwrite | MCSigstoreCache_overwrite.cfg | violation | PutOverwrites | capacity 2 |
| attest_concurrent | MCAttestor.cfg | pass | TypeOK, ResultFromOwnImage | 2 workers, 3 images, 2 subjects, capacity 2, 2 calls each |
| attest_cached_policy | MCAttestor_CacheHitPolicy.cfg | violation | CacheHitAllowed | as above |
| legacy_subject_signer | MCLegacyExtractor.cfg | violation | LegacySubjectIsSigner | every single payload over 2 identities |
| legacy_cert_preferred | MCLegacyExtractor_cert.cfg | violation | CertificatePreferred | as above |
| registrar_webhook | MCRegistrar.cfg | pass | DeleteOnlyOwnEntries | 2 handlers, 4 pod objects in 2 namespaces, 3 entry IDs, 1 restart, superset matching (578,012 states) |
| registrar_answers | MCRegistrar_live.cfg | pass | ReviewsAnswered | as above with 2 entry IDs (67,500 states) |
| registrar_exact_delete | MCRegistrar_Exact.cfg | violation | NoEntryForDeletedPod | exact matching, 1 restart |

**The properties:**

- **KeysUnique:** a key is held by at most one element. `getElement` finds
  only the first one, so a second copy would be dead weight that still
  counts toward the capacity.
- **LRUSpec:** the cache implements the abstract recency policy of spec 4.5.
  A wrong eviction choice, or a recency update that is missing, breaks it.
- **PutOverwrites:** each cached value is the one the latest put of its key
  gave. This is what spec 4.5 and `TestCacheimpl_PutSignature` promise.
- **ResultFromOwnImage:** a worker never returns a subject that its own
  image's signatures do not carry. This must hold while other workers'
  puts overwrite, evict and reorder the cache between this worker's miss
  and its put, and between a put and a later hit.
- **CacheHitAllowed:** an action property. A call answered by a cache hit
  while the allow list is enabled returns only allowed subjects. It is
  spec 1's "never served from cache if skip/allow policy state has changed
  meaning".
- **LegacySubjectIsSigner, CertificatePreferred:** spec 4.3 for the legacy
  extraction. The selector is empty or the signer's identity, and the
  certificate's identity is preferred.
- **DeleteOnlyOwnEntries:** an action property. A step removes only entries
  holding the ns and pod-name selectors of a pod whose DELETE review a
  handler is serving. The listed IDs are deleted one RPC later, after other
  reviews have created and deleted entries.
- **ReviewsAnswered:** every review a handler takes is answered, or dropped
  by a restart.
- **NoEntryForDeletedPod:** when no review is in flight, every pod entry
  belongs to a pod the API server holds.

**Why these bounds are enough:**

- **Cache model.** Four keys over capacity 3 reach evictions, hits, refreshes
  of the back element, and re-insertion of an evicted key.
- **Concurrent model.** The MCAttestor images cover every path:
  - image i1 has a payload subject and no certificate;
  - image i2 has a certificate subject that overrides the payload, and a
    malformed payload that is dropped;
  - image i3 has a payload subject as well, so three images compete for a
    two-item cache and every put of a new image can evict.
- **Interleavings.** Two workers with two calls each reach every interleaving
  of two calls: hits on the front and on the back item, two misses of one
  image whose puts land in either order, and evictions between a miss and
  its put. The policy calls interleave at every step.
- **Registrar.** The pod objects cover every path of `reviewAdmission`:
  - two pods share namespace n1, so a delete that filters too little removes
    the other pod's entry;
  - pod b exists with and without the label;
  - pod c is in the disabled namespace n2.

  The agent image has one signature with a certificate, and its fetch may
  fail, so entries differ in their subject selector. Two handlers give every
  interleaving of a CREATE and a DELETE review of one name. Three IDs allow
  the node entry plus two pod entries.

**Fairness.** `Spec` of Attestor has weak fairness for each worker, because
every goroutine the agent starts is scheduled. The administrative calls have
no fairness, because nobody is obliged to make them. In `Registrar`, each
handler is weakly fair while it serves a review, because the webhook server
runs every request's goroutine to its end. `Initialize` is weakly fair,
because the process retries it. Nothing obliges the API server to send
reviews, and the server may fail every call. No liveness property is
checked yet. `Halted` is a stutter disjunct for an agent whose workers are
all done, so that TLC does not report that end as deadlock.

**Mutants.** Each property of a passing run is broken by a plausible bug:

- `IsFullOffByOne` breaks TypeOK;
- `getElementFrontOnly` breaks KeysUnique;
- `RemoveBackFromFront` breaks LRUSpec;
- `ExtractKeepsUnverified` (keeps unverified selectors) breaks TypeOK;
- `LookupReadsFront` (a hit renders the item at the front before the found
  one is moved there) breaks ResultFromOwnImage;
- `ListNamespaceOnly` (lists by namespace alone) breaks DeleteOnlyOwnEntries;
- `CreateRetries` (retries `createEntry` until it answers OK) breaks
  ReviewsAnswered.

## Findings

1. **The put does not overwrite (cache_put_overwrite).** `PutSignature` of a
   cached key keeps the stale value (part_002:55-57). Spec 4.5 and both cache
   test files expect the new value.
2. **Cache hits bypass the allow list (attest_cached_policy).** A worker
   caches s1 for image i1 while the allow list is disabled. The
   administrator then enables the (empty) allow list, and a later call for
   i1 hits the cache and still returns s1 (part_000:384). Spec 1 says a
   result must never be served from the cache once the policy has changed
   meaning. Spec 6 and 9 record the bypass as the source's behaviour and an
   open question.
3. **Brace stripping (legacy_subject_signer).** The legacy extraction deletes
   every brace of the subject, so a subject containing braces becomes
   another identity's string (sigstore.go:96).
4. **The payload overrides the certificate (legacy_cert_preferred).** The
   certificate's subject is written under `"Subject"`, but the JSON round
   trip lets the payload's own `"subject"` win, so the signer names any
   subject it likes (sigstore.go:116).
5. **Entries outlive their pods (registrar_exact_delete).** `createPodEntry`
   registers three selectors, but `deletePodEntry` lists with two and
   SPIRE's default exact matching. No pod entry is ever found, so even one
   create followed by one delete leaves the entry (controller.go:215). A
   restart after `BatchCreateEntry` leaves an entry for a rejected pod in
   the same way, and the run allows one.

The subject selector is derived from a fixed image, not from the pod's own
images (controller.go:188, "Todo: get Image Name???"). The model keeps this:
every pod entry carries the subject of that one image.

## Proofs (SigstoreCacheProofs)

Both theorems hold for all `Keys`, `Values` and any `Capacity \in Nat \ {0}`
(`CapacityAssumption`).

- **`TypeCorrect`:** `Spec => []TypeOK`. The list stays within `Capacity`.
- **`KeysUniqueInvariant`:** `Spec => []KeysUnique`. It is proved through
  the inductive invariant `IInv == TypeOK /\ KeysUnique`. KeysUnique alone
  is not inductive: the proof needs the list's type to know what
  `getElement` returns.

The proofs rest on these lemmas:

- **MinOfNaturals:** a non-empty set of naturals has a least element
  (`SelectInSeq` takes a `Min`).
- **GetElementFacts:** `getElement` returns 0 exactly when no element has
  the key, and otherwise a position holding it.
- **PushFrontFacts, RemoveBackFacts, MoveToFrontFacts:** the type, length
  and contents element by element of each list operation.
- **MoveToFrontUnique, PushFrontUnique, RemoveBackUnique:** each operation
  preserves distinct keys. `MoveToFront` is a permutation, and a push only
  happens after `getElement` missed.

## Proofs (RegistrarProofs)

**`DeleteOnlyOwnEntriesHolds`:** `Spec => DeleteOnlyOwnEntries`. It holds for
any handlers, pods, namespaces, `MaxIds`, `MaxRestarts` and either matching
mode, from `RegistrarAssumption`.

The danger is that the IDs a handler listed are deleted one RPC later, and
by then they might name other entries. The inductive invariant `IInv` rules
this out:

- every entry's ID is below `nextId`, and so is every listed ID;
- entry IDs are unique;
- while a handler is at `delete`, every entry carrying an ID it listed holds
  its pod's ns and pod-name selectors (`ListedOwn`).

`CreateStep` shows that a create adds only an entry with a fresh ID, so no
listed ID names it. `List` establishes `ListedOwn` through ID uniqueness.
`StepOwnDeletes` derives the action property from `IInv`. TLC checked
`IInv` as an invariant in both matching modes before the proof was written.

## Proofs (LRURefinementProofs)

**`LRURefinement`:** `Spec => LRUSpec`. The list cache of `SigstoreCache`
implements `LRUPolicy` under the mapping of `SigstoreCache`:

- `cached` is the set of keys in the list;
- `older` holds `<<a, b>>` when `a` sits nearer the back than `b`.

It holds for all `Keys`, `Values` and any `Capacity \in Nat \ {0}`. The
argument goes step by step, one lemma per list operation:

- **MoveToFrontRecency:** moving the element at `e` to the front keeps the
  keys and makes its key newer than every other, which is `Get` and
  `PutCached` (`MoveStep`).
- **PushFrontRecency:** pushing an item of an absent key adds that key as
  the newest, which is `PutFresh` (`FreshStep`).
- **RemoveBackRecency:** removing the back drops its key and every pair
  that mentions it. That key is older than every other cached key, so it
  is the least recently used (`IsLRU`). Followed by a push, this is
  `PutEvict` (`EvictStep`).
- **KeysCardinality:** with distinct keys, the number of cached keys is the
  list's length. This gives the `Cardinality(cached)` guards of `PutFresh`
  and `PutEvict` from `IsFull`.

`NextRefines` combines the step lemmas under the invariant
`TypeOK /\ KeysUnique` of `SigstoreCacheProofs`. Distinct keys are needed:
with two elements of one key, removing the back would not remove the key
from `cached`.

## Proofs (AttestorProofs)

Both theorems hold for any workers, images, signers, signature assignment
`Sigs`, `MaxAttests` and positive `Capacity`, from `AttestorAssumption`.
That assumption also states `Images # {}`: every container status carries
an image ID, and `Init` picks one per worker.

- **`TypeCorrect`:** `Spec => []TypeOK`.
- **`ResultFromOwnImageHolds`:** `Spec => []ResultFromOwnImage`.

Both follow from one inductive invariant, `IInv`. TLC checked it on the
`attest_concurrent` instance before the proof was written. Its conjuncts:

- `TypeOK`;
- `ExtractRange`: an extracting worker's `sigIdx` indexes its image's
  signatures. Without it, an extraction could read past the end of `Sigs`,
  and even `TypeOK` is not inductive;
- `CacheSound`: every item of the shared cache holds only subjects of its
  own key's verified signatures. `ResultFromOwnImage` alone is not
  inductive: a hit renders whatever the cache holds for the key;
- `SelsSound`: a worker's selectors are subjects of its own image. They are
  held across other workers' steps until the put;
- `ResultFromOwnImage`.

There is one lemma per action (`StartIInv`, `LookupIInv`, `FetchIInv`,
`ExtractIInv`, `StoreIInv`, `PolicyIInv`). They rest on these lemmas:

- `GetSignatureFacts`: a `GetSignature` permutes the list;
- `PutSignatureFacts`: after a `PutSignature`, every item is the one put or
  an item from before (overwrite, eviction and push alike);
- `MovePerm`, `ToSetAppend`;
- `SelectorFacts`: a verified selector carries the error-free subject of
  its signature.

The list lemmas of `SigstoreCacheProofs` (`GetElementFacts`,
`MoveToFrontFacts`, `RemoveBackFacts`, `PushFrontFacts`) are reused through
an `INSTANCE`; `SameListOps` identifies the two instances' operators. Its
`CapacityAssumption` is discharged by `AttestorAssumption`.

**Out of the prover's reach:**

- Liveness. `ReviewsAnswered` is model-checked. Its proof would need
  fairness and `ENABLED` reasoning, and the prover has no backend for
  those.
- The violated properties (`PutOverwrites`, `CacheHitAllowed`,
  `NoEntryForDeletedPod` and the `LegacyExtractor` properties). Their counterexamples come from TLC.

## Not modelled

- **`SetRekorURL` and `SetLogger`:** configuration that only shapes network
  clients.
- **The digest comparison and the cosign/Rekor calls:** external I/O. Fetch
  either fails or returns the image's signatures.
- **Parts of `controller.go`:**
  - the pod JSON decode error, because the API server sends valid pods;
  - federation domains (`FederatesWith`), which no property reads;
  - `selectorsField`, `errorFromStatus`'s nil status, and the defensive
    result-count checks of `createEntry`, which a conforming server never
    triggers;
  - the logging.
- **The main program that restarts the registrar:** it is not in the
  repository. `Restart` stands for it.
- **`cli.go`:** command wiring only.
- **The engine cache's implementation:** it is not under `src/`. `Attestor`
  models it from spec 4.5 and 5, as described above.
- **Go's runtime abort on concurrent map access to the policy maps:** the
  policy calls are atomic steps here.

## Plan for later work

- A liveness property for Attestor: every started call returns.
- A registrar model where each pod takes its subject from its own image, if
  the code gets there.
