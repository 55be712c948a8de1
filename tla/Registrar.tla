----------------------------- MODULE Registrar -----------------------------
(***************************************************************************)
(* The k8s workload registrar's admission webhook                          *)
(* (src/support/k8s/k8s-workload-registrar/controller.go).  The API server *)
(* sends a CREATE or DELETE admission review for each pod; the webhook     *)
(* serves each review on its own goroutine (a handler here), creates or   *)
(* deletes the pod's registration entry on the SPIRE server through the   *)
(* entry API, and answers; the API server then persists or rejects the    *)
(* pod operation.  Reviews interleave at every RPC.  The registrar may be *)
(* restarted: in-flight reviews fail and Initialize runs again.           *)
(*                                                                         *)
(* The SPIRE server is the environment: BatchCreateEntry answers          *)
(* AlreadyExists for an entry with the same parent, SPIFFE ID and         *)
(* selectors; ListEntries BySelectors matches exactly (MATCH_EXACT, the   *)
(* default of SelectorMatch) or, with MatchExact = FALSE, every entry      *)
(* holding the selectors; any RPC may fail before it takes effect.         *)
(***************************************************************************)
EXTENDS Naturals, Sequences, FiniteSets

CONSTANTS
    Handlers,            \* webhook goroutines serving reviews
    Namespaces,
    DisabledNamespaces,  \* ControllerConfig.DisabledNamespaces
    PodObjects,          \* pods the API server may be asked to create
    Mode,                \* "label", "annotation" or "sa": how podSpiffeID works
    AgentImageSigs,      \* the verified payloads of the image createPodEntry checks
    Identities,          \* signer identities
    MatchExact,          \* ListEntries BySelectors semantics of the server
    MaxIds,              \* entry IDs the server hands out (bounds the model)
    MaxRestarts          \* registrar restarts (bounds the model)

\* An absent label, annotation or SPIFFE ID (nil).
None == "none"
NoID == <<>>

LX == INSTANCE LegacyExtractor

ASSUME RegistrarAssumption ==
    /\ DisabledNamespaces \subseteq Namespaces
    /\ Mode \in {"label", "annotation", "sa"}
    /\ MatchExact \in BOOLEAN
    /\ MaxIds \in Nat /\ MaxRestarts \in Nat
    /\ AgentImageSigs \in Seq(LX!SignedPayload) \ {<<>>}

VARIABLES
    entries,      \* the server's registration entries
    nextId,       \* the next entry ID the server assigns
    pods,         \* the pods the API server holds
    initialized,  \* Initialize has created the node entry since the start
    restarts,
    pc,           \* where each handler is in reviewAdmission
    req,          \* the review each handler serves
    entry,        \* the entry createPodEntry builds
    ids,          \* the entry IDs deletePodEntry listed
    allowed       \* the handler's answer: no error returned

vars == <<entries, nextId, pods, initialized, restarts, pc, req, entry, ids,
          allowed>>

-----------------------------------------------------------------------------
(* SPIFFE IDs and selectors, by what identifies them.                      *)

\* makeID with the trust domain left out: the path and its arguments.
nodeID == <<"k8s-workload-registrar", "node">>
serverID == <<"spire", "server">>

\* podSpiffeID: the label's or the annotation's value when the controller is
\* configured with one (NoID when the pod lacks it), else ns/sa.
podSpiffeID(pod) ==
    CASE Mode = "label" ->
            IF pod.label = None THEN NoID ELSE <<"path", pod.label>>
      [] Mode = "annotation" ->
            IF pod.annotation = None THEN NoID ELSE <<"path", pod.annotation>>
      [] Mode = "sa" -> <<"ns", pod.ns, "sa", pod.sa>>

namespaceSelector(ns) == [type |-> "k8s", value |-> <<"ns", ns>>]
podNameSelector(name) == [type |-> "k8s", value |-> <<"pod-name", name>>]
subjectSelector(s) == [type |-> "k8s", value |-> <<"image-signature-subject", s>>]
psatSelector == [type |-> "k8s_psat", value |-> <<"cluster">>]

\* The SPIFFE IDs and selectors the registrar can register.
SpiffeIDs == {nodeID} \cup ({podSpiffeID(p) : p \in PodObjects} \ {NoID})
Selectors ==
    {psatSelector} \cup {namespaceSelector(p.ns) : p \in PodObjects}
    \cup {podNameSelector(p.name) : p \in PodObjects}
    \cup {subjectSelector(s) : s \in LX!Str \cup {LX!EmptyStr}}

\* getSignaturePayload of the image createPodEntry names: an error (nil) or
\* that image's verified payloads.
getSignaturePayload == LX!FetchSignaturePayload(AgentImageSigs)

\* getselectorOfSignedImage: the legacy extraction, copied from sigstore.go.
getselectorOfSignedImage(payload) == LX!ExtractselectorOfSignedImage(payload)

\* A registration entry as the server holds it.
Entry == [id : 0..MaxIds, parent : {nodeID, serverID}, spiffe : SpiffeIDs,
          selectors : SUBSET Selectors]

\* The entry Initialize asks for.
NodeEntry == [parent |-> nodeID, spiffe |-> nodeID, selectors |-> {psatSelector}]

\* Two entries the server takes for the same one.
Similar(e, f) ==
    e.parent = f.parent /\ e.spiffe = f.spiffe /\ e.selectors = f.selectors

-----------------------------------------------------------------------------
(* The server's entry API.                                                 *)

\* BatchCreateEntry of one entry: the new entries and the result code.
BatchCreateResults(e) ==
    {<<entries, "Unavailable">>} \cup
    IF \E f \in entries : Similar(f, e)
    THEN {<<entries, "AlreadyExists">>}
    ELSE IF nextId < MaxIds
         THEN {<<entries \cup {[id |-> nextId, parent |-> e.parent,
                                spiffe |-> e.spiffe, selectors |-> e.selectors]},
                 "OK">>}
         ELSE {}

\* ListEntries BySelectors.
Matches(e, sels) == IF MatchExact THEN e.selectors = sels ELSE sels \subseteq e.selectors

-----------------------------------------------------------------------------
\* The locals of a goroutine that serves no review.
NoReview == [op |-> "none", kind |-> "none", pod |-> None]
NoEntry == [parent |-> NoID, spiffe |-> NoID, selectors |-> {}]

Init ==
    /\ entries = {}
    /\ nextId = 0
    /\ pods = {}
    /\ initialized = FALSE
    /\ restarts = 0
    /\ pc = [h \in Handlers |-> "idle"]
    /\ req = [h \in Handlers |-> NoReview]
    /\ entry = [h \in Handlers |-> NoEntry]
    /\ ids = [h \in Handlers |-> {}]
    /\ allowed = [h \in Handlers |-> FALSE]

HandlerVars == <<pc, req, entry, ids, allowed>>

\* createEntry: OK and AlreadyExists are success; anything else an error.
createEntryOK(code) == code \in {"OK", "AlreadyExists"}

\* Initialize: createEntry of the node entry, before reviews are served.  On
\* an error the registrar exits and starts again.
Initialize ==
    /\ ~initialized
    /\ \E r \in BatchCreateResults(NodeEntry) :
        /\ entries' = r[1]
        /\ nextId' = IF r[2] = "OK" THEN nextId + 1 ELSE nextId
        /\ initialized' = createEntryOK(r[2])
    /\ UNCHANGED <<pods, restarts, HandlerVars>>

\* A live pod with the review's namespace and name.
LivePod(ns, name) == {p \in pods : p.ns = ns /\ p.name = name}

\* The reviews the API server can send: CREATE for any pod (admission runs
\* before the name is checked), DELETE and UPDATE for a live pod, and
\* reviews of other kinds the webhook filter let through.
Reviews ==
    [op : {"CREATE"}, kind : {"Pod"}, pod : PodObjects] \cup
    [op : {"DELETE", "UPDATE"}, kind : {"Pod"}, pod : pods] \cup
    [op : {"CREATE"}, kind : {"Other"}, pod : PodObjects]

\* ReviewAdmission / reviewAdmission: a disabled namespace, another kind or
\* another operation is allowed at once; CREATE computes the SPIFFE ID
\* (none: allowed), DELETE lists the pod's entries.
Receive(h, r) ==
    /\ initialized /\ pc[h] = "idle"
    /\ req' = [req EXCEPT ![h] = r]
    /\ pc' = [pc EXCEPT ![h] =
                IF r.pod.ns \in DisabledNamespaces \/ r.kind # "Pod" THEN "respond"
                ELSE IF r.op = "CREATE"
                     THEN IF podSpiffeID(r.pod) = NoID THEN "respond" ELSE "fetch"
                ELSE IF r.op = "DELETE" THEN "list"
                ELSE "respond"]
    /\ allowed' = [allowed EXCEPT ![h] = TRUE]
    /\ UNCHANGED <<entries, nextId, pods, initialized, restarts, entry, ids>>

\* createPodEntry: getSignaturePayload of the fixed image, which may fail
\* (logged, the payload stays nil), and the entry with its subject.
Fetch(h) ==
    /\ pc[h] = "fetch"
    /\ \E payload \in getSignaturePayload :
        entry' = [entry EXCEPT ![h] =
                   [parent |-> nodeID, spiffe |-> podSpiffeID(req[h].pod),
                    selectors |-> {namespaceSelector(req[h].pod.ns),
                                   podNameSelector(req[h].pod.name),
                                   subjectSelector(
                                     getselectorOfSignedImage(payload))}]]
    /\ pc' = [pc EXCEPT ![h] = "create"]
    /\ UNCHANGED <<entries, nextId, pods, initialized, restarts, req, ids, allowed>>

\* Mutant: createEntry retried while the server does not answer OK.
CreateRetries(h) ==
    /\ pc[h] = "create"
    /\ \E r \in BatchCreateResults(entry[h]) :
        /\ entries' = r[1]
        /\ nextId' = IF r[2] = "OK" THEN nextId + 1 ELSE nextId
        /\ allowed' = [allowed EXCEPT ![h] = createEntryOK(r[2])]
        /\ pc' = [pc EXCEPT ![h] = IF r[2] = "OK" THEN "respond" ELSE "fetch"]
    /\ UNCHANGED <<pods, initialized, restarts, req, entry, ids>>

\* createEntry: BatchCreateEntry; the review fails unless OK or AlreadyExists.
Create(h) ==
    /\ pc[h] = "create"
    /\ \E r \in BatchCreateResults(entry[h]) :
        /\ entries' = r[1]
        /\ nextId' = IF r[2] = "OK" THEN nextId + 1 ELSE nextId
        /\ allowed' = [allowed EXCEPT ![h] = createEntryOK(r[2])]
    /\ pc' = [pc EXCEPT ![h] = "respond"]
    /\ UNCHANGED <<pods, initialized, restarts, req, entry, ids>>

\* Mutant: the list filters by namespace alone.
ListNamespaceOnly(h) ==
    /\ pc[h] = "list"
    /\ \/ /\ allowed' = [allowed EXCEPT ![h] = FALSE]
          /\ pc' = [pc EXCEPT ![h] = "respond"]
          /\ UNCHANGED ids
       \/ /\ ids' = [ids EXCEPT ![h] =
                {e.id : e \in {e \in entries :
                    Matches(e, {namespaceSelector(req[h].pod.ns)})}}]
          /\ pc' = [pc EXCEPT ![h] = "delete"]
          /\ UNCHANGED allowed
    /\ UNCHANGED <<entries, nextId, pods, initialized, restarts, req, entry>>

\* deletePodEntry, first RPC: ListEntries by the namespace and pod-name
\* selectors; an error fails the review.
List(h) ==
    /\ pc[h] = "list"
    /\ \/ /\ allowed' = [allowed EXCEPT ![h] = FALSE]
          /\ pc' = [pc EXCEPT ![h] = "respond"]
          /\ UNCHANGED ids
       \/ /\ ids' = [ids EXCEPT ![h] =
                {e.id : e \in {e \in entries :
                    Matches(e, {namespaceSelector(req[h].pod.ns),
                                podNameSelector(req[h].pod.name)})}}]
          /\ pc' = [pc EXCEPT ![h] = "delete"]
          /\ UNCHANGED allowed
    /\ UNCHANGED <<entries, nextId, pods, initialized, restarts, req, entry>>

\* deletePodEntry, second RPC: BatchDeleteEntry of the listed IDs.  The call
\* fails as a whole, or each ID has its own result: OK, NotFound (deleted
\* meanwhile) or another code, which fails the review (errGroup).
Delete(h) ==
    /\ pc[h] = "delete"
    /\ \/ /\ allowed' = [allowed EXCEPT ![h] = FALSE]
          /\ UNCHANGED entries
       \/ \E kept \in SUBSET {e \in entries : e.id \in ids[h]} :
             /\ entries' = {e \in entries : e.id \notin ids[h]} \cup kept
             /\ allowed' = [allowed EXCEPT ![h] = (kept = {})]
    /\ pc' = [pc EXCEPT ![h] = "respond"]
    /\ UNCHANGED <<nextId, pods, initialized, restarts, req, entry, ids>>

\* The API server receives the answer: an allowed CREATE is persisted unless
\* the name is taken, an allowed DELETE removes the pod; a failed review
\* (failurePolicy Fail) rejects the operation.
Respond(h) ==
    /\ pc[h] = "respond"
    /\ LET r == req[h] IN
       pods' = IF ~allowed[h] \/ r.kind # "Pod" THEN pods
               ELSE IF r.op = "CREATE"
                    THEN IF LivePod(r.pod.ns, r.pod.name) = {}
                         THEN pods \cup {r.pod} ELSE pods
               ELSE IF r.op = "DELETE" THEN pods \ LivePod(r.pod.ns, r.pod.name)
               ELSE pods
    /\ pc' = [pc EXCEPT ![h] = "idle"]
    /\ req' = [req EXCEPT ![h] = NoReview]
    /\ entry' = [entry EXCEPT ![h] = NoEntry]
    /\ ids' = [ids EXCEPT ![h] = {}]
    /\ allowed' = [allowed EXCEPT ![h] = FALSE]
    /\ UNCHANGED <<entries, nextId, initialized, restarts>>

\* The registrar process restarts: every review in flight fails (the API
\* server rejects those operations) and Initialize runs again.
Restart ==
    /\ restarts < MaxRestarts
    /\ restarts' = restarts + 1
    /\ initialized' = FALSE
    /\ pc' = [h \in Handlers |-> "idle"]
    /\ req' = [h \in Handlers |-> NoReview]
    /\ entry' = [h \in Handlers |-> NoEntry]
    /\ ids' = [h \in Handlers |-> {}]
    /\ allowed' = [h \in Handlers |-> FALSE]
    /\ UNCHANGED <<entries, nextId, pods>>

Handler(h) ==
    \/ \E r \in Reviews : Receive(h, r)
    \/ Fetch(h) \/ Create(h) \/ List(h) \/ Delete(h) \/ Respond(h)

Next == Initialize \/ (\E h \in Handlers : Handler(h)) \/ Restart

\* Each goroutine runs to the end of its review; the API server keeps
\* sending reviews only as the model allows, so no fairness is asked of it.
Spec == Init /\ [][Next]_vars /\ WF_vars(Initialize)
            /\ \A h \in Handlers : WF_vars(Handler(h) /\ pc[h] # "idle")

-----------------------------------------------------------------------------
(* Properties.                                                             *)

TypeOK ==
    /\ entries \subseteq Entry
    /\ nextId \in 0..MaxIds
    /\ pods \subseteq PodObjects
    /\ initialized \in BOOLEAN
    /\ restarts \in 0..MaxRestarts
    /\ pc \in [Handlers -> {"idle", "fetch", "create", "list", "delete", "respond"}]
    /\ ids \in [Handlers -> SUBSET (0..MaxIds)]
    /\ allowed \in [Handlers -> BOOLEAN]

\* No review is in flight.
Quiescent == \A h \in Handlers : pc[h] = "idle"

\* The entries of a pod: those holding its namespace and pod-name selectors.
PodEntry(e, ns, name) ==
    {namespaceSelector(ns), podNameSelector(name)} \subseteq e.selectors

\* A step removes only entries of a pod whose DELETE review a handler is
\* executing: deletePodEntry never removes the node entry or another pod's
\* entries, whatever reviews and restarts interleave with it.
DeleteOnlyOwnEntries ==
    [][\A e \in entries \ entries' :
          \E h \in Handlers :
              pc[h] = "delete" /\ PodEntry(e, req[h].pod.ns, req[h].pod.name)]_vars

\* Once no review is in flight, no pod entry remains for a pod the API
\* server no longer holds: deleting a pod deletes its entries.
NoEntryForDeletedPod ==
    Quiescent =>
        \A e \in entries :
            e.parent = nodeID /\ e.spiffe # nodeID =>
                \E p \in pods : PodEntry(e, p.ns, p.name)

\* Every review a handler takes is answered (or dropped by a restart):
\* no path of reviewAdmission waits or loops, whatever the server answers.
ReviewsAnswered == \A h \in Handlers : pc[h] # "idle" ~> pc[h] = "idle"

=============================================================================
