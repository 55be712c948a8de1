-------------------------- MODULE RegistrarProofs --------------------------
(***************************************************************************)
(* Proof that the registrar's deletePodEntry removes only entries of the   *)
(* pod it serves, for every number of handlers, pods and entry IDs, either *)
(* selector matching, and any number of restarts.                          *)
(*                                                                         *)
(* The IDs a handler listed are used one RPC later, after other reviews    *)
(* may have created and deleted entries.  The property rests on the server *)
(* never reusing an ID: every entry's ID is below nextId and so are the    *)
(* listed IDs, so an entry created after the list is never among them.     *)
(***************************************************************************)
EXTENDS Registrar, TLAPS

\* The places of a handler in reviewAdmission.
PCs == {"idle", "fetch", "create", "list", "delete", "respond"}

\* What the proof needs of the variables' types.
ProofTypes ==
    /\ nextId \in Nat
    /\ pc \in [Handlers -> PCs]
    /\ ids \in [Handlers -> SUBSET Nat]
    /\ DOMAIN req = Handlers
    /\ \A e \in entries : e.id \in Nat

\* The server hands out IDs in increasing order and never twice.
IdsBelow == \A e \in entries : e.id < nextId
IdsUnique == \A e, f \in entries : e.id = f.id => e = f
ListedBelow == \A h \in Handlers : \A i \in ids[h] : i < nextId

\* While a handler is about to delete, the entries that carry an ID it
\* listed are entries of its pod.
ListedOwn ==
    \A h \in Handlers : pc[h] = "delete" =>
        \A e \in entries : e.id \in ids[h] =>
            PodEntry(e, req[h].pod.ns, req[h].pod.name)

IInv == ProofTypes /\ IdsBelow /\ IdsUnique /\ ListedBelow /\ ListedOwn

\* The step DeleteOnlyOwnEntries asks about.
OwnDeletes ==
    \A e \in entries \ entries' :
        \E h \in Handlers :
            pc[h] = "delete" /\ PodEntry(e, req[h].pod.ns, req[h].pod.name)

-----------------------------------------------------------------------------
(* The server's BatchCreateEntry.                                          *)

\* BatchCreateEntry leaves the entries as they are, or adds one entry with
\* the next ID and answers OK.
LEMMA CreateResultsShape ==
    ASSUME NEW e, NEW r \in BatchCreateResults(e)
    PROVE  \/ r[1] = entries
           \/ /\ r[2] = "OK"
              /\ r[1] = entries \cup {[id |-> nextId, parent |-> e.parent,
                                      spiffe |-> e.spiffe, selectors |-> e.selectors]}
BY DEF BatchCreateResults

\* A createEntry step keeps the server's IDs fresh: the entries only grow,
\* the one added has an ID no entry and no listed ID has.
LEMMA CreateStep ==
    ASSUME IInv, NEW e, NEW r \in BatchCreateResults(e),
           entries' = r[1],
           nextId' = IF r[2] = "OK" THEN nextId + 1 ELSE nextId
    PROVE  /\ nextId' \in Nat
           /\ entries \subseteq entries'
           /\ \A f \in entries' : f.id \in Nat /\ f.id < nextId'
           /\ \A f, g \in entries' : f.id = g.id => f = g
           /\ \A h \in Handlers : \A i \in ids[h] : i < nextId'
           /\ \A f \in entries' \ entries : \A h \in Handlers : f.id \notin ids[h]
<1>1. CASE r[1] = entries
    <2>1. nextId <= nextId'
        BY DEF IInv, ProofTypes
    <2>2. QED
        BY <1>1, <2>1 DEF IInv, ProofTypes, IdsBelow, IdsUnique, ListedBelow
<1>2. CASE r[2] = "OK" /\ r[1] = entries \cup {[id |-> nextId, parent |-> e.parent,
                                      spiffe |-> e.spiffe, selectors |-> e.selectors]}
    BY <1>2 DEF IInv, ProofTypes, IdsBelow, IdsUnique, ListedBelow
<1>3. QED
    BY <1>1, <1>2, CreateResultsShape

-----------------------------------------------------------------------------
(* The inductive invariant.                                                *)

LEMMA InitIInv == Init => IInv
BY DEF Init, IInv, ProofTypes, IdsBelow, IdsUnique, ListedBelow, ListedOwn, PCs

\* Every step of the registrar and the server preserves IInv.
LEMMA NextIInv == IInv /\ [Next]_vars => IInv'
<1> SUFFICES ASSUME IInv, [Next]_vars PROVE IInv'
    OBVIOUS
<1>1. CASE Initialize
    <2>1. PICK r \in BatchCreateResults(NodeEntry) :
              entries' = r[1] /\ nextId' = IF r[2] = "OK" THEN nextId + 1 ELSE nextId
        BY <1>1 DEF Initialize
    <2>2. UNCHANGED <<pc, req, ids>>
        BY <1>1 DEF Initialize, HandlerVars
    <2>3. \A f \in entries' \ entries : \A h \in Handlers : f.id \notin ids[h]
        BY <2>1, CreateStep
    <2>4. QED
        BY <2>1, <2>2, <2>3, CreateStep DEF IInv, ProofTypes, IdsBelow, IdsUnique,
           ListedBelow, ListedOwn
<1>2. ASSUME NEW h \in Handlers, NEW r \in Reviews, Receive(h, r) PROVE IInv'
    <2>1. pc'[h] # "delete" /\ pc'[h] \in PCs
        BY <1>2 DEF Receive, IInv, ProofTypes, PCs
    <2>2. /\ pc' = [pc EXCEPT ![h] = pc'[h]]
          /\ req' = [req EXCEPT ![h] = r]
          /\ UNCHANGED <<entries, nextId, ids>>
        BY <1>2 DEF Receive, IInv, ProofTypes
    <2>3. QED
        BY <2>1, <2>2 DEF IInv, ProofTypes, IdsBelow, IdsUnique, ListedBelow, ListedOwn
<1>3. ASSUME NEW h \in Handlers, Fetch(h) PROVE IInv'
    BY <1>3 DEF Fetch, IInv, ProofTypes, IdsBelow, IdsUnique, ListedBelow, ListedOwn, PCs
<1>4. ASSUME NEW h \in Handlers, Create(h) PROVE IInv'
    <2>1. PICK r \in BatchCreateResults(entry[h]) :
              entries' = r[1] /\ nextId' = IF r[2] = "OK" THEN nextId + 1 ELSE nextId
        BY <1>4 DEF Create
    <2>2. pc' = [pc EXCEPT ![h] = "respond"] /\ UNCHANGED <<req, ids>>
        BY <1>4 DEF Create
    <2>3. \A f \in entries' \ entries : \A k \in Handlers : f.id \notin ids[k]
        BY <2>1, CreateStep
    <2>4. QED
        BY <2>1, <2>2, <2>3, CreateStep DEF IInv, ProofTypes, IdsBelow, IdsUnique,
           ListedBelow, ListedOwn, PCs
<1>5. ASSUME NEW h \in Handlers, List(h) PROVE IInv'
    <2> DEFINE sels == {namespaceSelector(req[h].pod.ns), podNameSelector(req[h].pod.name)}
               listed == {e.id : e \in {e \in entries : Matches(e, sels)}}
    <2>1. UNCHANGED <<entries, nextId, req>>
        BY <1>5 DEF List
    <2>2. CASE pc' = [pc EXCEPT ![h] = "respond"] /\ UNCHANGED ids
        BY <2>1, <2>2 DEF IInv, ProofTypes, IdsBelow, IdsUnique, ListedBelow, ListedOwn, PCs
    <2>3. CASE ids' = [ids EXCEPT ![h] = listed] /\ pc' = [pc EXCEPT ![h] = "delete"]
        <3>1. listed \subseteq Nat /\ \A i \in listed : i < nextId
            BY DEF IInv, ProofTypes, IdsBelow
        <3>2. ASSUME NEW e \in entries, e.id \in listed
              PROVE  PodEntry(e, req[h].pod.ns, req[h].pod.name)
            <4>1. PICK f \in entries : Matches(f, sels) /\ f.id = e.id
                BY <3>2
            <4>2. f = e
                BY <4>1 DEF IInv, IdsUnique
            <4>3. sels \subseteq f.selectors
                BY <4>1 DEF Matches
            <4>4. QED
                BY <4>2, <4>3 DEF PodEntry
        <3>3. QED
            BY <2>1, <2>3, <3>1, <3>2 DEF IInv, ProofTypes, IdsBelow, IdsUnique,
               ListedBelow, ListedOwn, PCs
    <2>4. QED
        BY <1>5, <2>2, <2>3 DEF List
<1>6. ASSUME NEW h \in Handlers, Delete(h) PROVE IInv'
    <2>1. entries' \subseteq entries
        BY <1>6 DEF Delete
    <2>2. pc' = [pc EXCEPT ![h] = "respond"] /\ UNCHANGED <<nextId, req, ids>>
        BY <1>6 DEF Delete
    <2>3. QED
        BY <2>1, <2>2 DEF IInv, ProofTypes, IdsBelow, IdsUnique, ListedBelow, ListedOwn, PCs
<1>7. ASSUME NEW h \in Handlers, Respond(h) PROVE IInv'
    <2>1. /\ pc' = [pc EXCEPT ![h] = "idle"]
          /\ req' = [req EXCEPT ![h] = NoReview]
          /\ ids' = [ids EXCEPT ![h] = {}]
          /\ UNCHANGED <<entries, nextId>>
        BY <1>7 DEF Respond
    <2>2. QED
        BY <2>1 DEF IInv, ProofTypes, IdsBelow, IdsUnique, ListedBelow, ListedOwn, PCs
<1>8. CASE Restart
    <2>1. /\ pc' = [k \in Handlers |-> "idle"]
          /\ req' = [k \in Handlers |-> NoReview]
          /\ ids' = [k \in Handlers |-> {}]
          /\ UNCHANGED <<entries, nextId>>
        BY <1>8 DEF Restart
    <2>2. QED
        BY <2>1 DEF IInv, ProofTypes, IdsBelow, IdsUnique, ListedBelow, ListedOwn, PCs
<1>9. CASE UNCHANGED vars
    BY <1>9 DEF vars, IInv, ProofTypes, IdsBelow, IdsUnique, ListedBelow, ListedOwn
<1>10. QED
    BY <1>1, <1>2, <1>3, <1>4, <1>5, <1>6, <1>7, <1>8, <1>9 DEF Next, Handler

\* Only a Delete step removes entries, and it removes only entries whose ID
\* its handler listed, which ListedOwn says are its pod's.
LEMMA StepOwnDeletes == IInv /\ [Next]_vars => [OwnDeletes]_vars
<1> SUFFICES ASSUME IInv, [Next]_vars PROVE OwnDeletes
    OBVIOUS
<1>1. CASE \E h \in Handlers : Delete(h)
    <2>1. PICK h \in Handlers : Delete(h)
        BY <1>1
    <2>2. \A e \in entries \ entries' : e.id \in ids[h]
        BY <2>1 DEF Delete
    <2>3. pc[h] = "delete"
        BY <2>1 DEF Delete
    <2>4. QED
        BY <2>2, <2>3 DEF IInv, ListedOwn, OwnDeletes
<1>2. CASE ~\E h \in Handlers : Delete(h)
    <2>1. entries \subseteq entries'
        <3>1. CASE Initialize
            BY <3>1, CreateStep DEF Initialize
        <3>2. ASSUME NEW h \in Handlers, Create(h) PROVE entries \subseteq entries'
            BY <3>2, CreateStep DEF Create
        <3>3. QED
            BY <1>2, <3>1, <3>2 DEF Next, Handler, Receive, Fetch, List, Respond,
               Restart, vars
    <2>2. QED
        BY <2>1 DEF OwnDeletes
<1>3. QED
    BY <1>1, <1>2

\* deletePodEntry removes only entries of the pod whose DELETE review it
\* serves (DeleteOnlyOwnEntries), in every instance of the registrar.
THEOREM DeleteOnlyOwnEntriesHolds == Spec => DeleteOnlyOwnEntries
<1>1. Init => IInv
    BY InitIInv
<1>2. IInv /\ [Next]_vars => IInv'
    BY NextIInv
<1>3. IInv /\ [Next]_vars => [OwnDeletes]_vars
    BY StepOwnDeletes
<1>4. QED
    BY <1>1, <1>2, <1>3, PTL DEF Spec, DeleteOnlyOwnEntries, OwnDeletes

=============================================================================
