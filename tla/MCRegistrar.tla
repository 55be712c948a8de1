---------------------------- MODULE MCRegistrar ----------------------------
(***************************************************************************)
(* The registrar webhook for TLC: two handlers, one enabled and one        *)
(* disabled namespace, pods selected by a label.  Pod "b" of namespace n1  *)
(* exists in two versions, without the label and with it (the pod deleted *)
(* and created again under the same name); pod "a" shares its namespace.  *)
(***************************************************************************)
EXTENDS Registrar, TLC

CONSTANTS h1, h2, n1, n2, a1

MCHandlers == {h1, h2}
MCNamespaces == {n1, n2}
MCIdentities == {a1}

Pod(ns, name, label) ==
    [ns |-> ns, name |-> name, label |-> label, annotation |-> None, sa |-> "default"]

MCPodObjects ==
    {Pod(n1, "a", "l1"), Pod(n1, "b", None), Pod(n1, "b", "l2"), Pod(n2, "c", "l1")}

\* The agent image carries one signature, with a Fulcio certificate.
MCAgentImageSigs ==
    LET id == [kind |-> "string", body |-> a1, slashes |-> 0, braces |-> FALSE]
        opt == [k \in {"Subject", "subject"} |-> [LX!EmptyStr EXCEPT !.kind = "absent"]]
    IN <<[payload |-> [decodes |-> TRUE, optional |-> opt],
          cert |-> [present |-> TRUE, emails |-> <<id>>, uris |-> <<>>]]>>

=============================================================================
