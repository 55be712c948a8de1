-------------------------- MODULE LegacyExtractor --------------------------
(***************************************************************************)
(* The subject extraction of the earlier attestor variant                  *)
(* (src/pkg/agent/plugin/workloadattestor/k8s/sigstore/sigstore.go), also *)
(* copied into the registrar controller (controller.go lines 346-424).     *)
(*                                                                         *)
(* getSubjectImage does not read the subject directly: it decodes every    *)
(* payload, writes the certificate's subject under the map key "Subject",  *)
(* marshals the list to JSON and decodes it again into a struct whose      *)
(* field Subject matches the keys "Subject" and "subject" alike.  The      *)
(* round trip is modelled by what it does: json.Marshal sorts map keys     *)
(* ("Subject" before "subject"), json.Unmarshal assigns both to the field *)
(* in that order, so the later one wins, and a value that is not a string  *)
(* fails the whole decode.  fmt "%s" then renders the first element as     *)
(* "{{subject}}" and a regexp deletes every brace.                        *)
(***************************************************************************)
EXTENDS Naturals, Sequences

CONSTANTS Identities   \* signer identities (e-mail addresses, URI bodies)

\* A string that can name a signer: the identity body, with a number of
\* leading slashes (a URI as url.URL.String() renders it) and with or
\* without brace characters in it.
Str == [kind : {"string"}, body : Identities, slashes : {0, 2}, braces : BOOLEAN]

\* The empty string.
EmptyStr == [kind |-> "string", body |-> "", slashes |-> 0, braces |-> FALSE]

\* An e-mail address of a certificate has no leading slashes.
Email == {s \in Str : s.slashes = 0}

\* ss.Optional: its keys "Subject" and "subject", each absent, a string,
\* or a JSON value that is not a string.
OptKeys == {"Subject", "subject"}
Absent == [EmptyStr EXCEPT !.kind = "absent"]
NonString == [EmptyStr EXCEPT !.kind = "nonstring"]
Optional == [OptKeys -> Str \cup {Absent, NonString}]

\* A cosign.SignedPayload: the payload (it decodes as a
\* SimpleContainerImage or not) and the certificate (nil or not, with its
\* EmailAddresses and URIs nil or starting with the given element).
Payload == [decodes : BOOLEAN, optional : Optional]
Cert == [present : BOOLEAN,
         emails : {<<>>} \cup {<<e>> : e \in Email},
         uris : {<<>>} \cup {<<u>> : u \in Str}]
SignedPayload == [payload : Payload, cert : Cert]

-----------------------------------------------------------------------------
\* certSubject: the first e-mail address, else the first URI as
\* URIs[0].String() renders it (leading slashes kept), else "".
certSubject(c) ==
    IF c.emails # <<>> THEN c.emails[1]
    ELSE IF c.uris # <<>> THEN c.uris[1]
    ELSE EmptyStr

\* The loop body of getSubjectImage: ss.Optional with the certificate's
\* subject stored under "Subject" when a certificate is present.
Marshalled(vp) ==
    IF vp.cert.present
    THEN [vp.payload.optional EXCEPT !["Subject"] = certSubject(vp.cert)]
    ELSE vp.payload.optional

\* json.Unmarshal of one marshalled element into Optional{Subject}: keys in
\* sorted order, the later of "Subject" and "subject" overwriting.
DecodedSubject(o) ==
    IF o["subject"] # Absent THEN o["subject"]
    ELSE IF o["Subject"] # Absent THEN o["Subject"]
    ELSE EmptyStr

\* A non-string value for the field fails json.Unmarshal.
TypeError(o) == \E k \in OptKeys : o[k] = NonString

\* The regexp [{}] replaced by "": every brace is deleted.
StripBraces(s) == [s EXCEPT !.braces = FALSE]

\* getOnlySubject: decode the marshalled list, render its first element
\* with fmt "%s" and delete the braces; "" when the decode fails.
getOnlySubject(keys) ==
    IF \E i \in 1..Len(keys) : TypeError(keys[i])
    THEN EmptyStr
    ELSE StripBraces(DecodedSubject(keys[1]))

\* getSubjectImage: "" as soon as a payload does not decode.
getSubjectImage(verified) ==
    IF \E i \in 1..Len(verified) : ~verified[i].payload.decodes
    THEN EmptyStr
    ELSE getOnlySubject([i \in 1..Len(verified) |-> Marshalled(verified[i])])

\* ExtractselectorOfSignedImage: "" for a nil payload list (a failed fetch).
ExtractselectorOfSignedImage(payload) ==
    IF payload = <<>> THEN EmptyStr ELSE getSubjectImage(payload)

\* FetchSignaturePayload: parsing, TargetRepositoryForImage or cosign.Verify
\* fails and yields nil, or the image's verified payloads are returned
\* (cosign.Verify fails rather than return an empty list).
FetchSignaturePayload(verified) == {<<>>, verified}

-----------------------------------------------------------------------------
\* The identity spec 4.3 derives from a signed payload, as the current
\* engine (part_000 getSignatureSubject) does: the certificate's subject
\* when there is a certificate, else the payload's "subject" string.
SignerIdentity(vp) ==
    IF vp.cert.present THEN certSubject(vp.cert)
    ELSE IF vp.payload.optional["subject"] \in Str
         THEN vp.payload.optional["subject"]
         ELSE EmptyStr

=============================================================================
