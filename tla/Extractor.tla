----------------------------- MODULE Extractor -----------------------------
(***************************************************************************)
(* The selector extractor of the attestor (src/unnamed/part_000): how a    *)
(* verified signature becomes a subject (getSignatureSubject, certSubject) *)
(* and whether the allow-list keeps it (SelectorValuesFromSignature).      *)
(*                                                                         *)
(* A signature is abstracted to what decides its subject: its payload      *)
(* (an error, JSON that does not decode, or the optional "subject" field)  *)
(* and its certificate (an error, none, or its e-mail addresses and URIs). *)
(* The bundle (content, log ID, integrated time) only adds rendered        *)
(* strings and is left out.                                                *)
(***************************************************************************)
EXTENDS Naturals, Sequences

CONSTANTS Subjects  \* signer identities (e-mail addresses and URI bodies)

\* The empty string the code uses for "no subject".
Empty == ""

\* ss.Optional is nil, has no "subject", or it is not a string.
NoSubject == "no_subject"

\* A certificate URI as url.URL.String() renders it: an empty scheme with a
\* host renders as "//host/path", i.e. with leading slashes before the body.
URI == [slashes : {0, 2}, body : Subjects]

\* The payload: signature.Payload() failed ("error"), json.Unmarshal failed
\* on it ("malformed"), or it decoded with an optional subject.
Payloads == [status : {"error", "malformed", "decoded"},
             subject : Subjects \cup {NoSubject}]

\* The certificate: signature.Cert() failed, returned nil, or returned one
\* whose EmailAddresses and URIs are nil or start with the given element.
Certs == [status : {"error", "nil", "present"},
          emails : {<<>>} \cup {<<s>> : s \in Subjects},
          uris : {<<>>} \cup {<<u>> : u \in URI}]

Signature == [payload : Payloads, cert : Certs]

\* The regexp ^\/*(?P<email>.*) replaced by $email: drop leading slashes.
StripLeadingSlashes(u) == u.body

\* certSubject: first e-mail address, else first URI without its leading
\* slashes, else the empty string.
certSubject(c) ==
    IF c.emails # <<>> THEN c.emails[1]
    ELSE IF c.uris # <<>> THEN StripLeadingSlashes(c.uris[1])
    ELSE Empty

\* getSignatureSubject: the payload is read and decoded, the certificate
\* read; any error yields ("", err).  A certificate overrides the payload.
SubjectError(sig) ==
    sig.payload.status \in {"error", "malformed"} \/ sig.cert.status = "error"

getSignatureSubject(sig) ==
    IF sig.cert.status = "present" THEN certSubject(sig.cert)
    ELSE IF sig.payload.subject \in Subjects THEN sig.payload.subject
    ELSE Empty

\* The allow-list check of SelectorValuesFromSignature.
Suppressed(subject, allowListEnabled, subjectAllowList) ==
    allowListEnabled /\ subject \notin subjectAllowList

\* SelectorValuesFromSignature: Verified with the subject, or the zero value.
SelectorValuesFromSignature(sig, allowListEnabled, subjectAllowList) ==
    IF \/ SubjectError(sig)
       \/ getSignatureSubject(sig) = Empty
       \/ Suppressed(getSignatureSubject(sig), allowListEnabled, subjectAllowList)
    THEN [verified |-> FALSE, subject |-> Empty]
    ELSE [verified |-> TRUE, subject |-> getSignatureSubject(sig)]

=============================================================================
