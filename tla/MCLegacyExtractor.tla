------------------------- MODULE MCLegacyExtractor -------------------------
(***************************************************************************)
(* The legacy subject extraction for TLC, applied to every single verified *)
(* payload over two signer identities: the input is chosen in the initial  *)
(* state and kept.                                                         *)
(***************************************************************************)
EXTENDS LegacyExtractor, TLC

CONSTANTS a1, a2

MCIdentities == {a1, a2}

VARIABLE verified

\* A certificate Fulcio issues always names the signer by an e-mail
\* address or a URI.
Issued(vp) == vp.cert.present => vp.cert.emails # <<>> \/ vp.cert.uris # <<>>

Init == verified \in {<<vp>> : vp \in {x \in SignedPayload : Issued(x)}}

Next == UNCHANGED verified

Spec == Init /\ [][Next]_verified

\* Spec 4.3: the selector names the signer, its certificate's identity
\* preferred, or is empty.  getSubjectImage's JSON round trip lets the
\* payload's "subject" field replace the certificate's "Subject", and its
\* brace deletion maps two identities to one string.
LegacySubjectIsSigner ==
    LET s == ExtractselectorOfSignedImage(verified)
    IN  s = EmptyStr \/ s = SignerIdentity(verified[1])

\* Spec 4.3: a certificate's identity is preferred over the payload's.
\* When the first payload carries a certificate, the selector is empty or
\* that certificate's subject (braces aside); a "subject" field the signer
\* wrote into the payload must not replace it.
CertificatePreferred ==
    verified[1].cert.present =>
        ExtractselectorOfSignedImage(verified)
            \in {EmptyStr, StripBraces(certSubject(verified[1].cert))}
=============================================================================
