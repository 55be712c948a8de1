----------------------------- MODULE MCAttestor -----------------------------
(***************************************************************************)
(* Attestor for TLC: two workers, three images and two signers.  Image i1  *)
(* carries one signature whose payload names s1; image i2 one whose        *)
(* certificate names s2 over a payload without subject, and one whose      *)
(* payload does not decode; image i3 one whose payload names s2.          *)
(***************************************************************************)
EXTENDS Attestor, TLC

CONSTANTS w1, w2, i1, i2, i3, s1, s2

MCWorkers == {w1, w2}
MCImages == {i1, i2, i3}
MCSubjects == {s1, s2}

\* Signature parts used below.
NoCertificate == [status |-> "nil", emails |-> <<>>, uris |-> <<>>]
PayloadOf(subject) == [status |-> "decoded", subject |-> subject]

MCSigs ==
    i1 :> << [payload |-> PayloadOf(s1), cert |-> NoCertificate] >> @@
    i2 :> << [payload |-> PayloadOf(Ex!NoSubject),
              cert |-> [status |-> "present", emails |-> <<s2>>, uris |-> <<>>]],
             [payload |-> [status |-> "malformed", subject |-> Ex!NoSubject],
              cert |-> NoCertificate] >> @@
    i3 :> << [payload |-> PayloadOf(s2), cert |-> NoCertificate] >>
=============================================================================
