-------------------------- MODULE MCSigstoreCache --------------------------
(***************************************************************************)
(* The cache of SigstoreCache for TLC: four image IDs and a cache of       *)
(* three so that a put of a fourth key evicts, two selector lists so that  *)
(* a put of an existing key can bring a different value.                   *)
(***************************************************************************)
EXTENDS SigstoreCache, TLC

CONSTANTS k1, k2, k3, k4, v1, v2

MCKeys == {k1, k2, k3, k4}
MCValues == {v1, v2}
=============================================================================
