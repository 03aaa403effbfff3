----------------------------- MODULE MCFediverse -----------------------------
(* Small instances of Fediverse.                                           *)
EXTENDS Fediverse

CONSTANTS k1, k2, u1, pingo, ip, name
=============================================================================
