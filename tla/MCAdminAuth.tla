----------------------------- MODULE MCAdminAuth -----------------------------
(* Small instances of AdminAuth.                                           *)
EXTENDS AdminAuth, TLC

CONSTANTS k1, k2, k3, a1, a2, t1, t2, good, empty, admin, alpine

Symmetry == Permutations(Worker) \cup Permutations(Ip) \cup Permutations(SessionToken)
=============================================================================
