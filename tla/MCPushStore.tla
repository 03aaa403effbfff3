----------------------------- MODULE MCPushStore -----------------------------
(* Small instances of PushStore.                                           *)
EXTENDS PushStore, TLC

CONSTANTS k1, k2, p1, p2, s1, s2, s3

Symmetry == Permutations(Worker) \cup Permutations(Peer) \cup Permutations(Sub)
=============================================================================
