---------------------------- MODULE MCGitClaims ----------------------------
(* Small instances of GitClaims.                                           *)
EXTENDS GitClaims, TLC

CONSTANTS r1, r2, r3, r4, p1, p2

\* Requests and peers are not told apart.
Symmetry == Permutations(Request) \cup Permutations(Peer)
=============================================================================
