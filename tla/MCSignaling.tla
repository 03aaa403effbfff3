---------------------------- MODULE MCSignaling ----------------------------
(* Small instances of Signaling.                                           *)
EXTENDS Signaling, TLC

CONSTANTS c1, c2, c3, i1, i2, t1, t2

\* No action tells two connections, ids or tokens apart.
Symmetry == Permutations(Conn) \cup Permutations(Id) \cup Permutations(Token)
=============================================================================
