---------------------------- MODULE MCRingRelay ----------------------------
(* Small instances of RingRelay: clients behind a ring of one or two ports *)
(* whose remote addresses are all on one host.                             *)
EXTENDS RingRelay

CONSTANTS a1, a2, h1, c1, c2, c3

MCIpOf == [a \in Peer |-> h1]

\* Neither the connections nor the addresses are told apart by the module.
Symmetry == Permutations(Conn) \cup Permutations(Peer)
=============================================================================
