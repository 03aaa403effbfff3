--------------------------- MODULE MCTurnMonitor ---------------------------
(* Small instances of TurnMonitor.                                         *)
EXTENDS TurnMonitor, TLC

CONSTANTS k1, k2, shared, token, bad, custom, a1, a2, p1, p2

Symmetry == Permutations(Worker) \cup Permutations(Ip) \cup Permutations(Port)
=============================================================================
