---------------------------- MODULE MCBroadcast ----------------------------
(* Small instances of Broadcast.                                           *)
EXTENDS Broadcast

CONSTANTS r1, r2, w1, i1, i2, t1

\* One publisher keeps to its id, the other takes that one or its own: which of
\* them comes first is open, so no case is lost.
MCIdsOf == [r \in Pub |-> IF r = r1 THEN {i1} ELSE Id]
=============================================================================
