----------------------------- MODULE MCTracker -----------------------------
(* Small instances of Tracker.                                             *)
EXTENDS Tracker, TLC

CONSTANTS s1, s2, s3, p1, p2, h1, h2

\* s1 and s2 are two connections of one client, one after the other or, after
\* a reconnect, both at once; s3 is another client.
IdsReconnect == [s \in Session |-> IF s = s3 THEN {p2} ELSE {p1}]

\* Clients that are free to change their peer_id.
IdsAny == [s \in Session |-> PeerId]

\* Sound with IdsAny only: IdsReconnect tells the sessions apart.
SymmetryAny == Permutations(Session) \cup Permutations(PeerId) \cup Permutations(Hash)
=============================================================================
