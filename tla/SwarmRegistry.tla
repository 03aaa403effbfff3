--------------------------- MODULE SwarmRegistry ---------------------------
(***************************************************************************)
(* What the tracker promises about its swarms, without its lock, its       *)
(* second map and its messages.  Who announces is registered in that swarm *)
(* in the place of whoever had the same peer_id there; who ends takes one  *)
(* of the peer_ids it has named out of EVERY swarm at once, or none, and   *)
(* never comes back.                                                       *)
(***************************************************************************)
CONSTANTS Session, PeerId, Hash, None, IdsOf

VARIABLES
  members,  \* members[h][p]: the session registered as p in the swarm of h, or None
  ended     \* the sessions that have ended

registry == <<members, ended>>

Init == members = [h \in Hash |-> [p \in PeerId |-> None]] /\ ended = {}

Join(s, h, p) ==
  /\ s \notin ended
  /\ members' = [members EXCEPT ![h][p] = s]
  /\ UNCHANGED ended

LeaveAs(s, p) ==
  /\ s \notin ended
  /\ members' = [h \in Hash |-> [members[h] EXCEPT ![p] = None]]
  /\ ended' = ended \cup {s}

\* A session that has never named a peer_id.
LeaveUnnamed(s) ==
  /\ s \notin ended /\ ended' = ended \cup {s}
  /\ UNCHANGED members

Next ==
  \E s \in Session :
    \/ \E p \in IdsOf[s] : LeaveAs(s, p) \/ \E h \in Hash : Join(s, h, p)
    \/ LeaveUnnamed(s)

Spec == Init /\ [][Next]_registry
=============================================================================
