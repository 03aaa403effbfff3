---------------------------- MODULE PeerRegistry ----------------------------
(***************************************************************************)
(* What the signaling server promises about ids, without its locks, its    *)
(* goroutines and its messages.  The last connection to claim an id has    *)
(* it; a connection claims once; whoever leaves gives up its own id only.  *)
(***************************************************************************)
CONSTANTS Conn, Id, None

VARIABLES
  owner,   \* owner[i]: the connection that has i, or None
  spent,   \* the connections that have had their claim
  left     \* the connections that have left

registry == <<owner, spent, left>>

Init == owner = [i \in Id |-> None] /\ spent = {} /\ left = {}

Claim(c, i) ==
  /\ c \in Conn \ spent
  /\ owner' = [owner EXCEPT ![i] = c]
  /\ spent' = spent \cup {c}
  /\ UNCHANGED left

Leave(c) ==
  /\ c \in spent \ left
  /\ owner' = [i \in Id |-> IF owner[i] = c THEN None ELSE owner[i]]
  /\ left' = left \cup {c}
  /\ UNCHANGED spent

\* By the administrator.
Evict(i) ==
  /\ owner[i] # None
  /\ owner' = [owner EXCEPT ![i] = None]
  /\ UNCHANGED <<spent, left>>

Next ==
  \/ \E c \in Conn, i \in Id : Claim(c, i)
  \/ \E c \in Conn : Leave(c)
  \/ \E i \in Id : Evict(i)

Spec == Init /\ [][Next]_registry
=============================================================================
