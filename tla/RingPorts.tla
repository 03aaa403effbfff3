----------------------------- MODULE RingPorts -----------------------------
(***************************************************************************)
(* How the relay ring is built: the first call of AllocatePacketConn walks *)
(* a uint16 counter from minPort to maxPort and appends one node per port, *)
(* holding the generator's mutex all the while (ring_relay.go 216-230).    *)
(* The counter wraps at its width, so the model keeps the width.           *)
(***************************************************************************)
EXTENDS Naturals

CONSTANTS
  PortBits,       \* width of a port number: 16 in the code
  ConfiguredPorts \* the values MIN_RELAY_PORT and MAX_RELAY_PORT may be given

MaxUint == 2^PortBits - 1
Port == 0..MaxUint

VARIABLES
  minPort, maxPort,   \* the fields of RingRelayAddressGenerator
  port,               \* the loop variable of AllocatePacketConn
  nodes,              \* nodes[p]: how many nodes of the ring have port p (capped at 2, a duplicate)
  pc                  \* "new", "building", "built" or "refused"

vars == <<minPort, maxPort, port, nodes, pc>>

TypeOK ==
  /\ minPort \in Port /\ maxPort \in Port /\ port \in Port
  /\ nodes \in [Port -> 0..2]
  /\ pc \in {"new", "building", "built", "refused"}

\* The constructor puts its two bounds in order.
OrderedBounds(a, b) == IF a > b THEN [lo |-> b, hi |-> a] ELSE [lo |-> a, hi |-> b]

\* The operator configures the two bounds, in either order.
Init ==
  /\ \E a, b \in ConfiguredPorts :
       minPort = OrderedBounds(a, b).lo /\ maxPort = OrderedBounds(a, b).hi
  /\ port = 0
  /\ nodes = [p \in Port |-> 0]
  /\ pc = "new"

\* Validate, which the TURN library calls before it uses the generator.
Validate ==
  /\ pc = "new"
  /\ IF minPort = 0 \/ maxPort = 0
       THEN pc' = "refused" /\ UNCHANGED port
       ELSE pc' = "building" /\ port' = minPort
  /\ UNCHANGED <<minPort, maxPort, nodes>>

NextPort(p) == (p + 1) % 2^PortBits                      \* port++ on a uint16

InLoop(p, hi) == p <= hi

AppendNode ==
  /\ pc = "building" /\ InLoop(port, maxPort)
  /\ nodes' = [nodes EXCEPT ![port] = IF @ = 2 THEN 2 ELSE @ + 1]
  /\ port' = NextPort(port)
  /\ UNCHANGED <<minPort, maxPort, pc>>

LeaveLoop ==
  /\ pc = "building" /\ ~InLoop(port, maxPort)
  /\ pc' = "built"
  /\ UNCHANGED <<minPort, maxPort, port, nodes>>

\* A built or refused ring stays as it is.
Settled == pc \in {"built", "refused"} /\ UNCHANGED vars

Next == Validate \/ AppendNode \/ LeaveLoop \/ Settled

Spec == Init /\ [][Next]_vars
\* The loop runs under no lock another goroutine could hold: it keeps going.
FairSpec == Spec /\ WF_vars(Validate \/ AppendNode \/ LeaveLoop)

-----------------------------------------------------------------------------
(* Properties *)

\* The ring the code keeps for ever has exactly one node per port of the
\* configured range, and at least one: AllocatePacketConn indexes it without
\* looking ("ring[currentIndex]").
RingExact ==
  pc = "built" =>
    /\ minPort <= maxPort
    /\ \A p \in Port : nodes[p] = IF p \in minPort..maxPort THEN 1 ELSE 0

\* The first allocation gets past the construction of the ring: every later
\* AllocatePacketConn and RegisterPermission waits for the same mutex.
RingGetsBuilt == <>(pc \in {"built", "refused"})
=============================================================================
