----------------------------- MODULE RingRelay -----------------------------
(***************************************************************************)
(* The relay ring of the TURN server (ring_relay.go).  A fixed ring of UDP *)
(* ports is shared by all TURN allocations: each allocation is a virtual   *)
(* connection on the next port of the ring, and one goroutine per port     *)
(* reads the physical socket and hands every packet to the virtual         *)
(* connection it looks up.  The goroutines modelled here are               *)
(*   - the reader of each port           (RingPortNode.start),             *)
(*   - the writer of each connection     (VirtualPacketConn.WriteTo),      *)
(*   - whoever closes a connection       (VirtualPacketConn.Close),        *)
(*   - the TURN library allocating and granting permissions, and           *)
(*   - the shutdown of the process       (RingRelayAddressGenerator.Close).*)
(* A step is what runs between two points where another goroutine may get  *)
(* in: a node's mutex, an atomic flag, a channel operation, the mutex of   *)
(* the traffic counters (tm.mu of turn_monitor.go), for which a reader may *)
(* have to wait after a delivery; a writer waits for it with nothing in    *)
(* hand.  The contents of packets, the counters themselves and the refused *)
(* networks (AllocateConn and the "network" test) are left out.            *)
(***************************************************************************)
EXTENDS Naturals, FiniteSets, Sequences, SequencesExt

CONSTANTS
  Conn,          \* the virtual connections that may be allocated
  Peer,          \* remote addresses, host and port
  Ip,            \* remote hosts
  IpOf,          \* extractIP: the host of an address
  None,          \* no connection (nil)
  RingSize,      \* ports in the ring, maxPort - minPort + 1
  ChanCap,       \* capacity of a connection's inbound channel: 256 in the code
  MaxRefusals,   \* bound: failed binds of a physical socket
  Shutdown       \* the process may be asked to stop

Port == 1..RingSize
Key == Peer \cup Ip                      \* the keys of a node's routes map

ASSUME RingAssumption ==
  /\ RingSize \in Nat \ {0} /\ ChanCap \in Nat \ {0} /\ MaxRefusals \in Nat
  /\ IpOf \in [Peer -> Ip] /\ Peer \cap Ip = {}
  /\ None \notin Conn
  /\ Shutdown \in BOOLEAN

VARIABLES
  current,    \* currentIndex of the generator
  refusals,   \* failed binds so far
  sock,       \* sock[p]: the node's physicalConn: none, open or closed
  routes,     \* routes[p]: the routes map of the node, None where absent
  active,     \* active[p]: its activeConns
  home,       \* home[c]: the port of the node c belongs to, 0 when not allocated
  phase,      \* phase[c]: free, open, or how far its Close has got
  inbound,    \* inbound[c]: packets in its channel
  writer,     \* writer[c]: the peer its WriteTo has passed the closed test for
  reader,     \* reader[p]: where the reader goroutine of the port is
  closer,     \* where RingRelayAddressGenerator.Close is
  crashed,    \* the process has panicked
  lastWriter, \* lastWriter[p][a]: history, who last wrote to a through p
  overlapped  \* history, connections that were closed with a packet of theirs
              \* in somebody's hands

genVars == <<current, refusals>>
connVars == <<home, phase, inbound>>
nodeVars == <<sock, routes, active>>
vars == <<genVars, connVars, nodeVars, writer, reader, closer, crashed, lastWriter, overlapped>>

ReaderAt == [pc : {"read", "found", "send", "record", "stopped"}, to : Conn \cup {None}]
CloserAt == [pc : {"idle", "node", "conns", "unregister", "done"}, port : 0..RingSize + 1,
             conn : Conn \cup {None}]

TypeOK ==
  /\ current \in Port /\ refusals \in 0..MaxRefusals
  /\ sock \in [Port -> {"none", "open", "closed"}]
  /\ routes \in [Port -> [Key -> Conn \cup {None}]]
  /\ active \in [Port -> Seq(Conn)]
  /\ home \in [Conn -> Port \cup {0}]
  /\ phase \in [Conn -> {"free", "open", "marked", "unregistered", "closed"}]
  /\ inbound \in [Conn -> 0..ChanCap]
  /\ writer \in [Conn -> Peer \cup {None}]
  /\ reader \in [Port -> ReaderAt]
  /\ closer \in CloserAt
  /\ crashed \in BOOLEAN
  /\ lastWriter \in [Port -> [Peer -> Conn \cup {None}]]
  /\ overlapped \subseteq Conn

Init ==
  /\ current = 1 /\ refusals = 0
  /\ sock = [p \in Port |-> "none"]
  /\ routes = [p \in Port |-> [k \in Key |-> None]]
  /\ active = [p \in Port |-> <<>>]
  /\ home = [c \in Conn |-> 0] /\ phase = [c \in Conn |-> "free"]
  /\ inbound = [c \in Conn |-> 0]
  /\ writer = [c \in Conn |-> None]
  /\ reader = [p \in Port |-> [pc |-> "read", to |-> None]]
  /\ closer = [pc |-> "idle", port |-> 0, conn |-> None]
  /\ crashed = FALSE
  /\ lastWriter = [p \in Port |-> [a \in Peer |-> None]]
  /\ overlapped = {}

-----------------------------------------------------------------------------
(* Locks: only the shutdown keeps one across steps. *)

GeneratorUnlocked_BetweenNodes == closer.pc \in {"idle", "node", "done"} \* mutant
GeneratorUnlocked == closer.pc \in {"idle", "done"}
NodeUnlocked(p) == ~(closer.pc \in {"conns", "unregister"} /\ closer.port = p)

-----------------------------------------------------------------------------
(* Allocation *)

NextIndex(i) == (i % RingSize) + 1

\* AllocatePacketConn when the port's socket has to be opened and cannot be:
\* the index has moved on all the same.
AllocateRefused ==
  /\ GeneratorUnlocked /\ sock[current] = "none" /\ refusals < MaxRefusals
  /\ refusals' = refusals + 1
  /\ current' = NextIndex(current)
  /\ UNCHANGED <<connVars, nodeVars, writer, reader, closer, crashed, lastWriter, overlapped>>

Allocate(c) ==
  /\ GeneratorUnlocked /\ phase[c] = "free"
  /\ current' = NextIndex(current)
  /\ sock' = [sock EXCEPT ![current] = IF @ = "none" THEN "open" ELSE @]
  /\ active' = [active EXCEPT ![current] = Append(@, c)]
  /\ home' = [home EXCEPT ![c] = current]
  /\ phase' = [phase EXCEPT ![c] = "open"]
  /\ UNCHANGED <<refusals, routes, inbound, writer, reader, closer, crashed, lastWriter, overlapped>>

\* RegisterPermission: the route of the host goes to the LATEST connection
\* of the relay address, whichever allocation the permission was made for.
RegisterPermission(c, ip) ==
  LET p == home[c] IN
  /\ GeneratorUnlocked /\ phase[c] # "free" /\ phase[c] # "closed"
  /\ active[p] # <<>>
  /\ routes' = [routes EXCEPT ![p][ip] = Last(active[p])]
  /\ UNCHANGED <<genVars, connVars, sock, active, writer, reader, closer, crashed, lastWriter, overlapped>>

-----------------------------------------------------------------------------
(* A client's data on its way to a peer: VirtualPacketConn.WriteTo *)

ClosedFlag_Untested(c) == FALSE                                       \* mutant
ClosedFlag(c) == phase[c] \notin {"free", "open"}

WriteCheck(c, a) ==
  /\ phase[c] # "free" /\ ~ClosedFlag(c) /\ writer[c] = None
  /\ writer' = [writer EXCEPT ![c] = a]
  /\ UNCHANGED <<genVars, connVars, nodeVars, reader, closer, crashed, lastWriter, overlapped>>

\* registerRoute: the address and its host both lead to c from now on.
WithRoute_HostOnly(r, a, c) == [r EXCEPT ![IpOf[a]] = c]              \* mutant
WithRoute(r, a, c) == [r EXCEPT ![a] = c, ![IpOf[a]] = c]

WriteRegister(c) ==
  LET p == home[c]
      a == writer[c] IN
  /\ a # None /\ NodeUnlocked(p)
  /\ routes' = [routes EXCEPT ![p] = WithRoute(@, a, c)]
  /\ lastWriter' = [lastWriter EXCEPT ![p][a] = c]
  /\ writer' = [writer EXCEPT ![c] = None]
  /\ UNCHANGED <<genVars, connVars, sock, active, reader, closer, crashed, overlapped>>

-----------------------------------------------------------------------------
(* A peer's data on its way to a client: start, findTarget, deliver *)

\* With a single connection the last one is also the only one.
FindTarget(p, a) ==
  IF routes[p][a] # None THEN routes[p][a]
  ELSE IF routes[p][IpOf[a]] # None THEN routes[p][IpOf[a]]
  ELSE IF active[p] # <<>> THEN Last(active[p])
  ELSE None

\* A datagram of a arrives and its target is looked up under the read lock.
ReadPacket(p, a) ==
  /\ sock[p] = "open" /\ NodeUnlocked(p) /\ reader[p].pc = "read"
  /\ reader' = [reader EXCEPT ![p] = IF FindTarget(p, a) = None THEN @
                                     ELSE [pc |-> "found", to |-> FindTarget(p, a)]]
  /\ UNCHANGED <<genVars, connVars, nodeVars, writer, closer, crashed, lastWriter, overlapped>>

\* deliver, first half: the test of the closed flag.
DeliverCheck(p) ==
  /\ reader[p].pc = "found"
  /\ reader' = [reader EXCEPT ![p] = IF ClosedFlag(@.to) THEN [pc |-> "read", to |-> None]
                                     ELSE [@ EXCEPT !.pc = "send"]]
  /\ UNCHANGED <<genVars, connVars, nodeVars, writer, closer, crashed, lastWriter, overlapped>>

\* deliver, second half: a select with a default.  Sending on the channel that
\* Close has closed panics, a packet that finds no room is dropped, and one that
\* is delivered is counted, ...
DeliverSend(p) ==
  LET c == reader[p].to
      Sent == phase[c] # "closed" /\ inbound[c] < ChanCap IN
  /\ reader[p].pc = "send"
  /\ crashed' = (phase[c] = "closed")
  /\ inbound' = [inbound EXCEPT ![c] = IF Sent THEN @ + 1 ELSE @]
  /\ reader' = [reader EXCEPT ![p] = [pc |-> IF Sent THEN "record" ELSE "read", to |-> None]]
  /\ UNCHANGED <<genVars, home, phase, nodeVars, writer, closer, lastWriter, overlapped>>

\* ... RecordRelayTraffic, once tm.mu is there to be had.
DeliverRecorded(p) ==
  /\ reader[p].pc = "record"
  /\ reader' = [reader EXCEPT ![p].pc = "read"]
  /\ UNCHANGED <<genVars, connVars, nodeVars, writer, closer, crashed, lastWriter, overlapped>>

\* ReadFrom fails on a closed socket; the goroutine ends.
ReaderStops(p) ==
  /\ sock[p] = "closed" /\ NodeUnlocked(p) /\ reader[p].pc = "read"
  /\ reader' = [reader EXCEPT ![p].pc = "stopped"]
  /\ UNCHANGED <<genVars, connVars, nodeVars, writer, closer, crashed, lastWriter, overlapped>>

\* VirtualPacketConn.ReadFrom, called by the TURN library: packets left in a
\* closed channel can still be taken.
TakeInbound(c) ==
  /\ inbound[c] > 0
  /\ inbound' = [inbound EXCEPT ![c] = @ - 1]
  /\ UNCHANGED <<genVars, home, phase, nodeVars, writer, reader, closer, crashed, lastWriter, overlapped>>

-----------------------------------------------------------------------------
(* VirtualPacketConn.Close, once per connection *)

\* A packet of c is in the hands of its WriteTo or of a reader.
Handled(c) == writer[c] # None \/ \E p \in Port : reader[p].to = c
AfterMark(c) == IF Handled(c) THEN overlapped \cup {c} ELSE overlapped

CloseMark(c) ==
  /\ phase[c] = "open"
  /\ phase' = [phase EXCEPT ![c] = "marked"]
  /\ overlapped' = AfterMark(c)
  /\ UNCHANGED <<genVars, home, inbound, nodeVars, writer, reader, closer, crashed, lastWriter>>

\* unregisterVirtual: every route to c, and its first place among the active.
WithoutRoutes(r, c) == [k \in Key |-> IF r[k] = c THEN None ELSE r[k]]
WithoutConn_Oldest(s, c) == Tail(s)                                   \* mutant
WithoutConn(s, c) == RemoveFirst(s, c)

CloseUnregister(c) ==
  LET p == home[c] IN
  /\ phase[c] = "marked" /\ NodeUnlocked(p)
  /\ routes' = [routes EXCEPT ![p] = WithoutRoutes(@, c)]
  /\ active' = [active EXCEPT ![p] = WithoutConn(@, c)]
  /\ phase' = [phase EXCEPT ![c] = "unregistered"]
  /\ UNCHANGED <<genVars, home, inbound, sock, writer, reader, closer, crashed, lastWriter, overlapped>>

CloseChannel(c) ==
  /\ phase[c] = "unregistered"
  /\ phase' = [phase EXCEPT ![c] = "closed"]
  /\ UNCHANGED <<genVars, home, inbound, nodeVars, writer, reader, closer, crashed, lastWriter, overlapped>>

-----------------------------------------------------------------------------
(* RingRelayAddressGenerator.Close, deferred by main *)

ShutdownStarts ==
  /\ Shutdown /\ closer.pc = "idle"
  /\ closer' = [closer EXCEPT !.pc = "node", !.port = 1]
  /\ UNCHANGED <<genVars, connVars, nodeVars, writer, reader, crashed, lastWriter, overlapped>>

ShutdownNode ==
  /\ closer.pc = "node" /\ closer.port \in Port
  /\ sock' = [sock EXCEPT ![closer.port] = IF @ = "open" THEN "closed" ELSE @]
  /\ closer' = [closer EXCEPT !.pc = "conns"]
  /\ UNCHANGED <<genVars, connVars, routes, active, writer, reader, crashed, lastWriter, overlapped>>

\* v.Close() for the first connection of the node, with the node's mutex held:
\* closeOnce lets one caller through, and it wants that mutex.
ShutdownConn ==
  /\ closer.pc = "conns" /\ active[closer.port] # <<>>
  /\ LET v == Head(active[closer.port]) IN
       /\ closer' = [closer EXCEPT !.pc = "unregister", !.conn = v]
       /\ phase' = [phase EXCEPT ![v] = "marked"]
       /\ overlapped' = AfterMark(v)
  /\ UNCHANGED <<genVars, home, inbound, nodeVars, writer, reader, crashed, lastWriter>>

ShutdownUnlock ==
  /\ closer.pc = "conns" /\ active[closer.port] = <<>>
  /\ closer' = [closer EXCEPT !.pc = "node", !.port = @ + 1]
  /\ UNCHANGED <<genVars, connVars, nodeVars, writer, reader, crashed, lastWriter, overlapped>>

ShutdownDone ==
  /\ closer.pc = "node" /\ closer.port = RingSize + 1
  /\ closer' = [closer EXCEPT !.pc = "done"]
  /\ UNCHANGED <<genVars, connVars, nodeVars, writer, reader, crashed, lastWriter, overlapped>>

-----------------------------------------------------------------------------

ConnStep(c) ==
  \/ Allocate(c) \/ TakeInbound(c)
  \/ \E ip \in Ip : RegisterPermission(c, ip)
  \/ \E a \in Peer : WriteCheck(c, a)
  \/ WriteRegister(c)
  \/ CloseMark(c) \/ CloseUnregister(c) \/ CloseChannel(c)
Deliver(p) == DeliverCheck(p) \/ DeliverSend(p) \/ DeliverRecorded(p)
ReaderStep(p) == (\E a \in Peer : ReadPacket(p, a)) \/ Deliver(p) \/ ReaderStops(p)
ShutdownStep ==
  ShutdownStarts \/ ShutdownNode \/ ShutdownConn \/ ShutdownUnlock \/ ShutdownDone

Next ==
  /\ ~crashed
  /\ \/ AllocateRefused \/ ShutdownStep
     \/ \E c \in Conn : ConnStep(c)
     \/ \E p \in Port : ReaderStep(p)

Spec == Init /\ [][Next]_vars

\* Goroutines that can run do run, and who waits for tm.mu gets it, since all that
\* hold it give it back; nothing makes a client close or read, or a peer send.
FairSpec ==
  /\ Spec
  /\ \A p \in Port : WF_vars(~crashed /\ Deliver(p))
  /\ \A c \in Conn : WF_vars(~crashed /\ (CloseUnregister(c) \/ CloseChannel(c)))
  /\ WF_vars(~crashed /\ ShutdownStep /\ closer.pc # "idle")

-----------------------------------------------------------------------------
(* Properties *)

Live(c) == phase[c] \in {"open", "marked"}

\* The shutdown goes from port to port with the generator's mutex held, so that
\* nobody is allocated behind its back: a port it has been through has no active
\* connection and no socket to read from.  And the Close it waits for with a
\* node's mutex in hand is one that this mutex keeps from unregistering.
ShutdownOrderly ==
  closer.pc \in {"node", "conns", "unregister"} =>
    /\ \A p \in Port : p < closer.port => active[p] = <<>> /\ sock[p] # "open"
    /\ closer.pc = "unregister" => closer.conn \in ToSet(active[closer.port])

\* The state is well typed, the active connections of a port are, without
\* repetition, those allocated on it whose Close has not unregistered them yet:
\* AllocatePacketConn appends and unregisterVirtual cuts by position, under a
\* mutex the flags are not.  The shutdown empties the lists in its order.
ActiveWellFormed ==
  /\ TypeOK
  /\ \A p \in Port :
       /\ IsInjective(active[p])
       /\ ToSet(active[p]) = {c \in Conn : Live(c) /\ home[c] = p}
  /\ ShutdownOrderly

\* A Close that overlaps nobody's work on a packet of its connection does no
\* harm: no route crosses ports, a route that leads to a connection that is not
\* active any more can only come from a WriteTo that overlapped its Close, and
\* the process can only panic after a delivery that did.
OnlyOverlapsHarm ==
  /\ \A p \in Port, k \in Key :
       LET c == routes[p][k] IN c # None => home[c] = p /\ (Live(c) \/ c \in overlapped)
  /\ crashed => overlapped # {}

\* What a peer sends back reaches the client that wrote to that address last,
\* as long as that client is active, whoever else shares the port and whatever
\* permissions were registered since.
RepliesReachLastWriter ==
  \A p \in Port, a \in Peer :
    LET c == lastWriter[p][a] IN
      c # None /\ Live(c) => FindTarget(p, a) = c

\* "Drop si el buffer esta lleno para no congelar el socket fisico": whatever
\* the clients leave unread, whoever holds a node's mutex and however far the
\* shutdown has got, the reader of a port is done with the packet it has in hand.
ReadersMoveOn ==
  \A p \in Port : (reader[p].pc \in {"found", "send", "record"}) ~> (reader[p].pc = "read" \/ crashed)

\* deliver tests the closed flag so that nothing is sent to a closed
\* connection; the process outlives every Close.
NoSendOnClosedChannel == ~crashed

\* "Si solo hay 1 conexion virtual activa en este puerto, se le entrega
\* directamente": with one active connection there is no other target.
SingleConnGetsAll ==
  \A p \in Port, a \in Peer : Len(active[p]) = 1 => FindTarget(p, a) = active[p][1]

\* The shutdown of the process gets through the ring.
ShutdownEnds == (closer.pc = "node") ~> (closer.pc = "done")
=============================================================================
