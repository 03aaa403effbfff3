\* Two clients on two ports with two addresses of one host; binds that fail,
\* and the process may be stopped.
SPECIFICATION Spec
CONSTANTS
  None = None
  a1 = a1 a2 = a2 h1 = h1 c1 = c1 c2 = c2 c3 = c3
  Conn = {c1, c2}
  Peer = {a1, a2}
  Ip = {h1}
  IpOf <- MCIpOf
  RingSize = 2
  ChanCap = 1
  MaxRefusals = 1
  Shutdown = TRUE
INVARIANTS ActiveWellFormed OnlyOverlapsHarm RepliesReachLastWriter
SYMMETRY Symmetry
\* After a panic, or once every connection is closed, the model stops.
CHECK_DEADLOCK FALSE
