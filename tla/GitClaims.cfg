\* Three requests about two peers, the admin and a crash.
SPECIFICATION Spec
CONSTANTS
  None = None
  r1 = r1 r2 = r2 r3 = r3 r4 = r4 p1 = p1 p2 = p2
  Request = {r1, r2, r3}
  Peer = {p1, p2}
  MaxCrashes = 1
INVARIANTS FlagsHaveReason LatecomersShutOut
PROPERTY SavesDurably
SYMMETRY Symmetry
